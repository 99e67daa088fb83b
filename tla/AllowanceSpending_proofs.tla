----------------------- MODULE AllowanceSpending_proofs -----------------------
(***************************************************************************)
(* For any rules, payments, amounts and times: in no window is more spent  *)
(* under a rule than its limit, under a removed one nothing more,          *)
(* whatever was decided when, and a payment executes once.                 *)
(*                                                                         *)
(* The sums are folds.  The facts about them are derived from induction    *)
(* over the subsets of a finite set, in the form of least counterexamples. *)
(***************************************************************************)
EXTENDS AllowanceSpending, FiniteSetTheorems, TLAPS

(***************************************************************************)
(* Sums of amounts.                                                        *)
(***************************************************************************)

\* Induction over the subsets of a finite set, stated with a set of good subsets.
LEMMA SubsetInduction ==
    ASSUME NEW S, IsFiniteSet(S), NEW Good \in SUBSET SUBSET S,
           {} \in Good, \A T \in Good : \A x \in S \ T : T \cup {x} \in Good
    PROVE  Good = SUBSET S
<1> DEFINE Bad == (SUBSET S) \ Good
<1> SUFFICES ASSUME Bad # {} PROVE FALSE
    OBVIOUS
<1>1. IsWellFoundedOn(StrictSubsetOrdering(S), SUBSET S)
    BY FS_StrictSubsetOrderingWellFounded, FS_FiniteSubsetsOfFinite
<1> HIDE DEF Bad
<1>2. Bad \subseteq SUBSET S
    BY DEF Bad
<1>3. PICK T \in Bad : \A U \in Bad : <<U, T>> \notin StrictSubsetOrdering(S)
    BY <1>1, <1>2, WFMin
<1>4. PICK x \in T : TRUE
    BY <1>2 DEF Bad
<1>5. T \ {x} \in Good
    <2>1. T \ {x} \in SUBSET S /\ T \in SUBSET S /\ T \ {x} # T
        BY <1>2, <1>4
    <2>2. <<T \ {x}, T>> \in StrictSubsetOrdering(S)
        BY <2>1 DEF StrictSubsetOrdering
    <2> QED
        BY <1>3, <2>1, <2>2 DEF Bad
<1>6. (T \ {x}) \cup {x} = T /\ x \in S \ (T \ {x})
    BY <1>2, <1>4
<1> QED
    BY <1>5, <1>6 DEF Bad

Priced(S) == IsFiniteSet(S) /\ \A e \in S : e.amount \in Nat

\* h gives every set of entries within S the sum of its amounts.
IsTally(h, S) ==
    /\ h \in [SUBSET S -> Nat]
    /\ h[{}] = 0
    /\ \A T \in SUBSET S : \A x \in S \ T : h[T \cup {x}] = h[T] + x.amount

\* A finite set of entries has a tally.
LEMMA TallyExists == ASSUME NEW S, Priced(S) PROVE \E h : IsTally(h, S)
<1> DEFINE Good == {T \in SUBSET S : \E h : IsTally(h, T)}
<1>1. {} \in Good
    <2>1. IsTally([T \in SUBSET {} |-> 0], {})
        BY DEF IsTally
    <2> QED
        BY <2>1
<1>2. ASSUME NEW T \in Good, NEW x \in S \ T PROVE T \cup {x} \in Good
    <2> DEFINE P == SUBSET (T \cup {x})
    <2>1. PICK h : IsTally(h, T)
        BY <1>2
    <2>2. x.amount \in Nat
        BY <1>2 DEF Priced
    <2> DEFINE g == [U \in P |-> IF x \in U THEN h[U \ {x}] + x.amount ELSE h[U]]
    <2>3. \A U \in P : U \ {x} \in SUBSET T
        OBVIOUS
    <2>3a. \A U \in P : x \notin U => U \in SUBSET T
        OBVIOUS
    <2>4. g \in [P -> Nat]
        <3> SUFFICES ASSUME NEW U \in P PROVE g[U] \in Nat
            OBVIOUS
        <3>1. CASE x \in U
            BY <2>1, <2>2, <2>3, <3>1 DEF IsTally
        <3>2. CASE x \notin U
            BY <2>1, <2>3a, <3>2 DEF IsTally
        <3> QED BY <3>1, <3>2
    <2>5. g[{}] = 0
        BY <2>1 DEF IsTally
    <2>6. ASSUME NEW U \in P, NEW y \in (T \cup {x}) \ U
          PROVE  g[U \cup {y}] = g[U] + y.amount
        <3>0. U \cup {y} \in P
            OBVIOUS
        <3>1. CASE y = x
            <4>1. (U \cup {y}) \ {x} = U /\ x \notin U
                BY <3>1
            <4> QED BY <3>0, <3>1, <4>1
        <3>2. CASE y # x /\ x \in U
            <4>1. (U \cup {y}) \ {x} = (U \ {x}) \cup {y} /\ y \in T \ (U \ {x})
                BY <3>2
            <4>2. h[(U \ {x}) \cup {y}] = h[U \ {x}] + y.amount
                BY <2>1, <2>3, <4>1 DEF IsTally
            <4>3. h[U \ {x}] \in Nat /\ y.amount \in Nat
                BY <2>1, <2>3, <4>1, <1>2 DEF IsTally, Priced
            <4>4. g[U \cup {y}] = h[(U \ {x}) \cup {y}] + x.amount /\ g[U] = h[U \ {x}] + x.amount
                BY <3>0, <3>2, <4>1
            <4> HIDE DEF g
            <4> QED BY <4>2, <4>3, <4>4, <2>2
        <3>3. CASE y # x /\ x \notin U
            <4>1. y \in T \ U /\ U \in SUBSET T /\ x \notin U \cup {y}
                BY <3>3
            <4>2. h[U \cup {y}] = h[U] + y.amount
                BY <2>1, <4>1 DEF IsTally
            <4> QED BY <3>0, <4>1, <4>2
        <3> QED BY <3>1, <3>2, <3>3
    <2>7. IsTally(g, T \cup {x})
        <3> HIDE DEF g
        <3> QED BY <2>4, <2>5, <2>6 DEF IsTally
    <2> QED BY <2>7
<1>3. Good = SUBSET S
    <2>1. Good \in SUBSET SUBSET S
        OBVIOUS
    <2> HIDE DEF Good
    <2> QED BY <1>1, <1>2, <2>1, SubsetInduction DEF Priced
<1> QED
    BY <1>3

\* A tally satisfies the equation by which the fold is defined, whatever it chooses.
LEMMA TallyFolds ==
    ASSUME NEW S, Priced(S), NEW h, IsTally(h, S)
    PROVE  h = [T \in SUBSET S |->
                   IF T = {} THEN 0
                   ELSE (CHOOSE x \in T : TRUE).amount + h[T \ {CHOOSE x \in T : TRUE}]]
<1> SUFFICES ASSUME NEW T \in SUBSET S, T # {}
             PROVE  h[T] = (CHOOSE x \in T : TRUE).amount + h[T \ {CHOOSE x \in T : TRUE}]
    BY DEF IsTally
<1> DEFINE c == CHOOSE x \in T : TRUE
<1>1. c \in T
    OBVIOUS
<1> HIDE DEF c
<1>2. T = (T \ {c}) \cup {c} /\ c \in S \ (T \ {c}) /\ T \ {c} \in SUBSET S
    BY <1>1
<1>3. h[T] = h[T \ {c}] + c.amount
    BY <1>2 DEF IsTally
<1>4. h[T] = c.amount + h[T \ {c}]
    BY <1>2, <1>3 DEF IsTally, Priced
<1> QED
    BY <1>4 DEF c

\* There is one function that satisfies that equation.
LEMMA FoldUnique ==
    ASSUME NEW S, Priced(S), NEW g, NEW h,
           g = [T \in SUBSET S |->
                   IF T = {} THEN 0
                   ELSE (CHOOSE x \in T : TRUE).amount + g[T \ {CHOOSE x \in T : TRUE}]],
           h = [T \in SUBSET S |->
                   IF T = {} THEN 0
                   ELSE (CHOOSE x \in T : TRUE).amount + h[T \ {CHOOSE x \in T : TRUE}]]
    PROVE  g = h
<1> DEFINE Bad == {T \in SUBSET S : g[T] # h[T]}
<1>1. IsWellFoundedOn(StrictSubsetOrdering(S), SUBSET S)
    BY FS_StrictSubsetOrderingWellFounded, FS_FiniteSubsetsOfFinite DEF Priced
<1>2. Bad = {}
    <2> SUFFICES ASSUME Bad # {} PROVE FALSE
        OBVIOUS
    <2>1. Bad \subseteq SUBSET S
        OBVIOUS
    <2>2. PICK T \in Bad : \A U \in Bad : <<U, T>> \notin StrictSubsetOrdering(S)
        <3> HIDE DEF Bad
        <3> QED BY <1>1, <2>1, WFMin
    <2> DEFINE c == CHOOSE x \in T : TRUE
    <2>3. T # {}
        OBVIOUS
    <2>4. c \in T
        BY <2>3
    <2>5. g[T] = c.amount + g[T \ {c}] /\ h[T] = c.amount + h[T \ {c}]
        BY <2>3
    <2> HIDE DEF c
    <2>6. T \ {c} \in SUBSET S /\ <<T \ {c}, T>> \in StrictSubsetOrdering(S)
        BY <2>4 DEF StrictSubsetOrdering
    <2>7. g[T \ {c}] = h[T \ {c}]
        BY <2>2, <2>6
    <2> QED BY <2>5, <2>7
<1> QED
    BY <1>2

\* Total is the tally of the whole set.
LEMMA TotalIsTally ==
    ASSUME NEW S, Priced(S), NEW h, IsTally(h, S)
    PROVE  Total(S) = h[S]
<1> DEFINE IsFold(g) == g = [T \in SUBSET S |->
                   IF T = {} THEN 0
                   ELSE (CHOOSE x \in T : TRUE).amount + g[T \ {CHOOSE x \in T : TRUE}]]
<1>1. IsFold(h)
    BY TallyFolds
<1>2. \A g : IsFold(g) => g = h
    BY <1>1, FoldUnique
<1>3. Total(S) = (CHOOSE g : IsFold(g))[S]
    BY DEF Total, MapThenSumSet, MapThenFoldSet
<1> HIDE DEF IsFold
<1>4. (CHOOSE g : IsFold(g)) = h
    BY <1>1, <1>2
<1> QED
    BY <1>3, <1>4

\* The sum of a finite set of entries is a number, 0 for none, and grows by the amount of
\* an entry that is added.
LEMMA TotalFacts ==
    ASSUME NEW S, Priced(S)
    PROVE  /\ Total(S) \in Nat
           /\ Total({}) = 0
           /\ \A x : x \notin S /\ x.amount \in Nat => Total(S \cup {x}) = Total(S) + x.amount
<1>1. Total(S) \in Nat
    <2>1. PICK h : IsTally(h, S)
        BY TallyExists
    <2>2. h[S] \in Nat
        BY <2>1 DEF IsTally
    <2> QED BY <2>1, <2>2, TotalIsTally
<1>2. Total({}) = 0
    <2>1. Priced({})
        BY FS_EmptySet DEF Priced
    <2>2. PICK h : IsTally(h, {})
        BY <2>1, TallyExists
    <2> QED BY <2>1, <2>2, TotalIsTally DEF IsTally
<1>3. ASSUME NEW x, x \notin S, x.amount \in Nat
      PROVE  Total(S \cup {x}) = Total(S) + x.amount
    <2>1. Priced(S \cup {x})
        BY <1>3, FS_AddElement DEF Priced
    <2>2. PICK h : IsTally(h, S \cup {x})
        BY <2>1, TallyExists
    <2> DEFINE g == [T \in SUBSET S |-> h[T]]
    <2>3. IsTally(g, S)
        <3>1. g \in [SUBSET S -> Nat] /\ g[{}] = 0
            BY <2>2 DEF IsTally
        <3>2. ASSUME NEW T \in SUBSET S, NEW y \in S \ T
              PROVE  g[T \cup {y}] = g[T] + y.amount
            <4>1. T \in SUBSET (S \cup {x}) /\ y \in (S \cup {x}) \ T /\ T \cup {y} \in SUBSET S
                OBVIOUS
            <4>2. h[T \cup {y}] = h[T] + y.amount
                BY <2>2, <4>1 DEF IsTally
            <4> QED BY <4>1, <4>2
        <3> HIDE DEF g
        <3> QED BY <3>1, <3>2 DEF IsTally
    <2>4. h[S \cup {x}] = h[S] + x.amount
        BY <1>3, <2>2 DEF IsTally
    <2>5. Total(S) = h[S]
        BY <2>3, TotalIsTally
    <2>6. Total(S \cup {x}) = h[S \cup {x}]
        BY <2>1, <2>2, TotalIsTally
    <2> QED BY <2>4, <2>5, <2>6
<1> QED
    BY <1>1, <1>2, <1>3

\* Fewer entries sum up to no more.
LEMMA TotalMonotone ==
    ASSUME NEW S, Priced(S), NEW T \in SUBSET S
    PROVE  Total(T) <= Total(S)
<1> DEFINE Good == {U \in SUBSET (S \ T) : Total(T) <= Total(T \cup U)}
<1>1. Priced(T) /\ IsFiniteSet(S \ T)
    BY FS_Subset DEF Priced
<1>2. {} \in Good
    <2>1. T \cup {} = T
        OBVIOUS
    <2> QED BY <1>1, <2>1, TotalFacts
<1>3. ASSUME NEW U \in Good, NEW x \in (S \ T) \ U PROVE U \cup {x} \in Good
    <2>1. Priced(T \cup U)
        <3>1. T \cup U \in SUBSET S
            OBVIOUS
        <3> QED BY <3>1, FS_Subset DEF Priced
    <2>2. x \notin T \cup U /\ x.amount \in Nat
        BY <1>3 DEF Priced
    <2>3. Total((T \cup U) \cup {x}) = Total(T \cup U) + x.amount
        BY <2>1, <2>2, TotalFacts
    <2>4. (T \cup U) \cup {x} = T \cup (U \cup {x}) /\ Total(T) <= Total(T \cup U)
          /\ U \cup {x} \in SUBSET (S \ T)
        OBVIOUS
    <2>5. Total(T) \in Nat /\ Total(T \cup U) \in Nat
        BY <1>1, <2>1, TotalFacts
    <2>6. Total(T) <= Total(T \cup (U \cup {x}))
        <3>1. Total(T \cup (U \cup {x})) = Total(T \cup U) + x.amount
            BY <2>3, <2>4
        <3> QED BY <2>2, <2>4, <2>5, <3>1
    <2> QED BY <2>4, <2>6
<1>4. Good = SUBSET (S \ T)
    <2>1. Good \in SUBSET SUBSET (S \ T)
        OBVIOUS
    <2> HIDE DEF Good
    <2> QED BY <1>1, <1>2, <1>3, <2>1, SubsetInduction
<1>5. S \ T \in Good /\ T \cup (S \ T) = S
    BY <1>4
<1> QED
    BY <1>5
-----------------------------------------------------------------------------
(***************************************************************************)
(* The inductive invariant.                                                *)
(***************************************************************************)

\* A payment that is on the ledger has executed, in the past, under a rule that exists or
\* has existed, and no other payment has the same entry.
ExecutedInv ==
    /\ IsFiniteSet(spent)
    /\ \A s \in spent :
        /\ pc[s.payment] = "executed" /\ s.ledger <= ledger
        /\ terms[s.payment].rule \in live \cup removed
        /\ terms[s.payment].amount \in Amounts
    /\ \A s, t \in spent : s.payment = t.payment => s = t

\* The policy of a live rule has forgotten only entries that will never count again, and
\* the sum it stores is that of the entries it holds.
HistoryInv ==
    \A r \in live :
        /\ data[r].entries \subseteq SpentUnder(r)
        /\ \A e \in SpentUnder(r) : Counts(e, ledger) => e \in data[r].entries
        /\ data[r].total = Total(data[r].entries)

\* A call that compares has a positive amount, and unless something was spent or removed
\* since, the stored sum of a live rule.
SeenInv ==
    \A p \in Payments :
        /\ pc[p] \in {"get", "preflight"} => terms[p].amount \in Amounts
        /\ pc[p] = "preflight" /\ p \notin outdated /\ seen[p].status = "ACTIVE" =>
              terms[p].rule \in live /\ seen[p].spent = data[terms[p].rule].total

IInv == TypeOK /\ ExecutedInv /\ HistoryInv /\ SeenInv /\ WindowWithinLimit

USE SpendingAssumption

-----------------------------------------------------------------------------
\* The terms of a payment that has ended are those of none.
LEMMA NoTermsTyped == NoTerms \in [rule : Rules, amount : Amounts \cup {0}, to : Recipients]
BY DEF NoTerms

\* What was spent under a rule has a sum.
LEMMA SpentIsPriced ==
    ASSUME IsFiniteSet(spent), \A s \in spent : terms[s.payment].amount \in Amounts,
           NEW S, NEW r, S \subseteq SpentUnder(r)
    PROVE  Priced(S)
<1> DEFINE E == {EntryOf(s) : s \in spent}
           f == [s \in spent |-> EntryOf(s)]
<1>1. IsFiniteSet(E)
    <2>1. f \in Surjection(spent, E)
        BY DEF Surjection
    <2> HIDE DEF f, E
    <2> QED BY <2>1, FS_Surjection
<1>2. S \subseteq E
    BY DEF SpentUnder
<1>3. IsFiniteSet(S)
    BY <1>1, <1>2, FS_Subset
<1>4. \A e \in S : e.amount \in Nat
    <2>1. \A s \in spent : EntryOf(s).amount \in Nat
        BY DEF EntryOf
    <2> QED BY <1>2, <2>1
<1> QED
    BY <1>3, <1>4 DEF Priced

\* Nothing has been paid.
LEMMA InitEstablishes == Init => IInv
<1> SUFFICES ASSUME Init PROVE IInv
    OBVIOUS
<1>1. Total({}) = 0
    BY TotalFacts, FS_EmptySet DEF Priced
<1>2. TypeOK
    BY NoTermsTyped DEF Init, TypeOK, NoData, NotRead, Places, Statuses
<1>3. ExecutedInv /\ SeenInv
    BY FS_EmptySet DEF Init, ExecutedInv, SeenInv
<1>4. \A r \in Rules : SpentUnder(r) = {}
    BY DEF Init, SpentUnder
<1>5. HistoryInv
    BY <1>1, <1>4 DEF Init, HistoryInv, NoData
<1>6. ASSUME NEW r \in Rules, NEW l \in 0 .. ledger PROVE InWindow(r, l) <= Limit
    <2>1. {e \in SpentUnder(r) : e.ledger \in l - Period + 1 .. l} = {}
        BY <1>4
    <2> QED
        BY <1>1, <2>1 DEF InWindow
<1> QED
    BY <1>2, <1>3, <1>5, <1>6 DEF IInv, WindowWithinLimit

\* A payment that has not executed is no part of what was spent.
LEMMA SpentStays ==
    ASSUME IInv, spent' = spent, \A s \in spent : terms'[s.payment] = terms[s.payment]
    PROVE  /\ \A r \in Rules : SpentUnder(r)' = SpentUnder(r)
           /\ \A r \in Rules, l \in Int : InWindow(r, l)' = InWindow(r, l)
<1>1. \A r \in Rules : SpentUnder(r)' = SpentUnder(r)
    BY DEF SpentUnder, EntryOf
<1> QED
    BY <1>1 DEF InWindow

\* A payment that is not on the ledger may go anywhere, with any terms; only what it has
\* seen of a rule must be so.
LEMMA PaymentMoves ==
    ASSUME IInv, NEW p \in Payments, pc[p] # "executed", NEW place \in Places,
           NEW new \in [rule : Rules, amount : Amounts \cup {0}, to : Recipients],
           NEW record \in [spent : Nat, status : Statuses],
           pc' = [pc EXCEPT ![p] = place], terms' = [terms EXCEPT ![p] = new],
           seen' = [seen EXCEPT ![p] = record],
           outdated' \subseteq Payments, outdated \subseteq outdated' \cup {p},
           UNCHANGED <<ledger, rules, spent>>, marked' \subseteq Rules,
           authorizedUntil' \in [Payments -> Nat],
           place \in {"get", "preflight"} => new.amount \in Amounts,
           place = "preflight" /\ record.status = "ACTIVE" =>
               p \in outdated' \/ (new.rule \in live /\ record.spent = data[new.rule].total)
    PROVE  IInv'
<1>1. UNCHANGED <<live, removed, data>>
    BY DEF rules
<1>2. TypeOK'
    BY <1>1 DEF IInv, TypeOK
<1>3. \A s \in spent : s.payment \in Payments /\ s.payment # p
    BY DEF IInv, TypeOK, ExecutedInv
<1>4. \A s \in spent : terms'[s.payment] = terms[s.payment] /\ pc'[s.payment] = pc[s.payment]
    BY <1>3 DEF IInv, TypeOK
<1>5. ExecutedInv'
    BY <1>1, <1>4 DEF IInv, ExecutedInv
<1>6. HistoryInv'
    BY <1>1, <1>4, SpentStays DEF IInv, TypeOK, HistoryInv, Counts
<1>7. WindowWithinLimit'
    BY <1>4, SpentStays DEF IInv, TypeOK, WindowWithinLimit
<1>8. SeenInv'
    BY <1>1 DEF IInv, TypeOK, SeenInv
<1> QED
    BY <1>2, <1>5, <1>6, <1>7, <1>8 DEF IInv

-----------------------------------------------------------------------------
(* What executes. *)

\* What the policy still counts is what was spent in the window that ends now.
LEMMA CountedIsSpent ==
    ASSUME IInv, NEW r \in live
    PROVE  {e \in data[r].entries : Counts(e, ledger)}
               = {e \in SpentUnder(r) : e.ledger \in ledger - Period + 1 .. ledger}
<1>1. \A e \in SpentUnder(r) : e.ledger \in Nat /\ e.ledger <= ledger
    BY DEF IInv, TypeOK, ExecutedInv, SpentUnder, EntryOf
<1>2. \A e \in SpentUnder(r) : Counts(e, ledger) <=> e.ledger \in ledger - Period + 1 .. ledger
    BY <1>1 DEF Counts, IInv, TypeOK
<1> QED
    BY <1>2 DEF IInv, HistoryInv

\* The contracts see the rule, the recipient, the ledger and the sum at which it executes.
LEMMA ExecutePreserves ==
    ASSUME IInv, NEW p \in Payments, Execute(p), NEW r \in Rules, terms[p].rule = r
    PROVE  IInv'
<1> DEFINE entry == [payment |-> p, ledger |-> ledger, amount |-> terms[p].amount]
           kept == {e \in data[r].entries : Counts(e, ledger)}
           new == [payment |-> p, ledger |-> ledger]
<1>1. /\ pc[p] = "signed" /\ ledger <= authorizedUntil[p] /\ Permitted(p)
      /\ data' = [data EXCEPT ![r] = [total |-> Total(kept) + terms[p].amount, entries |-> kept \cup {entry}]]
      /\ pc' = [pc EXCEPT ![p] = "executed"]
      /\ spent' = spent \cup {new}
      /\ authorizedUntil' = [authorizedUntil EXCEPT ![p] = 0]
      /\ outdated' = outdated \cup {q \in Payments : pc[q] \in {"get", "preflight"} /\ terms[q].rule = r}
      /\ UNCHANGED <<ledger, live, removed, marked, terms, seen>>
    BY DEF Execute, CleanedUp, Goto
<1>2. /\ r \in live /\ ledger <= ValidUntil /\ terms[p].to = RecipientOf[r]
      /\ Total(kept) + terms[p].amount <= Limit
      /\ terms[p].amount \in Amounts /\ terms[p].amount \in Nat
    <2>1. terms[p].amount \in Amounts \cup {0} /\ terms[p].amount > 0
        BY <1>1 DEF Permitted, ValidTransfer, IInv, TypeOK
    <2>2. terms[p].amount \in Amounts
        BY <2>1
    <2>3. terms[p].amount \in Nat
        BY <2>2
    <2>4. WithinLimit(p) <=> Total(kept) + terms[p].amount <= Limit
        BY DEF WithinLimit, CleanedUp
    <2> HIDE DEF kept
    <2> QED BY <1>1, <2>2, <2>3, <2>4 DEF Permitted, ValidTransfer
<1> HIDE DEF kept
<1>3. \A s \in spent : s.payment \in Payments /\ s.payment # p
    BY <1>1 DEF IInv, TypeOK, ExecutedInv
<1>4. kept \subseteq SpentUnder(r) /\ Priced(kept)
    <2>1. kept \subseteq SpentUnder(r)
        BY <1>2 DEF kept, IInv, HistoryInv
    <2> QED BY <2>1, SpentIsPriced DEF IInv, ExecutedInv
<1>5. entry \notin SpentUnder(r)
    <2>1. \A s \in spent : EntryOf(s) # entry
        BY <1>3 DEF EntryOf
    <2> QED BY <2>1 DEF SpentUnder
<1>6. /\ Total(kept) \in Nat /\ Total(kept \cup {entry}) = Total(kept) + terms[p].amount
    <2>1. entry \notin kept /\ entry.amount = terms[p].amount /\ entry.amount \in Nat
        BY <1>2, <1>4, <1>5
    <2> HIDE DEF entry
    <2> QED BY <1>4, <2>1, TotalFacts
<1>7. /\ SpentUnder(r)' = SpentUnder(r) \cup {entry}
      /\ \A x \in Rules \ {r} : SpentUnder(x)' = SpentUnder(x)
    <2> DEFINE Of(x) == {t \in spent : terms[t.payment].rule = x}
    <2>1. \A x \in Rules : SpentUnder(x) = {EntryOf(s) : s \in Of(x)}
        BY DEF SpentUnder
    <2>2. \A x \in Rules : SpentUnder(x)' = {EntryOf(s) : s \in Of(x)'}
        BY <1>1 DEF SpentUnder, EntryOf
    <2>3. Of(r)' = Of(r) \cup {new} /\ \A x \in Rules \ {r} : Of(x)' = Of(x)
        BY <1>1
    <2>4. EntryOf(new) = entry
        BY DEF EntryOf
    <2> HIDE DEF Of, new, entry
    <2>5. {EntryOf(s) : s \in Of(r) \cup {new}} = {EntryOf(s) : s \in Of(r)} \cup {EntryOf(new)}
        OBVIOUS
    <2>6. SpentUnder(r)' = SpentUnder(r) \cup {entry}
        BY <2>1, <2>2, <2>3, <2>4, <2>5
    <2> QED BY <2>1, <2>2, <2>3, <2>6
<1>8. TypeOK'
    <2> DEFINE Entries == [payment : Payments, ledger : Nat, amount : Amounts]
    <2>1. entry \in Entries /\ kept \cup {entry} \subseteq Entries
        BY <1>2 DEF IInv, TypeOK, kept
    <2>2. Total(kept) + terms[p].amount \in Nat
        BY <1>2, <1>6
    <2> HIDE DEF entry
    <2>4. data' \in [Rules -> [total : Nat, entries : SUBSET Entries]]
        BY <1>1, <2>1, <2>2 DEF IInv, TypeOK
    <2>5. \A x \in Rules \ live : data'[x] = NoData
        BY <1>1, <1>2 DEF IInv, TypeOK
    <2>3. new \in [payment : Payments, ledger : Nat]
        BY DEF IInv, TypeOK
    <2> QED BY <1>1, <1>2, <2>3, <2>4, <2>5 DEF IInv, TypeOK, Places
<1>9. ExecutedInv'
    <2>1. IsFiniteSet(spent')
        BY <1>1, FS_AddElement DEF IInv, ExecutedInv
    <2> QED BY <1>1, <1>2, <1>3, <2>1 DEF IInv, TypeOK, ExecutedInv
<1>10. HistoryInv'
    <2> SUFFICES ASSUME NEW x \in live
                 PROVE  /\ data'[x].entries \subseteq SpentUnder(x)'
                        /\ \A e \in SpentUnder(x)' : Counts(e, ledger) => e \in data'[x].entries
                        /\ data'[x].total = Total(data'[x].entries)
        BY <1>1 DEF HistoryInv, Counts
    <2>1. CASE x # r
        <3>1. x \in Rules /\ data'[x] = data[x]
            BY <1>1, <2>1 DEF IInv, TypeOK
        <3> QED BY <1>7, <2>1, <3>1 DEF IInv, HistoryInv
    <2>2. CASE x = r
        <3>1. data'[x] = [total |-> Total(kept) + terms[p].amount, entries |-> kept \cup {entry}]
            BY <1>1, <1>2, <2>2 DEF IInv, TypeOK
        <3>2. \A e \in SpentUnder(r) : Counts(e, ledger) => e \in kept
            BY <1>2 DEF kept, IInv, HistoryInv
        <3> HIDE DEF entry
        <3> QED BY <1>4, <1>6, <1>7, <2>2, <3>1, <3>2
    <2> QED BY <2>1, <2>2
<1>11. SeenInv'
    BY <1>1 DEF IInv, TypeOK, SeenInv
<1>12. WindowWithinLimit'
    <2> SUFFICES ASSUME NEW x \in Rules, NEW l \in 0 .. ledger
                 PROVE  InWindow(x, l)' <= Limit
        BY <1>1 DEF WindowWithinLimit
    <2>1. CASE x # r
        BY <1>7, <2>1 DEF IInv, WindowWithinLimit, InWindow
    <2>2. CASE x = r /\ l < ledger
        <3>1. entry.ledger \notin l - Period + 1 .. l
            BY <2>2 DEF IInv, TypeOK
        <3> HIDE DEF entry
        <3>2. {e \in SpentUnder(x)' : e.ledger \in l - Period + 1 .. l}
                = {e \in SpentUnder(x) : e.ledger \in l - Period + 1 .. l}
            BY <1>7, <2>2, <3>1
        <3> QED BY <3>2 DEF IInv, WindowWithinLimit, InWindow
    <2>3. CASE x = r /\ l = ledger
        <3>1. kept = {e \in SpentUnder(r) : e.ledger \in ledger - Period + 1 .. ledger}
            BY <1>2, CountedIsSpent DEF kept
        <3>2. entry.ledger \in ledger - Period + 1 .. ledger
            BY DEF IInv, TypeOK
        <3> HIDE DEF entry
        <3>3. {e \in SpentUnder(x)' : e.ledger \in l - Period + 1 .. l} = kept \cup {entry}
            BY <1>7, <2>3, <3>1, <3>2
        <3> QED BY <1>2, <1>6, <3>3 DEF InWindow
    <2> QED BY <2>1, <2>2, <2>3 DEF IInv, TypeOK
<1> QED
    BY <1>8, <1>9, <1>10, <1>11, <1>12 DEF IInv

-----------------------------------------------------------------------------
(* What moves without a payment. *)

\* A rule begins without a history: nothing was ever spent under its id.
LEMMA AddRulePreserves ==
    ASSUME IInv, NEW r \in Rules, AddRule(r)
    PROVE  IInv'
<1>1. /\ r \notin live \cup removed /\ live' = live \cup {r}
      /\ UNCHANGED <<ledger, removed, data, marked, pc, terms, seen, authorizedUntil, spent, outdated>>
    BY DEF AddRule
<1>2. TypeOK' /\ ExecutedInv' /\ SeenInv'
    BY <1>1 DEF IInv, TypeOK, ExecutedInv, SeenInv
<1>3. data[r] = NoData /\ SpentUnder(r) = {}
    BY <1>1 DEF IInv, TypeOK, ExecutedInv, SpentUnder
<1>4. Total({}) = 0
    BY TotalFacts, FS_EmptySet DEF Priced
<1>5. HistoryInv'
    <2>1. \A x \in Rules : SpentUnder(x)' = SpentUnder(x)
        BY <1>1, SpentStays
    <2>2. ASSUME NEW x \in live \cup {r}
          PROVE  /\ data[x].entries \subseteq SpentUnder(x)
                 /\ \A e \in SpentUnder(x) : Counts(e, ledger) => e \in data[x].entries
                 /\ data[x].total = Total(data[x].entries)
        <3>1. CASE x = r
            BY <1>3, <1>4, <3>1 DEF NoData
        <3>2. CASE x # r
            BY <1>1, <3>2 DEF IInv, HistoryInv
        <3> QED BY <3>1, <3>2
    <2>3. live \cup {r} \subseteq Rules
        BY <1>1 DEF IInv, TypeOK
    <2> SUFFICES ASSUME NEW x \in live \cup {r}
                 PROVE  /\ data[x].entries \subseteq SpentUnder(x)'
                        /\ \A e \in SpentUnder(x)' : Counts(e, ledger) => e \in data[x].entries
                        /\ data[x].total = Total(data[x].entries)
        BY <1>1 DEF HistoryInv, Counts
    <2>4. SpentUnder(x)' = SpentUnder(x)
        BY <2>1, <2>3
    <2> QED BY <2>2, <2>4
<1>6. WindowWithinLimit'
    BY <1>1, SpentStays DEF IInv, TypeOK, WindowWithinLimit
<1> QED
    BY <1>2, <1>5, <1>6 DEF IInv

\* What was spent under a removed rule stays spent; its id does not come back.
LEMMA RemoveRulePreserves ==
    ASSUME IInv, NEW r \in Rules, RemoveRule(r)
    PROVE  IInv'
<1>1. /\ r \in live /\ live' = live \ {r} /\ removed' = removed \cup {r}
      /\ data' = [data EXCEPT ![r] = NoData]
      /\ outdated' = outdated \cup {q \in Payments : pc[q] \in {"get", "preflight"} /\ terms[q].rule = r}
      /\ UNCHANGED <<ledger, marked, pc, terms, seen, authorizedUntil, spent>>
    BY DEF RemoveRule
<1>2. TypeOK'
    <2>1. data'[r] = NoData /\ \A x \in Rules \ {r} : data'[x] = data[x]
        BY <1>1 DEF IInv, TypeOK
    <2> QED BY <1>1, <2>1 DEF IInv, TypeOK, NoData
<1>3. ExecutedInv' /\ SeenInv'
    BY <1>1 DEF IInv, TypeOK, ExecutedInv, SeenInv
<1>4. HistoryInv'
    BY <1>1, SpentStays DEF IInv, TypeOK, HistoryInv, Counts
<1>5. WindowWithinLimit'
    BY <1>1, SpentStays DEF IInv, TypeOK, WindowWithinLimit
<1> QED
    BY <1>2, <1>3, <1>4, <1>5 DEF IInv

\* A closing ledger moves the window past entries and adds none.
LEMMA CloseLedgerPreserves ==
    ASSUME IInv, CloseLedger
    PROVE  IInv'
<1>1. /\ ledger' = ledger + 1
      /\ UNCHANGED <<live, removed, data, marked, pc, terms, seen, authorizedUntil, spent, outdated>>
    BY DEF CloseLedger, rules
<1>2. TypeOK' /\ ExecutedInv' /\ SeenInv'
    BY <1>1 DEF IInv, TypeOK, ExecutedInv, SeenInv
<1>3. \A r \in Rules : \A e \in SpentUnder(r) : e.ledger \in Nat /\ e.ledger <= ledger
    BY DEF IInv, TypeOK, ExecutedInv, SpentUnder, EntryOf
<1>4. HistoryInv'
    <2>1. \A r \in live : \A e \in SpentUnder(r) : Counts(e, ledger') => Counts(e, ledger)
        BY <1>1, <1>3 DEF IInv, TypeOK, Counts
    <2> QED BY <1>1, <2>1, SpentStays DEF IInv, TypeOK, HistoryInv, Counts
<1>5. WindowWithinLimit'
    <2> SUFFICES ASSUME NEW r \in Rules, NEW l \in 0 .. ledger + 1 PROVE InWindow(r, l) <= Limit
        BY <1>1, SpentStays DEF IInv, TypeOK, WindowWithinLimit
    <2>1. CASE l = ledger + 1
        <3> DEFINE S == {e \in SpentUnder(r) : e.ledger \in ledger - Period + 1 .. ledger}
                   T == {e \in SpentUnder(r) : e.ledger \in l - Period + 1 .. l}
        <3>1. T \subseteq S
            BY <1>3, <2>1 DEF IInv, TypeOK
        <3>2. Priced(S) /\ Priced(T)
            BY <3>1, SpentIsPriced DEF IInv, ExecutedInv
        <3> HIDE DEF S, T
        <3>3. Total(T) <= Total(S) /\ Total(S) \in Nat /\ Total(T) \in Nat
            BY <3>1, <3>2, TotalMonotone, TotalFacts
        <3>4. Total(S) <= Limit
            BY DEF S, IInv, TypeOK, WindowWithinLimit, InWindow
        <3>5. InWindow(r, l) = Total(T)
            BY DEF T, InWindow
        <3> QED BY <3>3, <3>4, <3>5
    <2>2. CASE l \in 0 .. ledger
        BY <2>2 DEF IInv, WindowWithinLimit
    <2> QED BY <2>1, <2>2 DEF IInv, TypeOK
<1> QED
    BY <1>2, <1>4, <1>5 DEF IInv

\* The SDK's table and the stuttering step do not touch the chain.
LEMMA MarkPreserves ==
    ASSUME IInv, (\E r \in Rules : MarkRevoked(r)) \/ UNCHANGED vars
    PROVE  IInv'
<1>1. /\ UNCHANGED <<ledger, live, removed, data, pc, terms, seen, authorizedUntil, spent, outdated>>
      /\ marked' \subseteq Rules
    BY DEF MarkRevoked, rules, vars, IInv, TypeOK
<1>2. TypeOK' /\ ExecutedInv' /\ SeenInv'
    BY <1>1 DEF IInv, TypeOK, ExecutedInv, SeenInv
<1>3. HistoryInv' /\ WindowWithinLimit'
    BY <1>1, SpentStays DEF IInv, TypeOK, HistoryInv, WindowWithinLimit, Counts
<1> QED
    BY <1>2, <1>3 DEF IInv

-----------------------------------------------------------------------------
(* What a call of the SDK does. *)

\* Where nothing is written for a payment, it keeps what it had.
LEMMA KeepsItsOwn ==
    ASSUME IInv, NEW p \in Payments
    PROVE  /\ terms = [terms EXCEPT ![p] = terms[p]] /\ seen = [seen EXCEPT ![p] = seen[p]]
           /\ terms[p] \in [rule : Rules, amount : Amounts \cup {0}, to : Recipients]
           /\ seen[p] \in [spent : Nat, status : Statuses]
BY DEF IInv, TypeOK

\* A call begins with the caller's terms; one that finds the mark has seen nothing else.
LEMMA BeginPreserves ==
    ASSUME IInv, NEW p \in Payments, NEW r \in Rules, NEW amount \in Amounts,
           NEW to \in Recipients, BeginPay(p, r, amount, to) \/ BeginBuild(p, r, amount, to)
    PROVE  IInv'
<1> DEFINE new == [rule |-> r, amount |-> amount, to |-> to]
           revoked == [seen[p] EXCEPT !.status = "REVOKED"]
<1>1. /\ pc[p] = "new" /\ terms' = [terms EXCEPT ![p] = new]
      /\ UNCHANGED <<ledger, rules, marked, authorizedUntil, spent, outdated>>
    BY DEF BeginPay, BeginBuild
<1>2. /\ new \in [rule : Rules, amount : Amounts \cup {0}, to : Recipients]
      /\ new.amount \in Amounts
    OBVIOUS
<1>3. /\ {"get", "preflight", "latest"} \subseteq Places
      /\ marked \subseteq Rules /\ authorizedUntil \in [Payments -> Nat] /\ outdated \subseteq Payments
    BY DEF Places, IInv, TypeOK
<1>4. /\ revoked \in [spent : Nat, status : Statuses] /\ revoked.status # "ACTIVE"
      /\ [seen EXCEPT ![p].status = "REVOKED"] = [seen EXCEPT ![p] = revoked]
    BY DEF IInv, TypeOK, Statuses
<1> HIDE DEF new, revoked
<1>5. CASE pc' = [pc EXCEPT ![p] = "get"] /\ seen' = seen
    BY <1>1, <1>2, <1>3, <1>5, KeepsItsOwn, PaymentMoves
<1>6. CASE pc' = [pc EXCEPT ![p] = "latest"] /\ seen' = seen
    BY <1>1, <1>2, <1>3, <1>6, KeepsItsOwn, PaymentMoves
<1>7. CASE pc' = [pc EXCEPT ![p] = "preflight"] /\ seen' = [seen EXCEPT ![p] = revoked]
    BY <1>1, <1>2, <1>3, <1>4, <1>7, PaymentMoves
<1> QED
    BY <1>4, <1>5, <1>6, <1>7 DEF BeginPay, BeginBuild, Goto

\* What get() read of a live rule is its stored sum; a failed read is no status to pay on.
LEMMA GetPreserves ==
    ASSUME IInv, NEW p \in Payments, GetAnswers(p) \/ GetFails(p)
    PROVE  IInv'
<1>1. PICK record : GetReturns(p, record) /\ record \in [spent : Nat, status : Statuses]
           /\ (record.status = "ACTIVE" =>
                   terms[p].rule \in live /\ record.spent = data[terms[p].rule].total)
    <2>1. CASE GetFails(p)
        BY <2>1 DEF GetFails, Statuses
    <2>2. CASE GetAnswers(p)
        <3>1. data[terms[p].rule].total \in Nat
            BY DEF IInv, TypeOK
        <3>2. \A total, latest : StatusOf(total, latest) \in Statuses
            BY DEF StatusOf, Statuses
        <3> QED BY <2>2, <3>1, <3>2 DEF GetAnswers
    <2> QED BY <2>1, <2>2
<1>2. /\ pc[p] = "get" /\ pc' = [pc EXCEPT ![p] = "preflight"] /\ seen' = [seen EXCEPT ![p] = record]
      /\ marked' \subseteq marked /\ outdated' = outdated \ {p}
      /\ UNCHANGED <<ledger, rules, terms, authorizedUntil, spent>>
    BY <1>1 DEF GetReturns, Goto
<1>3. "preflight" \in Places /\ terms[p].amount \in Amounts
    BY <1>2 DEF Places, IInv, SeenInv
<1>4. marked' \subseteq Rules /\ outdated' \subseteq Payments /\ authorizedUntil' \in [Payments -> Nat]
    BY <1>2 DEF IInv, TypeOK
<1>5. outdated \subseteq outdated' \cup {p} /\ pc[p] # "executed"
    BY <1>2
<1> QED
    BY <1>1, <1>2, <1>3, <1>4, <1>5, KeepsItsOwn, PaymentMoves

\* A call that ends leaves nothing behind.
LEMMA EndsPreserves ==
    ASSUME IInv, NEW p \in Payments, pc[p] # "executed", NEW place \in {"refused", "overBudget"},
           EndsAs(p, place)
    PROVE  IInv'
<1>1. /\ pc' = [pc EXCEPT ![p] = place] /\ terms' = [terms EXCEPT ![p] = NoTerms]
      /\ seen' = [seen EXCEPT ![p] = NotRead]
      /\ authorizedUntil' = [authorizedUntil EXCEPT ![p] = 0] /\ outdated' = outdated \ {p}
      /\ UNCHANGED <<ledger, rules, marked, spent>>
    BY DEF EndsAs, Goto
<1>2. place \in Places /\ NotRead \in [spent : Nat, status : Statuses]
    BY DEF Places, NotRead, Statuses
<1>3. marked' \subseteq Rules /\ outdated' \subseteq Payments /\ authorizedUntil' \in [Payments -> Nat]
    BY <1>1 DEF IInv, TypeOK
<1>4. outdated \subseteq outdated' \cup {p} /\ place \notin {"get", "preflight"}
    BY <1>1
<1> QED
    BY <1>1, <1>2, <1>3, <1>4, NoTermsTyped, PaymentMoves

\* What preflight lets through, and what is built and simulated, has still paid nothing.
LEMMA AdvancePreserves ==
    ASSUME IInv, NEW p \in Payments, pc[p] # "executed", NEW place \in {"latest", "enforce", "signed"},
           pc' = [pc EXCEPT ![p] = place], NEW record \in {seen[p], NotRead},
           seen' = [seen EXCEPT ![p] = record], outdated' \in {outdated, outdated \ {p}},
           authorizedUntil' \in [Payments -> Nat], UNCHANGED <<ledger, rules, marked, terms, spent>>
    PROVE  IInv'
<1>1. place \in Places /\ place \notin {"get", "preflight"} /\ NotRead \in [spent : Nat, status : Statuses]
    BY DEF Places, NotRead, Statuses
<1>2. marked' \subseteq Rules /\ outdated' \subseteq Payments /\ outdated \subseteq outdated' \cup {p}
    BY DEF IInv, TypeOK
<1>3. record \in [spent : Nat, status : Statuses]
    BY <1>1, KeepsItsOwn
<1>4. UNCHANGED <<ledger, rules, spent>> /\ terms' = [terms EXCEPT ![p] = terms[p]]
    BY KeepsItsOwn
<1>5. terms[p] \in [rule : Rules, amount : Amounts \cup {0}, to : Recipients]
    BY KeepsItsOwn
<1> QED
    BY <1>1, <1>2, <1>3, <1>4, <1>5, PaymentMoves

LEMMA PayPreserves ==
    ASSUME IInv, NEW p \in Payments, Pay(p)
    PROVE  IInv'
<1>1. CASE GetAnswers(p) \/ GetFails(p)
    BY <1>1, GetPreserves
<1>2. CASE Preflight(p)
    <2>1. CASE EndsAs(p, "overBudget") \/ EndsAs(p, "refused")
        BY <1>2, <2>1, EndsPreserves DEF Preflight
    <2>2. CASE /\ pc' = [pc EXCEPT ![p] = "latest"]
               /\ seen' = [seen EXCEPT ![p] = NotRead] /\ outdated' = outdated \ {p}
               /\ UNCHANGED <<ledger, rules, marked, terms, authorizedUntil, spent>>
        <3>1. authorizedUntil' \in [Payments -> Nat] /\ pc[p] # "executed"
            BY <1>2, <2>2 DEF IInv, TypeOK, Preflight
        <3> QED BY <2>2, <3>1, AdvancePreserves
    <2> QED BY <1>2, <2>1, <2>2 DEF Preflight, Goto
<1>3. CASE ReadLatest(p)
    <2>1. AuthorizationLedgers \in Nat
        BY DEF AuthorizationLedgers
    <2>2. authorizedUntil' \in [Payments -> Nat] /\ pc[p] # "executed"
        BY <1>3, <2>1 DEF ReadLatest, IInv, TypeOK
    <2> QED BY <1>3, <2>2, KeepsItsOwn, AdvancePreserves DEF ReadLatest, Goto
<1>4. CASE Simulate(p)
    <2>1. authorizedUntil' \in [Payments -> Nat] /\ pc[p] # "executed"
        BY <1>4 DEF Simulate, IInv, TypeOK
    <2> QED BY <1>4, <2>1, KeepsItsOwn, AdvancePreserves DEF Simulate, Goto
<1>5. CASE SimulationRefuses(p) \/ BuildFails(p)
    BY <1>5, EndsPreserves DEF SimulationRefuses, BuildFails
<1> QED
    BY <1>1, <1>2, <1>3, <1>4, <1>5 DEF Pay

-----------------------------------------------------------------------------
(* The theorems. *)

LEMMA InvariantIsInductive == IInv /\ [Next]_vars => IInv'
<1> SUFFICES ASSUME IInv, [Next]_vars PROVE IInv'
    OBVIOUS
<1>1. ASSUME NEW p \in Payments, Execute(p) PROVE IInv'
    <2>1. terms[p].rule \in Rules
        BY DEF IInv, TypeOK
    <2> QED BY <1>1, <2>1, ExecutePreserves
<1> QED
    BY <1>1, BeginPreserves, PayPreserves, AddRulePreserves, RemoveRulePreserves,
       CloseLedgerPreserves, MarkPreserves DEF Next

LEMMA InvariantHolds == Spec => []IInv
BY InitEstablishes, InvariantIsInductive, PTL DEF Spec

\* The variables have their types; the storage of a rule that does not exist is empty.
THEOREM TypeCorrect == Spec => []TypeOK
<1>1. IInv => TypeOK
    BY DEF IInv
<1> QED
    BY <1>1, InvariantHolds, PTL

\* The rolling budget of the policy: in no Period ledgers, wherever they begin, do the
\* payments that executed under a rule exceed its limit, however many were simulated
\* against the same remaining budget before one of them executed.
THEOREM BudgetIsKept == Spec => []WindowWithinLimit
<1>1. IInv => WindowWithinLimit
    BY DEF IInv
<1> QED
    BY <1>1, InvariantHolds, PTL

\* What is signed under a rule and not yet executed when the rule is removed never executes,
\* and no later rule takes its place.
THEOREM RemovalIsFinal == Spec => RemovedSpendsNoMore
<1> DEFINE Step == \A r \in removed : SpentUnder(r)' = SpentUnder(r)
<1>1. IInv /\ [Next]_vars => [Step]_vars
    <2> SUFFICES ASSUME IInv, Next, NEW r \in removed PROVE SpentUnder(r)' = SpentUnder(r)
        OBVIOUS
    <2>1. r \in Rules \ live /\ \A s \in spent : pc[s.payment] = "executed"
        BY DEF IInv, TypeOK, ExecutedInv
    <2>2. ASSUME NEW p \in Payments, Execute(p) PROVE SpentUnder(r)' = SpentUnder(r)
        <3>1. /\ spent' = spent \cup {[payment |-> p, ledger |-> ledger]} /\ terms' = terms
              /\ terms[p].rule # r
            BY <2>1, <2>2 DEF Execute, Permitted
        <3> QED BY <3>1 DEF SpentUnder, EntryOf
    <2>3. CASE ~ \E p \in Payments : Execute(p)
        <3>1. spent' = spent /\ \A s \in spent : terms'[s.payment] = terms[s.payment]
            BY <2>1, <2>3 DEF Next, Pay, BeginPay, BeginBuild, AddRule, RemoveRule, MarkRevoked,
                   CloseLedger, GetAnswers, GetFails, GetReturns, Preflight, ReadLatest, Simulate,
                   SimulationRefuses, BuildFails, EndsAs, IInv, TypeOK
        <3> QED BY <2>1, <3>1, SpentStays
    <2> QED BY <2>2, <2>3
<1> QED
    BY <1>1, InvariantHolds, PTL DEF Spec, RemovedSpendsNoMore

\* No payment is on the ledger twice: its authorization's nonce is used up.
THEOREM ExecutesOnce == Spec => [](\A s, t \in spent : s.payment = t.payment => s = t)
<1>1. IInv => \A s, t \in spent : s.payment = t.payment => s = t
    BY DEF IInv, ExecutedInv
<1> QED
    BY <1>1, InvariantHolds, PTL

\* preflight compares with the stored sum, which still holds entries that no longer count:
\* it never lets through what the contracts would refuse, as long as what it read is so.
THEOREM PreflightIsNoLaxer == Spec => AllowedIsPermitted
<1> DEFINE Step == \A p \in Payments \ outdated :
               pc[p] = "preflight" /\ pc'[p] = "latest" => Permitted(p)
<1>1. IInv /\ [Next]_vars => [Step]_vars
    <2> SUFFICES ASSUME IInv, Next, NEW p \in Payments \ outdated,
                        pc[p] = "preflight", pc'[p] = "latest"
                 PROVE  Permitted(p)
        OBVIOUS
    <2>1. Preflight(p) /\ RowAllows(p) /\ FitsRemaining(p)
        <3>1. pc \in [Payments -> Places]
            BY DEF IInv, TypeOK
        <3>2. pc' # pc
            BY <3>1
        <3>3. PICK q \in Payments :
                 \/ \E r \in Rules, amount \in Amounts, to \in Recipients :
                       BeginPay(q, r, amount, to) \/ BeginBuild(q, r, amount, to)
                 \/ Pay(q) \/ Execute(q)
            BY <3>2 DEF Next, AddRule, RemoveRule, MarkRevoked, CloseLedger
        <3>4. \E place : pc' = [pc EXCEPT ![q] = place]
            BY <3>3 DEF Pay, BeginPay, BeginBuild, Execute, GetAnswers, GetFails, GetReturns,
                   Preflight, ReadLatest, Simulate, SimulationRefuses, BuildFails, EndsAs, Goto
        <3>5. q = p
            BY <3>1, <3>4
        <3>6. Pay(p) /\ pc'[p] # "executed"
            BY <3>1, <3>3, <3>5 DEF BeginPay, BeginBuild, Execute, Goto
        <3>7. Preflight(p)
            BY <3>1, <3>6 DEF Pay, GetAnswers, GetFails, GetReturns, ReadLatest, Simulate,
                   SimulationRefuses, BuildFails, EndsAs, Goto
        <3> QED BY <3>1, <3>7 DEF Preflight, EndsAs, Goto
    <2> DEFINE r == terms[p].rule
               kept == {e \in data[r].entries : Counts(e, ledger)}
    <2>2. /\ terms[p].to = RecipientOf[r] /\ ValidUntil >= ledger
          /\ r \in live /\ seen[p].spent = data[r].total
          /\ terms[p].amount \in Amounts /\ terms[p].amount <= Limit - seen[p].spent
        BY <2>1 DEF RowAllows, NotExpired, FitsRemaining, IInv, SeenInv
    <2>3. Priced(data[r].entries) /\ data[r].total = Total(data[r].entries)
        BY <2>2, SpentIsPriced DEF IInv, HistoryInv, ExecutedInv
    <2>4. Total(kept) <= data[r].total /\ Total(kept) \in Nat /\ data[r].total \in Nat
        <3>1. kept \in SUBSET data[r].entries
            OBVIOUS
        <3>2. Priced(kept)
            BY <2>3, <3>1, FS_Subset DEF Priced
        <3> HIDE DEF kept
        <3> QED BY <2>3, <3>1, <3>2, TotalMonotone, TotalFacts
    <2>5. WithinLimit(p) <=> Total(kept) + terms[p].amount <= Limit
        BY DEF WithinLimit, CleanedUp
    <2>6. ValidUntil \in Nat /\ ledger \in Nat /\ terms[p].amount \in Nat \ {0}
        BY <2>2 DEF IInv, TypeOK
    <2> HIDE DEF kept, r
    <2>7. Total(kept) + terms[p].amount <= Limit
        BY <2>2, <2>4, <2>6
    <2> QED BY <2>2, <2>5, <2>6, <2>7 DEF Permitted, ValidTransfer, r
<1> QED
    BY <1>1, InvariantHolds, PTL DEF Spec, AllowedIsPermitted
=============================================================================
