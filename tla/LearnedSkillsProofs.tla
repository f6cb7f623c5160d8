------------------------ MODULE LearnedSkillsProofs ------------------------
(***************************************************************************)
(* Theorems about LearnedSkills for every number of names, tasks and       *)
(* revisions: NewestWins is inductive by itself once the newest of the     *)
(* revisions that a finalization considers is known to exist.              *)
(***************************************************************************)
EXTENDS LearnedSkills, TLAPS, SequenceTheorems, WellFoundedInduction

SkillsInv == SkillsTypeOK /\ NewestWins

-----------------------------------------------------------------------------
(* Revisions as sequences *)

\* A non-empty set of positions has a last one.
LEMMA LastExists ==
  ASSUME NEW n \in Nat, NEW S \in SUBSET (1..n), S # {}
  PROVE  \E m \in S : \A i \in S : i <= m
<1> DEFINE T == {k \in Nat : n - k \in S}
           Less == OpToRel(<, Nat)
<1>1. T \subseteq Nat /\ T # {}
  <2>1. PICK i \in S : TRUE
    OBVIOUS
  <2>2. n - i \in Nat /\ n - (n - i) = i
    BY <2>1
  <2>3. QED
    BY <2>1, <2>2
<1>2. PICK x \in T : \A y \in T : ~(<<y, x>> \in Less)
  <2>1. IsWellFoundedOn(Less, Nat)
    BY NatLessThanWellFounded
  <2> HIDE DEF T, Less
  <2>2. QED
    BY <1>1, <2>1, WFMin
<1>3. \A y \in T : ~(y < x)
  BY <1>1, <1>2 DEF OpToRel
<1>4. n - x \in S
  OBVIOUS
<1>5. ASSUME NEW i \in S PROVE i <= n - x
  <2>1. n - i \in Nat /\ n - (n - i) = i
    OBVIOUS
  <2>2. n - i \in T
    BY <2>1
  <2>3. ~(n - i < x) /\ x \in Nat /\ i \in Nat
    BY <1>3, <2>2
  <2>4. QED
    BY <2>3
<1>6. QED
  BY <1>4, <1>5

\* Rows that replace the rows of a name, one for one, are its revisions.
LEMMA RowsFacts ==
  ASSUME NEW s \in Seq(Row), NEW e, DOMAIN e = DOMAIN s, e = [i \in DOMAIN s |-> e[i]],
         \A i \in DOMAIN s : e[i] \in Row
  PROVE  e \in Seq(Row)
<1>1. Len(s) \in Nat /\ DOMAIN s = 1..Len(s)
  BY LenProperties
<1>2. e \in [1..Len(s) -> Row]
  BY <1>1
<1>3. QED
  BY <1>1, <1>2, SeqDef

\* A row with a new state is a row of the same task with the same switch.
LEMMA RowFacts ==
  ASSUME NEW r \in Row, NEW x \in State
  PROVE  /\ [r EXCEPT !.state = x] \in Row
         /\ [r EXCEPT !.state = x].state = x
         /\ [r EXCEPT !.state = x].task = r.task /\ [r EXCEPT !.state = x].enabled = r.enabled
BY DEF Row

\* What the revisions of one name promise.
NameOK(s, out) ==
  /\ \A i, j \in DOMAIN s : s[i].state = "ready" /\ s[j].state = "ready" => i = j
  /\ \A i \in DOMAIN s : s[i].state = "ready" => out[s[i].task] = "completed"
  /\ \A i \in DOMAIN s : s[i].state = "superseded" =>
       \E j \in DOMAIN s : s[j].state = "ready" /\ j > i
  /\ \A i, j \in DOMAIN s : s[i].enabled = s[j].enabled

\* NewestWins says so of every name.
LEMMA ByName == NewestWins <=> \A n \in Name : NameOK(revisions[n], outcome)
BY DEF NewestWins, NameOK, Ready

\* And so after a step.
LEMMA ByNameNext == NewestWins' <=> \A n \in Name : NameOK(revisions'[n], outcome')
BY DEF NewestWins, NameOK, Ready

-----------------------------------------------------------------------------
(* Finalization *)

\* Rows keep their task and their switch.
SameRows(e, s) ==
  /\ e \in Seq(Row) /\ DOMAIN e = DOMAIN s
  /\ \A i \in DOMAIN s : e[i].task = s[i].task /\ e[i].enabled = s[i].enabled

\* The promotion of a completed task's proposals leaves exactly the newest of
\* them and of the recalled revision recalled.
LEMMA PromotedFacts ==
  ASSUME SkillsInv, NEW n \in Name, NEW t \in Author, outcome[t] = "completed"
  PROVE  /\ SameRows(Promoted(n, t), revisions[n])
         /\ NameOK(Promoted(n, t), outcome)
         /\ \A i \in Ready(n) :
              \E j \in DOMAIN Promoted(n, t) : j >= i /\ Promoted(n, t)[j].state = "ready"
<1> DEFINE s == revisions[n]
           e == Promoted(n, t)
           P == Pending(n, t)
           Q == Pending(n, t) \cup Ready(n)
<1>1. s \in Seq(Row) /\ Len(s) \in Nat /\ DOMAIN s = 1..Len(s) /\ \A i \in DOMAIN s : s[i] \in Row
  BY LenProperties, ElementOfSeq DEF SkillsInv, SkillsTypeOK
<1>2. NameOK(s, outcome)
  BY ByName DEF SkillsInv
<1>3. P \subseteq DOMAIN s /\ Ready(n) \subseteq DOMAIN s /\ Q = P \cup Ready(n)
  BY DEF Pending, Ready
<1>4. /\ DOMAIN e = DOMAIN s /\ e = [i \in DOMAIN s |-> e[i]]
      /\ \A i \in DOMAIN s : e[i] =
           IF i \in P THEN [s[i] EXCEPT !.state = IF \E j \in Q : j > i THEN "superseded" ELSE "ready"]
           ELSE IF i \in Ready(n) /\ \E p \in P : p > i THEN [s[i] EXCEPT !.state = "superseded"]
           ELSE s[i]
  BY DEF Promoted
<1> HIDE DEF s, e, P, Q
<1>5. /\ SameRows(e, s)
      /\ \A i \in DOMAIN s :
           /\ i \in P => e[i].state = IF \E j \in Q : j > i THEN "superseded" ELSE "ready"
           /\ i \notin P => e[i].state = IF i \in Ready(n) /\ \E p \in P : p > i
                                           THEN "superseded" ELSE s[i].state
  <2>1. ASSUME NEW i \in DOMAIN s
        PROVE  /\ e[i] \in Row /\ e[i].task = s[i].task /\ e[i].enabled = s[i].enabled
               /\ i \in P => e[i].state = IF \E j \in Q : j > i THEN "superseded" ELSE "ready"
               /\ i \notin P => e[i].state = IF i \in Ready(n) /\ \E p \in P : p > i
                                               THEN "superseded" ELSE s[i].state
    <3>1. s[i] \in Row
      BY <1>1
    <3>2. ASSUME NEW x \in State, e[i] = [s[i] EXCEPT !.state = x]
          PROVE  /\ e[i] \in Row /\ e[i].state = x
                 /\ e[i].task = s[i].task /\ e[i].enabled = s[i].enabled
      BY <3>1, <3>2, RowFacts
    <3>3. CASE i \in P
      BY <1>4, <3>2, <3>3 DEF State
    <3>4. CASE i \notin P /\ i \in Ready(n) /\ \E p \in P : p > i
      BY <1>4, <3>2, <3>4 DEF State
    <3>5. CASE i \notin P /\ ~(i \in Ready(n) /\ \E p \in P : p > i)
      BY <1>4, <3>1, <3>5
    <3>6. QED
      BY <3>3, <3>4, <3>5
  <2>2. QED
    BY <1>1, <1>4, <2>1, RowsFacts DEF SameRows
<1>6. CASE Q = {}
  <2>1. \A i \in DOMAIN s : i \notin P /\ i \notin Ready(n) /\ e[i].state = s[i].state
    BY <1>3, <1>5, <1>6
  <2>2. QED
    BY <1>2, <1>3, <1>5, <1>6, <2>1 DEF NameOK, SameRows, e, s
<1>7. CASE Q # {}
  <2>1. PICK m \in Q : \A i \in Q : i <= m
    <3>1. Q \subseteq 1..Len(s)
      BY <1>1, <1>3
    <3>2. QED
      BY <1>1, <1>7, <3>1, LastExists
  <2>2. m \in DOMAIN s /\ \A i \in DOMAIN s : i \in Nat
    BY <1>1, <1>3, <2>1
  <2>3. \A i \in DOMAIN s : s[i].state = "ready" <=> i \in Ready(n)
    BY DEF Ready, s
  <2>4. e[m].state = "ready"
    <3>1. ~\E j \in Q : j > m
      BY <1>3, <2>1, <2>2
    <3>2. QED
      BY <1>3, <1>5, <2>1, <2>2, <2>3, <3>1
  <2>5. ASSUME NEW i \in DOMAIN s, e[i].state = "ready" PROVE i = m
    <3>1. CASE i \in P
      <4>1. ~(m > i) /\ i <= m
        BY <1>3, <1>5, <2>1, <2>5, <3>1
      <4>2. QED
        BY <2>2, <4>1
    <3>2. CASE i \notin P
      <4>1. i \in Ready(n) /\ ~\E p \in P : p > i
        BY <1>5, <2>3, <2>5, <3>2
      <4>2. CASE m \in P
        <5>1. ~(m > i) /\ i <= m
          BY <1>3, <2>1, <4>1, <4>2
        <5>2. QED
          BY <2>2, <5>1
      <4>3. CASE m \in Ready(n)
        BY <1>2, <2>2, <2>3, <4>1, <4>3 DEF NameOK
      <4>4. QED
        BY <1>3, <2>1, <4>2, <4>3
    <3>3. QED
      BY <3>1, <3>2
  <2>6. ASSUME NEW i \in DOMAIN s, e[i].state = "superseded" PROVE m > i
    <3>1. ASSUME NEW j \in Q, j > i PROVE m > i
      <4>1. j <= m /\ j \in Nat
        BY <1>3, <2>1, <2>2
      <4>2. QED
        BY <2>2, <3>1, <4>1
    <3>2. \E j \in Q : j > i
      BY <1>2, <1>3, <1>5, <2>3, <2>6 DEF NameOK
    <3>3. QED
      BY <3>1, <3>2
  <2>7. outcome[s[m].task] = "completed"
    <3>1. CASE m \in Ready(n)
      BY <1>2, <2>2, <2>3, <3>1 DEF NameOK
    <3>2. CASE m \in P
      BY <3>2 DEF P, s, Pending
    <3>3. QED
      BY <1>3, <2>1, <3>1, <3>2
  <2>8. NameOK(e, outcome)
    BY <1>2, <1>5, <2>2, <2>4, <2>5, <2>6, <2>7 DEF NameOK, SameRows
  <2>9. \A i \in Ready(n) : m >= i
    BY <1>3, <2>1, <2>2
  <2>10. QED
    BY <1>5, <2>2, <2>4, <2>8, <2>9 DEF SameRows, e, s
<1>8. QED
  BY <1>6, <1>7

\* A failed task's proposals go, and what was recalled stays.
LEMMA DiscardedFacts ==
  ASSUME SkillsInv, NEW n \in Name, NEW t \in Author
  PROVE  /\ SameRows(Discarded(n, t), revisions[n])
         /\ NameOK(Discarded(n, t), outcome)
         /\ \A i \in Ready(n) :
              \E j \in DOMAIN Discarded(n, t) : j >= i /\ Discarded(n, t)[j].state = "ready"
<1> DEFINE s == revisions[n]
           e == Discarded(n, t)
<1>1. s \in Seq(Row) /\ DOMAIN s = 1..Len(s) /\ Len(s) \in Nat /\ \A i \in DOMAIN s : s[i] \in Row
  BY LenProperties, ElementOfSeq DEF SkillsInv, SkillsTypeOK
<1>2. NameOK(s, outcome)
  BY ByName DEF SkillsInv
<1>3. /\ DOMAIN e = DOMAIN s /\ e = [i \in DOMAIN s |-> e[i]]
      /\ \A i \in DOMAIN s : e[i] =
           IF i \in Pending(n, t) THEN [s[i] EXCEPT !.state = "discarded"] ELSE s[i]
  BY DEF Discarded
<1>4. \A i \in DOMAIN s : (i \in Ready(n) <=> s[i].state = "ready")
                       /\ (i \in Pending(n, t) => s[i].state = "pending")
  BY DEF Ready, Pending
<1>5. Ready(n) \subseteq DOMAIN s
  BY DEF Ready
<1> HIDE DEF s, e
<1>6. \A i \in DOMAIN s :
        /\ e[i] \in Row /\ e[i].task = s[i].task /\ e[i].enabled = s[i].enabled
        /\ e[i].state = s[i].state \/ (s[i].state = "pending" /\ e[i].state = "discarded")
  <2>1. ASSUME NEW i \in DOMAIN s, i \in Pending(n, t)
        PROVE  /\ e[i] \in Row /\ e[i].task = s[i].task /\ e[i].enabled = s[i].enabled
               /\ s[i].state = "pending" /\ e[i].state = "discarded"
    <3>1. s[i] \in Row /\ e[i] = [s[i] EXCEPT !.state = "discarded"] /\ "discarded" \in State
      BY <1>1, <1>3, <2>1 DEF State
    <3>2. QED
      BY <1>4, <2>1, <3>1, RowFacts
  <2>2. QED
    BY <1>1, <1>3, <2>1
<1>7. SameRows(e, s)
  BY <1>1, <1>3, <1>6, RowsFacts DEF SameRows
<1>8. NameOK(e, outcome)
  BY <1>2, <1>3, <1>6 DEF NameOK
<1>9. \A i \in Ready(n) : i \in DOMAIN e /\ i >= i /\ e[i].state = "ready"
  BY <1>1, <1>3, <1>4, <1>5, <1>6
<1>10. QED
  BY <1>7, <1>8, <1>9 DEF e, s

-----------------------------------------------------------------------------
(* The steps *)

\* What a step is shown to do: the invariant stays, and what was recalled gives
\* way only to what is recalled instead.
KeptStep ==
  \A n \in Name : Ready(n) # {} /\ revisions'[n] # <<>> =>
    \E i \in Ready(n) : \E j \in DOMAIN revisions'[n] : j >= i /\ revisions'[n][j].state = "ready"

\* A step that leaves the revisions alone, and the outcomes of completed tasks.
LEMMA OutcomeStep ==
  ASSUME SkillsInv, revisions' = revisions, SkillsTypeOK',
         \A t \in Author : outcome[t] = "completed" => outcome'[t] = "completed"
  PROVE  SkillsInv' /\ KeptStep
<1>1. ASSUME NEW n \in Name PROVE NameOK(revisions'[n], outcome')
  <2>1. NameOK(revisions[n], outcome) /\ revisions[n] \in Seq(Row)
    BY ByName DEF SkillsInv, SkillsTypeOK
  <2>2. \A i \in DOMAIN revisions[n] : revisions[n][i].task \in Author
    <3>1. \A i \in DOMAIN revisions[n] : revisions[n][i] \in Row
      BY <2>1, LenProperties, ElementOfSeq
    <3>2. QED
      BY <3>1 DEF Row
  <2>3. QED
    BY <2>1, <2>2 DEF NameOK
<1>2. ASSUME NEW n \in Name, NEW i \in Ready(n)
      PROVE  i \in DOMAIN revisions'[n] /\ i >= i /\ revisions'[n][i].state = "ready"
  <2>1. revisions[n] \in Seq(Row) /\ i \in DOMAIN revisions[n]
    BY DEF SkillsInv, SkillsTypeOK, Ready
  <2>2. i \in Nat
    BY <2>1, LenProperties
  <2>3. QED
    BY <2>1, <2>2 DEF Ready
<1>3. KeptStep
  <2>1. ASSUME NEW n \in Name, Ready(n) # {} PROVE
          \E i \in Ready(n) : \E j \in DOMAIN revisions'[n] : j >= i /\ revisions'[n][j].state = "ready"
    <3>1. PICK i \in Ready(n) : TRUE
      BY <2>1
    <3>2. QED
      BY <1>2, <3>1
  <2>2. QED
    BY <2>1 DEF KeptStep
<1>4. QED
  BY <1>1, <1>3, ByNameNext DEF SkillsInv

\* A step that replaces the revisions of some names and no outcome.
LEMMA RevisionStep ==
  ASSUME SkillsInv, SkillsTypeOK', outcome' = outcome,
         \A n \in Name : NameOK(revisions'[n], outcome),
         \A n \in Name : revisions'[n] # <<>> => \A i \in Ready(n) :
           \E j \in DOMAIN revisions'[n] : j >= i /\ revisions'[n][j].state = "ready"
  PROVE  SkillsInv' /\ KeptStep
<1>1. NewestWins'
  BY ByNameNext
<1>2. ASSUME NEW n \in Name, Ready(n) # {}, revisions'[n] # <<>> PROVE
        \E i \in Ready(n) : \E j \in DOMAIN revisions'[n] : j >= i /\ revisions'[n][j].state = "ready"
  <2>1. PICK i \in Ready(n) : TRUE
    BY <1>2
  <2>2. QED
    BY <1>2, <2>1
<1>3. QED
  BY <1>1, <1>2 DEF SkillsInv, KeptStep

\* A finalization promotes or discards the proposals of its task.
LEMMA FinalizeKeeps ==
  ASSUME SkillsInv, NEW t \in Author, Finalize(t)
  PROVE  SkillsInv' /\ KeptStep
<1>1. /\ \A n \in Name : revisions'[n] = IF outcome[t] = "completed" THEN Promoted(n, t) ELSE Discarded(n, t)
      /\ DOMAIN revisions' = Name /\ revisions' = [n \in Name |-> revisions'[n]]
      /\ outcome' = outcome /\ due' = due \ {t}
  BY DEF Finalize
<1>2. ASSUME NEW n \in Name
      PROVE  /\ SameRows(revisions'[n], revisions[n]) /\ NameOK(revisions'[n], outcome)
             /\ \A i \in Ready(n) : \E j \in DOMAIN revisions'[n] :
                  j >= i /\ revisions'[n][j].state = "ready"
  BY <1>1, PromotedFacts, DiscardedFacts
<1>3. SkillsTypeOK'
  BY <1>1, <1>2 DEF SkillsInv, SkillsTypeOK, SameRows
<1>4. QED
  BY <1>1, <1>2, <1>3, RevisionStep

\* A proposal is a pending row with the switch of the others.
LEMMA ProposeKeeps ==
  ASSUME SkillsInv, NEW t \in Author, NEW n \in Name, NEW x \in Text, ProposeSkill(t, n, x)
  PROVE  SkillsInv' /\ KeptStep
<1> DEFINE s == revisions[n]
           r == [task |-> t, text |-> x, state |-> "pending", enabled |-> InheritedSwitch(n)]
           e == Append(s, r)
<1>1. /\ revisions' = [revisions EXCEPT ![n] = e] /\ outcome' = outcome
      /\ due' = IF outcome[t] = "completed" THEN {t} ELSE due
  BY DEF ProposeSkill
<1>2. /\ s \in Seq(Row) /\ Len(s) \in Nat /\ DOMAIN s = 1..Len(s) /\ \A i \in DOMAIN s : s[i] \in Row
      /\ revisions \in [Name -> Seq(Row)]
  BY LenProperties, ElementOfSeq DEF SkillsInv, SkillsTypeOK
<1>3. /\ InheritedSwitch(n) \in BOOLEAN
      /\ \A i \in DOMAIN s : s[i].enabled = InheritedSwitch(n)
  <2>1. CASE s = <<>>
    BY <1>2, <2>1, EmptySeq DEF InheritedSwitch
  <2>2. CASE s # <<>>
    <3>1. Len(s) \in DOMAIN s
      BY <1>2, <2>2, EmptySeq
    <3>2. s[Len(s)] \in Row /\ InheritedSwitch(n) = s[Len(s)].enabled
      BY <1>2, <2>2, <3>1 DEF InheritedSwitch, Latest
    <3>3. \A i \in DOMAIN s : s[i].enabled = s[Len(s)].enabled
      BY <3>1, ByName DEF SkillsInv, NameOK
    <3>4. s[Len(s)].enabled \in BOOLEAN
      BY <3>2 DEF Row
    <3>5. QED
      BY <3>2, <3>3, <3>4
  <2>3. QED
    BY <2>1, <2>2
<1>4. r \in Row /\ r.state = "pending" /\ r.enabled = InheritedSwitch(n)
  BY <1>3 DEF Row, State
<1> HIDE DEF s, r
<1>5. /\ e \in Seq(Row) /\ DOMAIN e = 1..Len(s) + 1 /\ e[Len(s) + 1] = r
      /\ \A i \in DOMAIN s : e[i] = s[i]
  BY <1>2, <1>4
<1> HIDE DEF e
<1>6. NameOK(e, outcome)
  <2>1. NameOK(s, outcome)
    BY ByName DEF SkillsInv, s
  <2>2. \A i \in DOMAIN e : i \in DOMAIN s \/ e[i] = r
    BY <1>2, <1>5
  <2>3. DOMAIN s \subseteq DOMAIN e
    BY <1>2, <1>5
  <2>4. QED
    BY <1>3, <1>4, <1>5, <2>1, <2>2, <2>3 DEF NameOK
<1>7. revisions'[n] = e /\ \A m \in Name \ {n} : revisions'[m] = revisions[m]
  BY <1>1, <1>2
<1>8. SkillsTypeOK'
  BY <1>1, <1>2, <1>5 DEF SkillsInv, SkillsTypeOK
<1>9. ASSUME NEW m \in Name PROVE
        /\ NameOK(revisions'[m], outcome)
        /\ \A i \in Ready(m) : \E j \in DOMAIN revisions'[m] : j >= i /\ revisions'[m][j].state = "ready"
  <2>1. /\ NameOK(revisions'[m], outcome)
        /\ DOMAIN revisions[m] \subseteq DOMAIN revisions'[m]
        /\ \A i \in DOMAIN revisions[m] : revisions'[m][i] = revisions[m][i]
    <3>1. CASE m = n
      BY <1>2, <1>5, <1>6, <1>7, <3>1 DEF s
    <3>2. CASE m # n
      BY <1>7, <3>2, ByName DEF SkillsInv
    <3>3. QED
      BY <3>1, <3>2
  <2>2. \A i \in DOMAIN revisions[m] : i >= i
    <3>1. revisions[m] \in Seq(Row)
      BY <1>2
    <3>2. QED
      BY <3>1, LenProperties
  <2>3. QED
    BY <2>1, <2>2 DEF Ready
<1>10. QED
  BY <1>1, <1>8, <1>9, RevisionStep

\* The user's switch is thrown for every revision of a name.
LEMMA SwitchKeeps ==
  ASSUME SkillsInv, NEW n \in Name, NEW b \in BOOLEAN, Switch(n, b)
  PROVE  SkillsInv' /\ KeptStep
<1> DEFINE s == revisions[n]
           e == [i \in DOMAIN s |-> [s[i] EXCEPT !.enabled = b]]
<1>1. revisions' = [revisions EXCEPT ![n] = e] /\ outcome' = outcome /\ due' = due
  BY DEF Switch
<1>2. /\ s \in Seq(Row) /\ Len(s) \in Nat /\ DOMAIN s = 1..Len(s) /\ \A i \in DOMAIN s : s[i] \in Row
      /\ revisions \in [Name -> Seq(Row)] /\ NameOK(s, outcome)
  BY LenProperties, ElementOfSeq, ByName DEF SkillsInv, SkillsTypeOK
<1>3. \A i \in DOMAIN s : e[i] = [s[i] EXCEPT !.enabled = b]
  OBVIOUS
<1>4. DOMAIN e = DOMAIN s /\ e = [i \in DOMAIN s |-> e[i]]
  OBVIOUS
<1> HIDE DEF s, e
<1>5. \A i \in DOMAIN s : /\ e[i] \in Row /\ e[i].enabled = b
                          /\ e[i].state = s[i].state /\ e[i].task = s[i].task
  BY <1>2, <1>3 DEF Row
<1>6. e \in Seq(Row) /\ NameOK(e, outcome)
  <2>1. e \in Seq(Row)
    BY <1>2, <1>4, <1>5, RowsFacts
  <2>2. NameOK(e, outcome)
    <3>1. DOMAIN e = DOMAIN s
      BY <1>4
    <3>2. \A i, j \in DOMAIN e : e[i].enabled = e[j].enabled
      BY <1>5, <3>1
    <3>3. \A i \in DOMAIN e : e[i].state = "superseded" =>
            \E j \in DOMAIN e : e[j].state = "ready" /\ j > i
      BY <1>2, <1>5, <3>1 DEF NameOK
    <3>4. /\ \A i, j \in DOMAIN e : e[i].state = "ready" /\ e[j].state = "ready" => i = j
          /\ \A i \in DOMAIN e : e[i].state = "ready" => outcome[e[i].task] = "completed"
      BY <1>2, <1>5, <3>1 DEF NameOK
    <3>5. QED
      BY <3>2, <3>3, <3>4 DEF NameOK
  <2>3. QED
    BY <2>1, <2>2
<1>7. revisions'[n] = e /\ \A m \in Name \ {n} : revisions'[m] = revisions[m]
  BY <1>1, <1>2
<1>8. SkillsTypeOK'
  BY <1>1, <1>2, <1>6 DEF SkillsInv, SkillsTypeOK
<1>9. ASSUME NEW m \in Name PROVE
        /\ NameOK(revisions'[m], outcome)
        /\ \A i \in Ready(m) : \E j \in DOMAIN revisions'[m] : j >= i /\ revisions'[m][j].state = "ready"
  <2>1. /\ NameOK(revisions'[m], outcome)
        /\ DOMAIN revisions[m] \subseteq DOMAIN revisions'[m]
        /\ \A i \in DOMAIN revisions[m] : revisions'[m][i].state = revisions[m][i].state
    <3>1. CASE m = n
      BY <1>4, <1>5, <1>6, <1>7, <3>1 DEF s
    <3>2. CASE m # n
      BY <1>7, <3>2, ByName DEF SkillsInv
    <3>3. QED
      BY <3>1, <3>2
  <2>2. \A i \in DOMAIN revisions[m] : i >= i
    <3>1. revisions[m] \in Seq(Row)
      BY <1>2
    <3>2. QED
      BY <3>1, LenProperties
  <2>3. QED
    BY <2>1, <2>2 DEF Ready
<1>10. QED
  BY <1>1, <1>8, <1>9, RevisionStep

\* A deletion takes the whole history of a name.
LEMMA DeleteKeeps ==
  ASSUME SkillsInv, NEW n \in Name, Delete(n)
  PROVE  SkillsInv' /\ KeptStep
<1>1. /\ revisions' = [revisions EXCEPT ![n] = <<>>] /\ outcome' = outcome /\ due' = due
      /\ revisions \in [Name -> Seq(Row)]
  BY DEF Delete, SkillsInv, SkillsTypeOK
<1>2. <<>> \in Seq(Row) /\ DOMAIN <<>> = {}
  OBVIOUS
<1>3. revisions'[n] = <<>> /\ \A m \in Name \ {n} : revisions'[m] = revisions[m]
  BY <1>1
<1>4. SkillsTypeOK'
  BY <1>1, <1>2 DEF SkillsInv, SkillsTypeOK
<1>5. \A m \in Name : NameOK(revisions'[m], outcome)
  BY <1>2, <1>3, ByName DEF SkillsInv, NameOK
<1>6. ASSUME NEW m \in Name, revisions'[m] # <<>>, NEW i \in Ready(m)
      PROVE  i \in DOMAIN revisions'[m] /\ i >= i /\ revisions'[m][i].state = "ready"
  <2>1. revisions'[m] = revisions[m] /\ revisions[m] \in Seq(Row) /\ i \in DOMAIN revisions[m]
    BY <1>1, <1>3, <1>6 DEF Ready
  <2>2. i \in Nat
    BY <2>1, LenProperties
  <2>3. QED
    BY <2>1, <2>2 DEF Ready
<1>7. QED
  BY <1>1, <1>4, <1>5, <1>6, RevisionStep

\* Every step of the component.
LEMMA SkillsInvStep ==
  ASSUME SkillsInv, [SkillsNext]_skillVars
  PROVE  SkillsInv' /\ (KeptStep \/ UNCHANGED skillVars)
<1>1. ASSUME NEW t \in Author, Begin(t) \/ End(t) \/ FinalizeFails(t) PROVE SkillsInv' /\ KeptStep
  BY <1>1, OutcomeStep DEF Begin, End, FinalizeFails, SkillsInv, SkillsTypeOK
<1>2. ASSUME SkillsRestart PROVE SkillsInv' /\ KeptStep
  BY <1>2, OutcomeStep DEF SkillsRestart, SkillsInv, SkillsTypeOK
<1>3. ASSUME SkillsNext PROVE SkillsInv' /\ KeptStep
  BY <1>1, <1>2, <1>3, FinalizeKeeps, ProposeKeeps, SwitchKeeps, DeleteKeeps DEF SkillsNext
<1>4. ASSUME UNCHANGED skillVars PROVE SkillsInv'
  BY <1>4 DEF skillVars, SkillsInv, SkillsTypeOK, NewestWins, Ready
<1>5. QED
  BY <1>3, <1>4

-----------------------------------------------------------------------------
(* Theorems *)

\* The types and the newest-wins rule hold together in every state.
THEOREM SkillsInvariant == SkillsSpec => []SkillsInv
<1>1. SkillsInit => SkillsInv
  BY DEF SkillsInit, SkillsInv, SkillsTypeOK, NewestWins, Ready
<1>2. SkillsInv /\ [SkillsNext]_skillVars => SkillsInv'
  BY SkillsInvStep
<1>3. QED
  BY <1>1, <1>2, PTL DEF SkillsSpec

\* At most one revision of a name is recalled, from a completed task, and it is
\* newer than everything it replaced, in whatever order tasks end and whichever
\* finalizations a crash or an error loses.
THEOREM Newest == SkillsSpec => []NewestWins
<1>1. SkillsInv => NewestWins
  BY DEF SkillsInv
<1>2. QED
  BY <1>1, SkillsInvariant, PTL

\* A recalled revision gives way only to a newer one that is recalled at once,
\* or to the user's deletion.
THEOREM WorkingKept == SkillsSpec => WorkingProcedureKept
<1>1. SkillsInv /\ [SkillsNext]_skillVars => [KeptStep]_skillVars
  BY SkillsInvStep
<1>2. SkillsSpec => [][KeptStep]_skillVars
  BY <1>1, SkillsInvariant, PTL DEF SkillsSpec
<1>3. QED
  BY <1>2, PTL DEF WorkingProcedureKept, KeptStep
=============================================================================
