------------------------- MODULE PendingOrdersProofs -------------------------
(***************************************************************************)
(* Proofs about PendingOrders for any number of continuations, attempts    *)
(* and faults: its types, that an open replacement is the only one unless  *)
(* its provider was slow, that a cancellation leaves nothing open that it  *)
(* could see, which closed attempts may be opened again, and that the      *)
(* component implements HostedCheckouts.                                   *)
(*                                                                         *)
(* The inductive invariant adds to the properties what they rest on: a     *)
(* continuation holds an attempt without a checkout that is being made, or *)
(* was given up for slowness, or was cancelled with its order; a creation  *)
(* past its five minutes is known as slow; after an open attempt that is   *)
(* not slow there is no other; and what is open while a cancellation waits *)
(* is in its snapshot or was opened beside it.                             *)
(***************************************************************************)
EXTENDS PendingOrders, TLAPS

(* What a continuation finds of its attempt whenever it goes on.           *)
HeldAttempt(a) ==
    /\ ~attempt[a].made
    /\ attempt[a].status \in {"CREATING", "FAILED", "CANCELLED"}
    /\ attempt[a].status = "FAILED" => attempt[a].slow
    /\ attempt[a].status = "CANCELLED" => order.status # "PENDING"

(* So it is for every continuation under way.                              *)
Held == \A c \in Caller : caller[c].at # "idle" => HeldAttempt(caller[c].attempt)

(* A creation past its five minutes is known as slow; only a row that was  *)
(* created has a checkout.                                                 *)
RowsAgree ==
    \A a \in Attempt :
       /\ attempt[a].status = "CREATING" /\ attempt[a].age # "young"
             => attempt[a].slow
       /\ attempt[a].made => attempt[a].status # "absent"

(* Rows are created in the order of their numbers.                         *)
InOrder ==
    \A a, b \in Attempt :
       a < b /\ attempt[a].status = "absent" => attempt[b].status = "absent"

(* An open row that is not slow is the last one: Continue would have had   *)
(* to find it newest and give it up.                                       *)
Sole ==
    \A a, b \in Attempt :
       Open(a) /\ ~attempt[a].slow /\ a < b => attempt[b].status = "absent"

(* What is open and a waiting cancellation has not seen was opened beside  *)
(* it.                                                                     *)
Watched ==
    view.on => /\ original \in OpenStatus => view.original
               /\ \A a \in Attempt : Open(a) => a \in Known \cup beside

(* What Cancel leaves, for good.                                           *)
Withdrawn ==
    withdrawn => /\ order.status # "PENDING" /\ ~view.on
                 /\ original \notin OpenStatus
                 /\ \A a \in Attempt : Open(a) => a \in beside

(* The inductive invariant.                                                *)
IInv ==
    /\ TypeOK
    /\ Held
    /\ RowsAgree
    /\ InOrder
    /\ Sole
    /\ Watched
    /\ Withdrawn

-----------------------------------------------------------------------------
(* A continuation that is not idle holds an attempt.                       *)
LEMMA Holding ==
    ASSUME TypeOK, NEW c \in Caller, caller[c].at # "idle"
    PROVE  caller[c].attempt \in Attempt /\ caller[c] # Idle
BY DEF TypeOK, Frame, Idle, Attempt

(* The same, of an idle one.                                               *)
LEMMA Resting ==
    ASSUME TypeOK, NEW c \in Caller, caller[c].at = "idle"
    PROVE  caller[c] = Idle
BY DEF TypeOK, Frame, Idle, Attempt

(* What an update of a status does to the rows.                            *)
LEMMA StatusShape ==
    ASSUME attempt \in [Attempt -> Row], NEW a \in Attempt,
           NEW s \in AttemptStatus, SetStatus(a, s)
    PROVE  /\ attempt' \in [Attempt -> Row]
           /\ attempt'[a].status = s
           /\ attempt'[a].made = attempt[a].made
           /\ attempt'[a].age = attempt[a].age
           /\ attempt'[a].slow = attempt[a].slow
           /\ \A b \in Attempt : b # a => attempt'[b] = attempt[b]
<1>1. attempt' = [attempt EXCEPT ![a] = [attempt[a] EXCEPT !.status = s]]
  BY DEF SetStatus
<1>2. attempt[a] \in Row
  OBVIOUS
<1>3. [attempt[a] EXCEPT !.status = s] \in Row
  BY <1>2 DEF Row
<1>4. attempt'[a] = [attempt[a] EXCEPT !.status = s]
  BY <1>1
<1>5. attempt' \in [Attempt -> Row]
  BY <1>1, <1>3
<1> QED
  BY <1>1, <1>2, <1>4, <1>5 DEF Row

(* The same for the update that also records the checkout.                 *)
LEMMA MadeShape ==
    ASSUME attempt \in [Attempt -> Row], NEW a \in Attempt,
           NEW s \in AttemptStatus, SetMade(a, s)
    PROVE  /\ attempt' \in [Attempt -> Row]
           /\ attempt'[a].status = s
           /\ attempt'[a].age = attempt[a].age
           /\ attempt'[a].slow = attempt[a].slow
           /\ \A b \in Attempt : b # a => attempt'[b] = attempt[b]
<1>1. attempt' = [attempt EXCEPT ![a] = [attempt[a] EXCEPT !.status = s, !.made = TRUE]]
  BY DEF SetMade
<1>2. attempt[a] \in Row
  OBVIOUS
<1>3. [attempt[a] EXCEPT !.status = s, !.made = TRUE] \in Row
  BY <1>2 DEF Row
<1>4. attempt'[a] = [attempt[a] EXCEPT !.status = s, !.made = TRUE]
  BY <1>1
<1>5. attempt' \in [Attempt -> Row]
  BY <1>1, <1>3
<1> QED
  BY <1>1, <1>2, <1>4, <1>5 DEF Row

(* A caller that comes to rest leaves the others as they are.              *)
LEMMA Release ==
    ASSUME TypeOK, Held, NEW c \in Caller, caller[c].at # "idle",
           caller' = [caller EXCEPT ![c] = Idle]
    PROVE  /\ caller' \in [Caller -> Frame]
           /\ \A d \in Caller : caller'[d].at = "idle" <=> caller'[d].attempt = 0
           /\ \A d, e \in Caller :
                d # e /\ caller'[d] # Idle => caller'[d].attempt # caller'[e].attempt
           /\ \A d \in Caller : caller'[d].at # "idle"
                => /\ d # c /\ caller'[d] = caller[d]
                   /\ caller[d].attempt # caller[c].attempt
<1>1. Idle \in Frame /\ Idle.at = "idle" /\ Idle.attempt = 0
  BY DEF Idle, Frame
<1>2. caller' \in [Caller -> Frame]
  BY <1>1 DEF TypeOK
<1>3. \A d \in Caller : caller'[d] = IF d = c THEN Idle ELSE caller[d]
  BY DEF TypeOK
<1>4. \A d \in Caller : caller'[d].at = "idle" <=> caller'[d].attempt = 0
  BY <1>1, <1>3 DEF TypeOK
<1>5. ASSUME NEW d \in Caller, NEW e \in Caller, d # e, caller'[d] # Idle
      PROVE  caller'[d].attempt # caller'[e].attempt
  <2>1. d # c /\ caller'[d] = caller[d] /\ caller[d] # Idle
    BY <1>3, <1>5
  <2>2. caller[d].at # "idle"
    BY <2>1, Resting
  <2>3. CASE e = c
    BY <1>1, <1>3, <2>1, <2>2, <2>3 DEF TypeOK
  <2>4. CASE e # c
    BY <1>3, <1>5, <2>1, <2>4 DEF TypeOK
  <2> QED
    BY <2>3, <2>4
<1>6. ASSUME NEW d \in Caller, caller'[d].at # "idle"
      PROVE  d # c /\ caller'[d] = caller[d] /\ caller[d].attempt # caller[c].attempt
  <2>1. d # c /\ caller'[d] = caller[d]
    BY <1>1, <1>3, <1>6
  <2>2. caller[d] # Idle
    BY <1>6, <2>1, Holding
  <2> QED
    BY <2>1, <2>2 DEF TypeOK
<1> QED
  BY <1>2, <1>4, <1>5, <1>6

-----------------------------------------------------------------------------
(* A step that touches neither the rows nor who holds them.                *)
LEMMA KeepRows ==
    ASSUME IInv, UNCHANGED attempt,
           \A c \in Caller : caller'[c].attempt = caller[c].attempt
                /\ (caller'[c].at # "idle" => caller[c].at # "idle"),
           order.status # "PENDING" => order'.status # "PENDING"
    PROVE  Held' /\ RowsAgree' /\ InOrder' /\ Sole'
<1>1. Held'
  BY DEF IInv, Held, HeldAttempt
<1>2. RowsAgree' /\ InOrder' /\ Sole'
  BY DEF IInv, RowsAgree, InOrder, Sole, Open
<1> QED
  BY <1>1, <1>2

(* A step beside the cancellation: what it opens it notes, and it opens    *)
(* only while the order is pending.                                        *)
LEMMA KeepCancellation ==
    ASSUME IInv, UNCHANGED <<view, withdrawn>>,
           original' = original \/ original' \notin OpenStatus,
           order.status # "PENDING" => order'.status # "PENDING",
           beside \subseteq beside',
           \A a \in Attempt : Open(a)' =>
              Open(a) \/ (order.status = "PENDING" /\ (view.on => a \in beside'))
    PROVE  Watched' /\ Withdrawn'
<1>1. Known' = Known
  BY DEF Known
<1>2. Watched'
  BY <1>1 DEF IInv, Watched
<1>3. Withdrawn'
  BY DEF IInv, Withdrawn
<1> QED
  BY <1>2, <1>3

(* Noting an opened attempt.                                               *)
LEMMA OpensNotes ==
    ASSUME TypeOK, NEW a \in Attempt, Opens(a)
    PROVE  /\ beside' \subseteq Attempt /\ beside \subseteq beside'
           /\ view.on => a \in beside'
BY DEF TypeOK, Opens

(* Without a cancellation nothing is known.                                *)
LEMMA NoViewShape == NoView \in View /\ ~NoView.on /\ \A a \in Attempt : NoView.rows[a] = "none"
BY DEF NoView, View

(* Initially there is no row.                                              *)
LEMMA InitIInv == Init => IInv
<1> SUFFICES ASSUME Init PROVE IInv
  OBVIOUS
<1> USE DEF Init
<1>1. NoRow \in Row /\ NoRow.status = "absent" /\ ~NoRow.made
  BY DEF NoRow, Row, AttemptStatus
<1>2. TypeOK
  <2>1. order \in [status : {"PENDING"} \cup Closed, aged : BOOLEAN]
    OBVIOUS
  <2>2. attempt \in [Attempt -> Row]
    BY <1>1
  <2>3. caller \in [Caller -> Frame] /\ \A c \in Caller : caller[c] = Idle
    BY DEF Frame, Idle
  <2>4. \A c \in Caller : caller[c].at = "idle" <=> caller[c].attempt = 0
    BY DEF Idle
  <2>5. faults \in 0..MaxFault
    BY PendingOrdersAssumption
  <2>6. view \in View /\ ~view.on /\ Known = {}
    BY NoViewShape DEF Known
  <2> QED
    BY <2>1, <2>2, <2>3, <2>4, <2>5, <2>6 DEF TypeOK
<1>3. Held
  BY DEF Held, Idle
<1>4. RowsAgree /\ InOrder /\ Sole
  BY <1>1 DEF RowsAgree, InOrder, Sole, Open, OpenStatus
<1>5. Watched /\ Withdrawn
  BY NoViewShape DEF Watched, Withdrawn
<1> QED
  BY <1>2, <1>3, <1>4, <1>5 DEF IInv

(* Continue: an attempt that is open and not slow is the newest, so its    *)
(* creation is not given up and the guard fails.                           *)
LEMMA ContinueIInv ==
    ASSUME IInv, NEW c \in Caller, Continue(c)
    PROVE  IInv'
<1> USE DEF IInv
<1> PICK n \in Attempt :
      /\ NextRow(n)
      /\ attempt' = [b \in Attempt |->
           IF b = n THEN [NoRow EXCEPT !.status = "CREATING"]
           ELSE IF GivenUp(b) THEN [attempt[b] EXCEPT !.status = "FAILED"]
           ELSE attempt[b]]
      /\ caller' = [caller EXCEPT ![c] = [at |-> "create", attempt |-> n]]
      /\ Opens(n)
  BY DEF Continue
<1>1. /\ caller[c] = Idle /\ order.status = "PENDING"
      /\ \A a \in Attempt : Newest(a) => GivenUp(a)
      /\ UNCHANGED <<order, original, view, withdrawn, swept, lost, faults>>
  BY DEF Continue, History
<1>2. [NoRow EXCEPT !.status = "CREATING"] \in Row
  BY DEF NoRow, Row, AttemptStatus, OpenStatus
<1>3. \A b \in Attempt : [attempt[b] EXCEPT !.status = "FAILED"] \in Row
  BY DEF TypeOK, Row, AttemptStatus
<1>4. attempt' \in [Attempt -> Row]
  BY <1>2, <1>3 DEF TypeOK
<1>5. /\ attempt'[n].status = "CREATING" /\ ~attempt'[n].made
      /\ attempt'[n].age = "young" /\ ~attempt'[n].slow
  BY DEF NoRow
<1>6. ASSUME NEW b \in Attempt, b # n, GivenUp(b)
      PROVE  /\ attempt[b].status = "CREATING" /\ attempt[b].slow
             /\ attempt'[b].status = "FAILED"
             /\ attempt'[b].made = attempt[b].made
             /\ attempt'[b].slow = attempt[b].slow
  <2>1. attempt'[b] = [attempt[b] EXCEPT !.status = "FAILED"]
    BY <1>6
  <2> QED
    BY <1>6, <2>1 DEF GivenUp, RowsAgree, TypeOK, Row
<1>7. \A b \in Attempt : b # n /\ ~GivenUp(b) => attempt'[b] = attempt[b]
  OBVIOUS
<1>8. attempt[n].status = "absent" /\ ~Open(n)
  BY DEF NextRow, Open, OpenStatus
<1>9. \A b \in Attempt : n < b => attempt[b].status = "absent" /\ ~GivenUp(b)
  BY <1>8 DEF InOrder, GivenUp
<1>10. \A a \in Attempt : Open(a) => attempt[a].slow
  <2> SUFFICES ASSUME NEW a \in Attempt, Open(a), ~attempt[a].slow
               PROVE  FALSE
    BY DEF TypeOK, Row
  <2>1. \A b \in Attempt : a < b => ~Open(b)
    BY DEF Sole, Open, OpenStatus
  <2>2. Newest(a)
    BY <2>1 DEF Newest, Attempt
  <2> QED
    BY <1>1, <2>2 DEF GivenUp, RowsAgree
<1>11. \A d \in Caller : caller'[d] = IF d = c THEN [at |-> "create", attempt |-> n]
                                      ELSE caller[d]
  BY DEF TypeOK
<1>12. \A d \in Caller : d # c => caller[d].attempt # n
  BY <1>8, Holding, Resting DEF Held, HeldAttempt, Idle, Attempt
<1>13. TypeOK'
  <2>1. [at |-> "create", attempt |-> n] \in Frame
    BY DEF Frame
  <2>2. caller' \in [Caller -> Frame]
    BY <2>1 DEF TypeOK
  <2>3. \A d \in Caller : caller'[d].at = "idle" <=> caller'[d].attempt = 0
    BY <1>11 DEF TypeOK, Attempt
  <2>4. \A d, e \in Caller : d # e /\ caller'[d] # Idle
            => caller'[d].attempt # caller'[e].attempt
    <3> SUFFICES ASSUME NEW d \in Caller, NEW e \in Caller, d # e, caller'[d] # Idle
                 PROVE  caller'[d].attempt # caller'[e].attempt
      OBVIOUS
    <3>1. CASE d = c
      BY <1>11, <1>12, <3>1
    <3>2. CASE d # c /\ e = c
      BY <1>11, <1>12, <3>2
    <3>3. CASE d # c /\ e # c
      BY <1>11, <3>3 DEF TypeOK
    <3> QED
      BY <3>1, <3>2, <3>3
  <2>5. beside' \subseteq Attempt /\ view' \in View /\ (~view'.on => Known' = {})
    BY <1>1, OpensNotes DEF TypeOK, Known
  <2> QED
    BY <1>1, <1>4, <2>2, <2>3, <2>4, <2>5 DEF TypeOK
<1>14. Held'
  <2>1. HeldAttempt(n)'
    BY <1>5 DEF HeldAttempt
  <2>2. ASSUME NEW d \in Caller, d # c, caller[d].at # "idle"
        PROVE  HeldAttempt(caller[d].attempt)'
    <3>1. HeldAttempt(caller[d].attempt)
      BY <2>2 DEF Held
    <3>2. caller[d].attempt \in Attempt /\ caller[d].attempt # n
      BY <1>12, <2>2, Holding
    <3>3. caller'[d] = caller[d]
      BY <1>11, <2>2
    <3> QED
      BY <1>1, <1>6, <1>7, <3>1, <3>2, <3>3 DEF HeldAttempt
  <2>3. ASSUME NEW d \in Caller, caller'[d].at # "idle"
        PROVE  HeldAttempt(caller[d].attempt)' \/ d = c
    BY <1>11, <2>2, <2>3
  <2>4. HeldAttempt(caller[c].attempt)'
    <3>1. caller'[c].attempt = n
      BY <1>11
    <3> QED
      BY <2>1, <3>1, Zenon DEF HeldAttempt
  <2> QED
    BY <2>3, <2>4 DEF Held
<1>15. RowsAgree'
  BY <1>5, <1>6, <1>7 DEF RowsAgree
<1>16. InOrder'
  <2> SUFFICES ASSUME NEW a \in Attempt, NEW b \in Attempt, a < b,
                      attempt'[a].status = "absent"
               PROVE  attempt'[b].status = "absent"
    BY DEF InOrder
  <2>1. a # n /\ ~GivenUp(a) /\ attempt[a].status = "absent"
    BY <1>5, <1>6, <1>7
  <2>2. attempt[b].status = "absent" /\ b # n
    BY <2>1 DEF InOrder, NextRow
  <2> QED
    BY <1>7, <2>2 DEF GivenUp
<1>17. Sole'
  <2> SUFFICES ASSUME NEW a \in Attempt, NEW b \in Attempt, a < b,
                      Open(a)', ~attempt'[a].slow
               PROVE  attempt'[b].status = "absent"
    BY DEF Sole
  <2>1. a = n
    BY <1>6, <1>7, <1>10 DEF Open, OpenStatus
  <2>2. b # n /\ ~GivenUp(b) /\ attempt[b].status = "absent"
    BY <1>9, <2>1 DEF Attempt
  <2> QED
    BY <1>7, <2>2
<1>18. Watched' /\ Withdrawn'
  <2>1. \A b \in Attempt : Open(b)' => Open(b) \/ b = n
    BY <1>6, <1>7 DEF Open, OpenStatus
  <2> QED
    BY <1>1, <2>1, OpensNotes, KeepCancellation
<1> QED
  BY <1>13, <1>14, <1>15, <1>16, <1>17, <1>18

(* Closing rows disturbs nothing that is said of the open ones.            *)
LEMMA Closing ==
    ASSUME IInv,
           \A b \in Attempt :
              \/ attempt'[b] = attempt[b]
              \/ /\ attempt[b].status # "absent"
                 /\ attempt'[b].status \in {"FAILED", "CANCELLED", "EXPIRED"}
                 /\ attempt'[b].slow = attempt[b].slow
    PROVE  /\ RowsAgree' /\ InOrder' /\ Sole'
           /\ \A b \in Attempt : Open(b)' => Open(b)
<1> USE DEF IInv
<1>1. \A b \in Attempt : Open(b)' => Open(b) /\ attempt'[b] = attempt[b]
  BY DEF Open, OpenStatus
<1>2. \A b \in Attempt :
         attempt'[b].status = "absent" <=> attempt[b].status = "absent"
  OBVIOUS
<1>3. RowsAgree'
  BY DEF RowsAgree
<1>4. InOrder'
  BY <1>2 DEF InOrder
<1>5. Sole'
  BY <1>1, <1>2 DEF Sole
<1> QED
  BY <1>1, <1>3, <1>4, <1>5

(* The provider's answer, and a second transaction that fails, move the    *)
(* continuation and nothing else.                                          *)
LEMMA GotoIInv ==
    ASSUME IInv, NEW c \in Caller, NEW p \in {"finalize", "fail"},
           caller[c].at # "idle", Goto(c, p),
           UNCHANGED <<order, original, attempt, Cancellation, withdrawn, swept, lost>>,
           faults' \in 0..MaxFault
    PROVE  IInv'
<1> USE DEF IInv
<1>1. caller' = [caller EXCEPT ![c] = [caller[c] EXCEPT !.at = p]]
  BY DEF Goto
<1>2. [caller[c] EXCEPT !.at = p] \in Frame
  BY DEF TypeOK, Frame
<1>3. caller' \in [Caller -> Frame]
  BY <1>1, <1>2 DEF TypeOK
<1>4. \A d \in Caller : /\ caller'[d].attempt = caller[d].attempt
                        /\ caller'[d].at # "idle" <=> caller[d].at # "idle"
  BY <1>1 DEF TypeOK, Frame
<1>5. \A d \in Caller : caller'[d] # Idle => caller[d] # Idle
  BY <1>4, Holding, Resting, <1>3 DEF Frame, Idle
<1>6. TypeOK'
  BY <1>3, <1>4, <1>5 DEF TypeOK, Cancellation, Known
<1>7. Held' /\ RowsAgree' /\ InOrder' /\ Sole'
  BY <1>4, KeepRows
<1>8. Watched' /\ Withdrawn'
  BY KeepCancellation DEF Cancellation, Open
<1> QED
  BY <1>6, <1>7, <1>8

(* Finalize opens its attempt only while the order is pending; then the    *)
(* attempt is open already or was given up for slowness.                   *)
LEMMA FinalizeIInv ==
    ASSUME IInv, NEW c \in Caller, Finalize(c)
    PROVE  IInv'
<1> USE DEF IInv
<1> DEFINE a == caller[c].attempt
           s == IF order.status = "PENDING" THEN "PENDING" ELSE "CANCELLED"
<1>1. /\ caller[c].at # "idle" /\ SetMade(a, s)
      /\ caller' = [caller EXCEPT ![c] = Idle]
      /\ UNCHANGED <<order, original, view, withdrawn, swept, lost, faults>>
  BY DEF Finalize, History
<1>2. a \in Attempt /\ HeldAttempt(a)
  BY <1>1, Holding DEF Held
<1>3. s \in AttemptStatus /\ s \in {"PENDING", "CANCELLED"}
  BY DEF AttemptStatus, OpenStatus
<1>4. attempt \in [Attempt -> Row]
  BY DEF TypeOK
<1>5. /\ attempt' \in [Attempt -> Row]
      /\ attempt'[a].status = s
      /\ attempt'[a].slow = attempt[a].slow
      /\ \A b \in Attempt : b # a => attempt'[b] = attempt[b]
  <2> HIDE DEF a, s
  <2> QED
    BY <1>1, <1>2, <1>3, <1>4, MadeShape
<1>6. /\ caller' \in [Caller -> Frame]
      /\ \A d \in Caller : caller'[d].at = "idle" <=> caller'[d].attempt = 0
      /\ \A d, e \in Caller :
           d # e /\ caller'[d] # Idle => caller'[d].attempt # caller'[e].attempt
      /\ \A d \in Caller : caller'[d].at # "idle"
           => d # c /\ caller'[d] = caller[d] /\ caller[d].attempt # a
  BY <1>1, Release
<1>11. /\ beside' \subseteq Attempt /\ beside \subseteq beside'
       /\ order.status = "PENDING" /\ ~Open(a) /\ view.on => a \in beside'
  <2> HIDE DEF a
  <2>1. IF order.status = "PENDING" /\ ~Open(a) THEN Opens(a) ELSE UNCHANGED beside
    BY DEF Finalize, a
  <2> QED
    BY <1>2, <2>1, OpensNotes DEF TypeOK
<1>7. TypeOK'
  BY <1>1, <1>5, <1>6, <1>11 DEF TypeOK, Known
<1>8. Held'
  <2> SUFFICES ASSUME NEW d \in Caller, caller'[d].at # "idle"
               PROVE  HeldAttempt(caller[d].attempt)'
    BY DEF Held
  <2>1. /\ caller'[d] = caller[d] /\ caller[d].attempt # a
        /\ caller[d].attempt \in Attempt /\ HeldAttempt(caller[d].attempt)
    BY <1>6, Holding DEF Held
  <2> HIDE DEF a
  <2> QED
    BY <1>1, <1>5, <2>1 DEF HeldAttempt
<1>9. CASE order.status = "PENDING"
  <2>1. Open(a) \/ attempt[a].slow
    BY <1>2, <1>9 DEF HeldAttempt, Open, OpenStatus
  <2>2. attempt[a].status # "absent" /\ attempt'[a].status = "PENDING"
    BY <1>2, <1>5, <1>9 DEF HeldAttempt
  <2> HIDE DEF a, s
  <2>3. RowsAgree'
    BY <1>5, <2>2 DEF RowsAgree
  <2>4. InOrder'
    BY <1>2, <1>5, <2>2 DEF InOrder
  <2>5. Sole'
    <3> SUFFICES ASSUME NEW x \in Attempt, NEW y \in Attempt, x < y,
                        Open(x)', ~attempt'[x].slow
                 PROVE  attempt'[y].status = "absent"
      BY DEF Sole
    <3>1. Open(x) /\ ~attempt[x].slow
      BY <1>5, <2>1 DEF Open
    <3>2. attempt[y].status = "absent"
      BY <3>1 DEF Sole
    <3> QED
      BY <1>5, <2>2, <3>2
  <2>6. Watched' /\ Withdrawn'
    <3>1. \A b \in Attempt : b # a => (Open(b)' <=> Open(b))
      BY <1>5 DEF Open
    <3> QED
      BY <1>1, <1>9, <1>11, <3>1, KeepCancellation
  <2> QED
    BY <1>7, <1>8, <2>3, <2>4, <2>5, <2>6
<1>10. CASE order.status # "PENDING"
  <2>1. /\ attempt[a].status # "absent" /\ attempt'[a].status = "CANCELLED"
        /\ attempt'[a].slow = attempt[a].slow
    BY <1>2, <1>5, <1>10 DEF HeldAttempt
  <2> HIDE DEF a, s
  <2>2. RowsAgree' /\ InOrder' /\ Sole' /\ \A b \in Attempt : Open(b)' => Open(b)
    BY <1>5, <2>1, Closing
  <2>3. Watched' /\ Withdrawn'
    BY <1>1, <1>10, <1>11, <2>2, KeepCancellation
  <2> QED
    BY <1>7, <1>8, <2>2, <2>3
<1> QED
  BY <1>9, <1>10

(* Fail and the loss of a continuation: it comes to rest, its attempt is   *)
(* closed or left as it is.                                                *)
LEMMA ReleaseIInv ==
    ASSUME IInv, NEW c \in Caller, caller[c].at # "idle",
           caller' = [caller EXCEPT ![c] = Idle],
           \/ UNCHANGED attempt
           \/ /\ attempt[caller[c].attempt].status = "CREATING"
              /\ SetStatus(caller[c].attempt, "FAILED"),
           UNCHANGED <<order, original, Cancellation, withdrawn, swept>>,
           lost' \subseteq Attempt, faults' \in 0..MaxFault
    PROVE  IInv'
<1> USE DEF IInv
<1> DEFINE a == caller[c].attempt
<1>1. a \in Attempt /\ attempt[a] \in Row
  BY Holding DEF TypeOK
<1>2. attempt \in [Attempt -> Row]
  BY DEF TypeOK
<1>3. /\ attempt' \in [Attempt -> Row]
      /\ \A b \in Attempt : b # a => attempt'[b] = attempt[b]
      /\ \/ attempt'[a] = attempt[a]
         \/ /\ attempt[a].status # "absent"
            /\ attempt'[a].status \in {"FAILED", "CANCELLED", "EXPIRED"}
            /\ attempt'[a].slow = attempt[a].slow
  <2>1. "FAILED" \in AttemptStatus
    BY DEF AttemptStatus
  <2>2. CASE UNCHANGED attempt
    BY <1>2, <2>2
  <2>3. CASE attempt[a].status = "CREATING" /\ SetStatus(a, "FAILED")
    <3> HIDE DEF a
    <3> QED
      BY <1>1, <1>2, <2>1, <2>3, StatusShape
  <2> QED
    BY <2>2, <2>3
<1>4. /\ caller' \in [Caller -> Frame]
      /\ \A d \in Caller : caller'[d].at = "idle" <=> caller'[d].attempt = 0
      /\ \A d, e \in Caller :
           d # e /\ caller'[d] # Idle => caller'[d].attempt # caller'[e].attempt
      /\ \A d \in Caller : caller'[d].at # "idle"
           => d # c /\ caller'[d] = caller[d] /\ caller[d].attempt # a
  BY Release
<1>5. TypeOK'
  BY <1>3, <1>4 DEF TypeOK, Cancellation, Known
<1>6. Held'
  <2> SUFFICES ASSUME NEW d \in Caller, caller'[d].at # "idle"
               PROVE  HeldAttempt(caller[d].attempt)'
    BY DEF Held
  <2>1. /\ caller'[d] = caller[d] /\ caller[d].attempt # a
        /\ caller[d].attempt \in Attempt /\ HeldAttempt(caller[d].attempt)
    BY <1>4, Holding DEF Held
  <2> HIDE DEF a
  <2> QED
    BY <1>3, <2>1 DEF HeldAttempt
<1>7. RowsAgree' /\ InOrder' /\ Sole' /\ \A b \in Attempt : Open(b)' => Open(b)
  <2> HIDE DEF a
  <2> QED
    BY <1>3, Closing
<1>8. Watched' /\ Withdrawn'
  BY <1>7, KeepCancellation DEF Cancellation
<1> QED
  BY <1>5, <1>6, <1>7, <1>8

(* What a cancellation begins with: what is open is what it knows.         *)
LEMMA CancelBeginsShape ==
    ASSUME TypeOK, CancelBegins
    PROVE  /\ view' \in View /\ view'.on /\ view'.original = (original \in OpenStatus)
           /\ Known' = {a \in Attempt : Open(a)}
<1>1. view' = [on |-> TRUE, original |-> original \in OpenStatus,
               rows |-> [a \in Attempt |->
                           IF Open(a) THEN attempt[a].status ELSE "none"]]
  BY DEF CancelBegins
<1>2. [a \in Attempt |-> IF Open(a) THEN attempt[a].status ELSE "none"]
        \in [Attempt -> OpenStatus \cup {"none"}]
  BY DEF Open
<1>3. view' \in View
  BY <1>1, <1>2 DEF View
<1>4. \A a \in Attempt : view'.rows[a] # "none" <=> Open(a)
  BY <1>1 DEF Open, OpenStatus
<1> QED
  BY <1>1, <1>3, <1>4 DEF Known

LEMMA CancelBeginsIInv ==
    ASSUME IInv, CancelBegins
    PROVE  IInv'
<1> USE DEF IInv
<1>1. /\ UNCHANGED <<order, original, attempt, caller, withdrawn, swept, lost, faults>>
      /\ order.status = "PENDING" /\ beside' = {}
  BY DEF CancelBegins, History
<1>2. /\ view' \in View /\ view'.on /\ view'.original = (original \in OpenStatus)
      /\ Known' = {a \in Attempt : Open(a)}
  BY CancelBeginsShape
<1>3. TypeOK'
  BY <1>1, <1>2 DEF TypeOK
<1>4. Held' /\ RowsAgree' /\ InOrder' /\ Sole'
  BY <1>1, KeepRows
<1>5. Watched'
  BY <1>1, <1>2 DEF Watched, Open
<1>6. Withdrawn'
  BY <1>1 DEF Withdrawn
<1> QED
  BY <1>3, <1>4, <1>5, <1>6

LEMMA CancelFailsIInv ==
    ASSUME IInv, CancelFails
    PROVE  IInv'
<1> USE DEF IInv
<1>1. /\ UNCHANGED <<order, original, attempt, caller, withdrawn, swept, lost, faults>>
      /\ view.on /\ view' = NoView /\ beside' = {}
  BY DEF CancelFails, History
<1>2. view' \in View /\ ~view'.on /\ Known' = {}
  BY <1>1, NoViewShape DEF Known
<1>3. TypeOK'
  BY <1>1, <1>2 DEF TypeOK
<1>4. Held' /\ RowsAgree' /\ InOrder' /\ Sole'
  BY <1>1, KeepRows
<1>5. Watched' /\ Withdrawn'
  BY <1>1, <1>2 DEF Watched, Withdrawn
<1> QED
  BY <1>3, <1>4, <1>5

(* What a cancellation does: of what is open it closes what it knows.      *)
LEMMA CancelShape ==
    ASSUME TypeOK, Cancel
    PROVE  /\ attempt' \in [Attempt -> Row]
           /\ \A b \in Attempt :
                 /\ b \in Known => /\ Open(b)
                                    /\ attempt'[b].status = "CANCELLED"
                                    /\ attempt'[b].made = attempt[b].made
                                    /\ attempt'[b].slow = attempt[b].slow
                 /\ b \notin Known => attempt'[b] = attempt[b]
           /\ order.status = "PENDING" /\ order'.status = "CANCELLED"
           /\ order' \in [status : {"PENDING"} \cup Closed, aged : BOOLEAN]
           /\ view.on /\ view' = NoView /\ Known' = {} /\ withdrawn'
           /\ original' = IF view.original THEN "CANCELLED" ELSE original
           /\ UNCHANGED <<caller, beside, swept, lost, faults>>
<1>1. /\ view.on /\ Intact /\ view' = NoView /\ withdrawn'
      /\ order' = [order EXCEPT !.status = "CANCELLED"]
      /\ original' = IF view.original THEN "CANCELLED" ELSE original
      /\ attempt' = [a \in Attempt |->
            IF a \in Known THEN [attempt[a] EXCEPT !.status = "CANCELLED"]
            ELSE attempt[a]]
      /\ UNCHANGED <<caller, beside, swept, lost, faults>>
  BY DEF Cancel, Withdraw
<1>2. order'.status = "CANCELLED"
      /\ order' \in [status : {"PENDING"} \cup Closed, aged : BOOLEAN]
  BY <1>1 DEF TypeOK, Closed
<1>3. \A b \in Attempt : [attempt[b] EXCEPT !.status = "CANCELLED"] \in Row
  BY DEF TypeOK, Row, AttemptStatus
<1>4. attempt' \in [Attempt -> Row]
  BY <1>1, <1>3 DEF TypeOK
<1>5. ASSUME NEW b \in Known
      PROVE  /\ Open(b)
             /\ attempt'[b].status = "CANCELLED"
             /\ attempt'[b].made = attempt[b].made
             /\ attempt'[b].slow = attempt[b].slow
  <2>1. b \in Attempt /\ attempt[b].status = view.rows[b] /\ view.rows[b] # "none"
    BY <1>1 DEF Known, Intact
  <2>2. Open(b)
    BY <2>1 DEF TypeOK, View, Open
  <2>3. attempt'[b] = [attempt[b] EXCEPT !.status = "CANCELLED"] /\ attempt[b] \in Row
    BY <1>1, <2>1 DEF TypeOK
  <2> QED
    BY <2>2, <2>3 DEF Row
<1>6. Known' = {}
  BY <1>1, NoViewShape DEF Known
<1>7. order.status = "PENDING"
  BY <1>1 DEF Intact
<1> QED
  BY <1>1, <1>2, <1>4, <1>5, <1>6, <1>7

LEMMA CancelIInv ==
    ASSUME IInv, Cancel
    PROVE  IInv'
<1> USE DEF IInv
<1>1. /\ attempt' \in [Attempt -> Row]
      /\ \A b \in Attempt :
            /\ b \in Known => /\ Open(b)
                               /\ attempt'[b].status = "CANCELLED"
                               /\ attempt'[b].made = attempt[b].made
                               /\ attempt'[b].slow = attempt[b].slow
            /\ b \notin Known => attempt'[b] = attempt[b]
      /\ order.status = "PENDING" /\ order'.status = "CANCELLED"
      /\ order' \in [status : {"PENDING"} \cup Closed, aged : BOOLEAN]
      /\ view.on /\ view' = NoView /\ Known' = {} /\ withdrawn'
      /\ original' = IF view.original THEN "CANCELLED" ELSE original
      /\ UNCHANGED <<caller, beside, swept, lost, faults>>
  BY CancelShape
<1>2. original' \in {"PENDING", "CANCELLED", "FAILED"} /\ original' \notin OpenStatus
  BY <1>1 DEF TypeOK, OpenStatus, Watched
<1>3. TypeOK'
  <2>1. withdrawn' \in BOOLEAN
    BY DEF Cancel, Withdraw
  <2> QED
    BY <1>1, <1>2, <2>1, NoViewShape DEF TypeOK
<1>4. RowsAgree' /\ InOrder' /\ Sole'
  BY <1>1, Closing DEF Open, OpenStatus
<1>5. Held'
  <2> SUFFICES ASSUME NEW c \in Caller, caller[c].at # "idle"
               PROVE  HeldAttempt(caller[c].attempt)'
    BY <1>1 DEF Held
  <2>1. caller[c].attempt \in Attempt /\ HeldAttempt(caller[c].attempt)
    BY Holding DEF Held
  <2> QED
    BY <1>1, <2>1 DEF HeldAttempt
<1>6. Watched' /\ Withdrawn'
  <2>1. \A b \in Attempt : Open(b)' => b \in beside
    BY <1>1 DEF Open, OpenStatus, Watched
  <2> QED
    BY <1>1, <1>2, <2>1, NoViewShape DEF Watched, Withdrawn
<1> QED
  BY <1>3, <1>4, <1>5, <1>6

(* The lifecycle job closes the order, and no attempt.                     *)
LEMMA CommerceLifecycleShape ==
    ASSUME TypeOK, CommerceLifecycle
    PROVE  /\ order'.status = "CANCELLED" /\ UNCHANGED attempt
           /\ order' \in [status : {"PENDING"} \cup Closed, aged : BOOLEAN]
<1>1. order' = [order EXCEPT !.status = "CANCELLED"]
  BY DEF CommerceLifecycle
<1>2. order'.status = "CANCELLED"
      /\ order' \in [status : {"PENDING"} \cup Closed, aged : BOOLEAN]
  BY <1>1 DEF TypeOK, Closed
<1>3. attempt' = [a \in Attempt |-> attempt[a]]
  BY <1>2 DEF CommerceLifecycle
<1> QED
  BY <1>2, <1>3 DEF TypeOK

(* The steps that change the order or its original checkout alone.         *)
LEMMA OrderIInv ==
    ASSUME IInv, CommerceLifecycle \/ Settle \/ OriginalFailed \/ AgeOrder
    PROVE  IInv'
<1> USE DEF IInv
<1>1. UNCHANGED <<attempt, caller, view, beside, withdrawn, lost, faults>>
  BY CommerceLifecycleShape
     DEF CommerceLifecycle, Settle, OriginalFailed, AgeOrder, History, Cancellation
<1>2. /\ order' \in [status : {"PENDING"} \cup Closed, aged : BOOLEAN]
      /\ order.status # "PENDING" => order'.status # "PENDING"
  <2>1. CASE CommerceLifecycle
    BY <2>1, CommerceLifecycleShape
  <2>2. CASE Settle
    BY <2>2 DEF Settle, TypeOK, Closed
  <2>3. CASE OriginalFailed
    BY <2>3 DEF OriginalFailed, TypeOK
  <2>4. CASE AgeOrder
    BY <2>4 DEF AgeOrder, TypeOK
  <2> QED
    BY <2>1, <2>2, <2>3, <2>4
<1>3. /\ original' \in {"PENDING", "CANCELLED", "FAILED"}
      /\ original' = original \/ original' = "FAILED"
  BY DEF CommerceLifecycle, Settle, OriginalFailed, AgeOrder, TypeOK
<1>4. swept' \subseteq Attempt
  BY DEF CommerceLifecycle, Settle, OriginalFailed, AgeOrder, TypeOK, History, Overdue
<1>5. TypeOK'
  BY <1>1, <1>2, <1>3, <1>4 DEF TypeOK, Known
<1>6. Held' /\ RowsAgree' /\ InOrder' /\ Sole'
  BY <1>1, <1>2, KeepRows
<1>7. Watched' /\ Withdrawn'
  BY <1>1, <1>2, <1>3, KeepCancellation DEF Open, OpenStatus
<1> QED
  BY <1>5, <1>6, <1>7

(* A failed payment is of an attempt with a checkout: nobody holds it.     *)
LEMMA PaymentFailedIInv ==
    ASSUME IInv, NEW a \in Attempt, PaymentFailed(a)
    PROVE  IInv'
<1> USE DEF IInv
<1>1. /\ attempt[a].made /\ SetStatus(a, "FAILED")
      /\ UNCHANGED <<order, original, caller, view, beside, withdrawn, swept, lost, faults>>
  BY DEF PaymentFailed, History, Cancellation
<1>2. attempt[a].status # "absent"
  BY <1>1 DEF RowsAgree
<1>3. /\ attempt' \in [Attempt -> Row] /\ attempt'[a].status = "FAILED"
      /\ attempt'[a].slow = attempt[a].slow
      /\ \A b \in Attempt : b # a => attempt'[b] = attempt[b]
  BY <1>1, StatusShape DEF TypeOK, AttemptStatus
<1>4. TypeOK'
  BY <1>1, <1>3 DEF TypeOK, Known
<1>5. RowsAgree' /\ InOrder' /\ Sole' /\ \A b \in Attempt : Open(b)' => Open(b)
  BY <1>2, <1>3, Closing
<1>6. Held'
  <2> SUFFICES ASSUME NEW c \in Caller, caller[c].at # "idle"
               PROVE  HeldAttempt(caller[c].attempt)'
    BY <1>1 DEF Held
  <2>1. caller[c].attempt \in Attempt /\ HeldAttempt(caller[c].attempt)
    BY Holding DEF Held
  <2>2. caller[c].attempt # a
    BY <1>1, <2>1 DEF HeldAttempt
  <2> QED
    BY <1>1, <1>3, <2>1, <2>2 DEF HeldAttempt
<1>7. Watched' /\ Withdrawn'
  BY <1>1, <1>5, KeepCancellation
<1> QED
  BY <1>4, <1>5, <1>6, <1>7

(* Time: a creation that passes its five minutes is marked as slow.        *)
LEMMA AgeAttemptIInv ==
    ASSUME IInv, NEW a \in Attempt, AgeAttempt(a)
    PROVE  IInv'
<1> USE DEF IInv
<1>1. /\ \E age \in {"stale", "old"} : Grow(a, age)
      /\ UNCHANGED <<order, original, caller, view, beside, withdrawn, swept, lost, faults>>
  BY DEF AgeAttempt, History, Cancellation
<1> PICK age \in {"stale", "old"} : Grow(a, age)
  BY <1>1
<1> DEFINE r == [attempt[a] EXCEPT !.age = age,
                     !.slow = attempt[a].slow \/ attempt[a].status = "CREATING"]
<1>2. attempt' = [attempt EXCEPT ![a] = r]
  BY DEF Grow
<1>3. attempt[a] \in Row
  BY DEF TypeOK
<1>4. r \in Row
  BY <1>3 DEF Row
<1>5. r.status = attempt[a].status /\ r.made = attempt[a].made
  BY <1>3 DEF Row
<1>6. r.slow = (attempt[a].slow \/ attempt[a].status = "CREATING")
  BY <1>3 DEF Row
<1>7. /\ attempt' \in [Attempt -> Row]
      /\ attempt'[a] = r
      /\ \A b \in Attempt : b # a => attempt'[b] = attempt[b]
  BY <1>2, <1>4 DEF TypeOK
<1> HIDE DEF r
<1>8. \A b \in Attempt : /\ attempt'[b].status = attempt[b].status
                         /\ attempt'[b].made = attempt[b].made
                         /\ attempt[b].slow => attempt'[b].slow
                         /\ Open(b)' <=> Open(b)
  BY <1>5, <1>6, <1>7 DEF Open
<1>9. TypeOK'
  BY <1>1, <1>7 DEF TypeOK, Known
<1>10. Held'
  <2> SUFFICES ASSUME NEW c \in Caller, caller[c].at # "idle"
               PROVE  HeldAttempt(caller[c].attempt)'
    BY <1>1 DEF Held
  <2>1. caller[c].attempt \in Attempt /\ HeldAttempt(caller[c].attempt)
    BY Holding DEF Held
  <2> QED
    BY <1>1, <1>8, <2>1 DEF HeldAttempt
<1>11. RowsAgree'
  BY <1>5, <1>6, <1>7 DEF RowsAgree
<1>12. InOrder' /\ Sole'
  BY <1>8 DEF InOrder, Sole
<1>13. Watched' /\ Withdrawn'
  BY <1>1, <1>8, KeepCancellation
<1> QED
  BY <1>9, <1>10, <1>11, <1>12, <1>13

(* Fault keeps the count within its bound.                                 *)
LEMMA FaultBound ==
    ASSUME TypeOK, Fault
    PROVE  faults' \in 0..MaxFault
BY PendingOrdersAssumption DEF TypeOK, Fault

(* The induction step.                                                     *)
LEMMA NextIInv == IInv /\ [Next]_vars => IInv'
<1> SUFFICES ASSUME IInv, [Next]_vars PROVE IInv'
  OBVIOUS
<1> USE DEF IInv
<1>1. ASSUME NEW c \in Caller, Continue(c) PROVE IInv'
  BY <1>1, ContinueIInv
<1>2. ASSUME NEW c \in Caller, CreateCheckout(c) PROVE IInv'
  <2>1. caller[c].at # "idle" /\ faults' \in 0..MaxFault
        /\ UNCHANGED <<order, original, attempt, Cancellation, withdrawn, swept, lost>>
    BY <1>2 DEF CreateCheckout, History, TypeOK
  <2>2. \E p \in {"finalize", "fail"} : Goto(c, p)
    BY <1>2 DEF CreateCheckout
  <2> QED
    BY <2>1, <2>2, GotoIInv
<1>3. ASSUME NEW c \in Caller, Finalize(c) PROVE IInv'
  BY <1>3, FinalizeIInv
<1>4. ASSUME NEW c \in Caller, Fail(c) PROVE IInv'
  <2>1. /\ caller[c].at # "idle" /\ caller' = [caller EXCEPT ![c] = Idle]
        /\ UNCHANGED <<order, original, Cancellation, withdrawn, swept, lost, faults>>
        /\ \/ UNCHANGED attempt
           \/ /\ attempt[caller[c].attempt].status = "CREATING"
              /\ SetStatus(caller[c].attempt, "FAILED")
    BY <1>4 DEF Fail, History
  <2>2. lost' \subseteq Attempt /\ faults' \in 0..MaxFault
    BY <2>1 DEF TypeOK
  <2> QED
    BY <2>1, <2>2, ReleaseIInv
<1>5. ASSUME NEW c \in Caller, FinalizeThrows(c) PROVE IInv'
  <2>1. /\ caller[c].at # "idle" /\ Fault /\ Goto(c, "fail")
        /\ UNCHANGED <<order, original, attempt, Cancellation, withdrawn, swept, lost>>
    BY <1>5 DEF FinalizeThrows
  <2> QED
    BY <2>1, FaultBound, GotoIInv
<1>6. ASSUME NEW c \in Caller, Lost(c) PROVE IInv'
  <2>1. /\ caller[c] # Idle /\ caller' = [caller EXCEPT ![c] = Idle]
        /\ Fault /\ lost' = lost \cup {caller[c].attempt}
        /\ UNCHANGED <<order, original, attempt, Cancellation, withdrawn, swept>>
    BY <1>6 DEF Lost
  <2>2. caller[c].at # "idle" /\ caller[c].attempt \in Attempt
    BY <2>1, Resting, Holding
  <2>3. lost' \subseteq Attempt /\ faults' \in 0..MaxFault
    BY <2>1, <2>2, FaultBound DEF TypeOK
  <2> QED
    BY <2>1, <2>2, <2>3, ReleaseIInv
<1>7. ASSUME NEW a \in Attempt, PaymentFailed(a) PROVE IInv'
  BY <1>7, PaymentFailedIInv
<1>8. ASSUME NEW a \in Attempt, AgeAttempt(a) PROVE IInv'
  BY <1>8, AgeAttemptIInv
<1>9. CASE CancelBegins \/ Cancel \/ CancelFails
  BY <1>9, CancelBeginsIInv, CancelIInv, CancelFailsIInv
<1>10. CASE CommerceLifecycle \/ Settle \/ OriginalFailed \/ AgeOrder
  BY <1>10, OrderIInv
<1>11. CASE UNCHANGED vars
  <2>1. TypeOK'
    BY <1>11 DEF TypeOK, Known, vars
  <2>2. Held' /\ RowsAgree' /\ InOrder' /\ Sole'
    BY <1>11, KeepRows DEF vars
  <2>3. Watched' /\ Withdrawn'
    BY <1>11, KeepCancellation DEF Open, vars
  <2> QED
    BY <2>1, <2>2, <2>3
<1> QED
  BY <1>1, <1>2, <1>3, <1>4, <1>5, <1>6, <1>7, <1>8, <1>9, <1>10, <1>11
     DEF Next, Work

(* The inductive invariant holds of every behaviour.                       *)
THEOREM Invariant == Spec => []IInv
BY InitIInv, NextIInv, PTL DEF Spec

-----------------------------------------------------------------------------
(* The types of the variables, and who holds which attempt.                *)
THEOREM TypesHold == Spec => []TypeOK
<1>1. IInv => TypeOK
  BY DEF IInv
<1> QED
  BY <1>1, Invariant, PTL

(* An open replacement is the only one unless one of two had a provider    *)
(* that took longer than Continue waits; of the original checkout, open    *)
(* beside it, this says nothing.                                           *)
THEOREM OneReplacement == Spec => []OneOpenReplacement
<1>1. IInv => OneOpenReplacement
  <2> SUFFICES ASSUME IInv, NEW a \in Attempt, NEW b \in Attempt,
                      Open(a), Open(b), a # b, ~attempt[a].slow, ~attempt[b].slow
               PROVE  FALSE
    BY DEF OneOpenReplacement
  <2>1. a < b \/ b < a
    BY DEF Attempt
  <2> QED
    BY <2>1 DEF IInv, Sole, Open, OpenStatus
<1> QED
  BY <1>1, Invariant, PTL

(* A cancelled order leaves nothing open, now or later, but what was       *)
(* opened while the cancellation waited.                                   *)
THEOREM OnlyUnseenLeftOpen == Spec => []CancelledLeavesOnlyUnseen
<1>1. IInv => CancelledLeavesOnlyUnseen
  BY DEF IInv, Withdrawn, CancelledLeavesOnlyUnseen
<1> QED
  BY <1>1, Invariant, PTL

(* Only a slow creation that was given up is opened again, by its own      *)
(* answer.                                                                 *)
THEOREM LateAnswers == Spec => OnlyLateAnswersReopen
<1> DEFINE A == \A a \in Attempt :
                  attempt[a].status \notin OpenStatus \cup {"absent"}
                     /\ attempt'[a].status \in OpenStatus
                  => /\ attempt[a].slow /\ ~attempt[a].made
                     /\ order.status = "PENDING"
<1>1. IInv /\ [Next]_vars => [A]_vars
  <2> SUFFICES ASSUME IInv, Next, NEW a \in Attempt,
                      attempt[a].status \notin OpenStatus \cup {"absent"},
                      attempt'[a].status \in OpenStatus
               PROVE  attempt[a].slow /\ ~attempt[a].made /\ order.status = "PENDING"
    OBVIOUS
  <2> USE DEF IInv
  <2>1. ASSUME NEW c \in Caller, Finalize(c)
        PROVE  attempt[a].slow /\ ~attempt[a].made /\ order.status = "PENDING"
    <3> DEFINE h == caller[c].attempt
               s == IF order.status = "PENDING" THEN "PENDING" ELSE "CANCELLED"
    <3>1. caller[c].at # "idle" /\ SetMade(h, s)
      BY <2>1 DEF Finalize
    <3>2. h \in Attempt /\ HeldAttempt(h) /\ attempt \in [Attempt -> Row]
      BY <3>1, Holding DEF Held, TypeOK
    <3>3. s \in AttemptStatus
      BY DEF AttemptStatus, OpenStatus
    <3>4. /\ attempt'[h].status = s
          /\ \A b \in Attempt : b # h => attempt'[b] = attempt[b]
      <4> HIDE DEF h, s
      <4> QED
        BY <3>1, <3>2, <3>3, MadeShape
    <3>5. a = h /\ order.status = "PENDING"
      BY <3>4 DEF OpenStatus
    <3> QED
      BY <3>2, <3>5 DEF HeldAttempt, OpenStatus
  <2>2. ASSUME NEW c \in Caller, Continue(c) PROVE FALSE
    BY <2>2 DEF Continue, NextRow, TypeOK, Row, OpenStatus
  <2>3. ASSUME NEW c \in Caller, Fail(c) PROVE FALSE
    <3>1. caller[c].attempt \in Attempt
      BY <2>3, Holding DEF Fail
    <3>2. CASE UNCHANGED attempt
      BY <3>2
    <3>3. CASE SetStatus(caller[c].attempt, "FAILED")
      BY <3>1, <3>3, StatusShape DEF TypeOK, AttemptStatus, OpenStatus
    <3> QED
      BY <2>3, <3>2, <3>3 DEF Fail
  <2>4. ASSUME NEW b \in Attempt, PaymentFailed(b) PROVE FALSE
    BY <2>4, StatusShape DEF PaymentFailed, TypeOK, AttemptStatus, OpenStatus
  <2>5. ASSUME NEW b \in Attempt, AgeAttempt(b) PROVE FALSE
    <3> PICK age : Grow(b, age)
      BY <2>5 DEF AgeAttempt
    <3>1. attempt'[b].status = attempt[b].status
      BY DEF Grow, TypeOK, Row
    <3>2. b # a => attempt'[a] = attempt[a]
      BY DEF Grow, TypeOK
    <3> QED
      BY <3>1, <3>2
  <2>6. ASSUME Cancel PROVE FALSE
    BY <2>6, CancelShape DEF OpenStatus
  <2>7. ASSUME CommerceLifecycle PROVE FALSE
    BY <2>7, CommerceLifecycleShape
  <2>8. ASSUME UNCHANGED attempt PROVE FALSE
    BY <2>8
  <2> QED
    BY <2>1, <2>2, <2>3, <2>4, <2>5, <2>6, <2>7, <2>8
       DEF Next, Work, CreateCheckout, FinalizeThrows, Lost, Settle,
           OriginalFailed, AgeOrder, CancelBegins, CancelFails
<1>2. Spec => [][A]_vars
  BY <1>1, Invariant, PTL DEF Spec
<1> QED
  BY <1>2 DEF OnlyLateAnswersReopen

-----------------------------------------------------------------------------
(* Creations are held, attempts never expire, and PendingOrders implements *)
(* HostedCheckouts.                                                        *)

Colour == {"none", "asked", "offered", "closed"}

LEMMA SeenShape ==
    ASSUME NEW f \in [Attempt -> Row]
    PROVE  /\ Seen(f) \in [Attempt -> Colour]
           /\ \A a \in Attempt :
                /\ Seen(f)[a] = "none" <=> f[a].status = "absent"
                /\ Seen(f)[a] = "asked" <=> f[a].status = "CREATING"
                /\ Seen(f)[a] = "offered" <=> f[a].status = "PENDING"
                /\ Seen(f)[a] = "closed"
                      <=> f[a].status \in {"FAILED", "CANCELLED", "EXPIRED"}
<1>1. \A a \in Attempt : f[a].status \in AttemptStatus
  BY DEF Row
<1>2. ASSUME NEW a \in Attempt
      PROVE  /\ f[a].status = "absent" => Seen(f)[a] = "none"
             /\ f[a].status = "CREATING" => Seen(f)[a] = "asked"
             /\ f[a].status = "PENDING" => Seen(f)[a] = "offered"
             /\ f[a].status \notin {"absent", "CREATING", "PENDING"}
                   => Seen(f)[a] = "closed"
  BY DEF Seen
<1>3. \A a \in Attempt : Seen(f)[a] \in Colour
  BY <1>2 DEF Colour
<1>4. Seen(f) \in [Attempt -> Colour]
  BY <1>3 DEF Seen
<1> QED
  BY <1>1, <1>2, <1>4 DEF AttemptStatus, OpenStatus

(* Whose answer is expected, step by step.                                 *)
LEMMA AwaitedStays ==
    ASSUME \A c \in Caller : caller'[c].attempt = caller[c].attempt
    PROVE  Awaited' = Awaited
BY DEF Awaited

LEMMA AwaitedAtWork ==
    ASSUME TypeOK, NEW c \in Caller, NEW p \in {"finalize", "fail"}, Goto(c, p)
    PROVE  Awaited' = Awaited
<1>1. \A d \in Caller : caller'[d].attempt = caller[d].attempt
  BY DEF TypeOK, Goto, Frame
<1> QED
  BY <1>1, AwaitedStays

LEMMA AwaitedNoMore ==
    ASSUME TypeOK, Held, NEW c \in Caller, caller[c].at # "idle",
           caller' = [caller EXCEPT ![c] = Idle]
    PROVE  /\ caller[c].attempt \in Awaited
           /\ Awaited' = Awaited \ {caller[c].attempt}
<1>1. caller[c].attempt \in Attempt
  BY Holding
<1>2. \A d \in Caller : caller'[d] = IF d = c THEN Idle ELSE caller[d]
  BY DEF TypeOK
<1>3. ASSUME NEW d \in Caller, d # c, caller[d].attempt \in Attempt
      PROVE  caller[d].attempt # caller[c].attempt
  <2>1. caller[d] # Idle
    BY <1>3 DEF Idle, Attempt
  <2> QED
    BY <1>3, <2>1 DEF TypeOK
<1>4. Idle.attempt = 0 /\ 0 \notin Attempt
  BY DEF Idle, Attempt
<1>5. ASSUME NEW a \in Attempt
      PROVE  a \in Awaited' <=> a \in Awaited /\ a # caller[c].attempt
  BY <1>1, <1>2, <1>3, <1>4 DEF Awaited
<1> QED
  BY <1>1, <1>5 DEF Awaited

LEMMA AwaitedOneMore ==
    ASSUME TypeOK, NEW c \in Caller, caller[c] = Idle, NEW a \in Attempt,
           caller' = [caller EXCEPT ![c] = [at |-> "create", attempt |-> a]]
    PROVE  Awaited' = Awaited \cup {a}
<1>1. \A d \in Caller : caller'[d] = IF d = c THEN [at |-> "create", attempt |-> a]
                                     ELSE caller[d]
  BY DEF TypeOK
<1>2. caller[c].attempt = 0 /\ 0 \notin Attempt
  BY DEF Idle, Attempt
<1>3. ASSUME NEW b \in Attempt PROVE b \in Awaited' <=> b \in Awaited \/ b = a
  <2>1. b \in Awaited' <=> \E d \in Caller : caller'[d].attempt = b
    BY DEF Awaited
  <2>2. b \in Awaited <=> \E d \in Caller : caller[d].attempt = b
    BY DEF Awaited
  <2>3. \A d \in Caller : d # c => caller'[d] = caller[d]
    BY <1>1
  <2>4. caller'[c].attempt = a
    BY <1>1
  <2> QED
    BY <1>2, <2>1, <2>2, <2>3, <2>4
<1> QED
  BY <1>3 DEF Awaited

(* Each row goes on as it is or ends; one that begins is taken.            *)
Ends ==
    \A a \in Attempt :
       attempt'[a].status = "CREATING" =>
          \/ attempt[a].status = "CREATING" /\ attempt'[a].made = attempt[a].made
          \/ ~attempt'[a].made /\ a \in Awaited'

(* A row whose continuation is gone is none that is being created, or lost.*)
LEMMA CreationsGoOn ==
    ASSUME CreationsAreHeld, Ends,
           \A a \in Attempt : attempt'[a].status = "CREATING"
              => a \notin (Awaited \cup lost) \ (Awaited' \cup lost')
    PROVE  CreationsAreHeld'
BY DEF CreationsAreHeld, Ends

(* What the steps do to the rows.                                          *)
LEMMA ContinueShape ==
    ASSUME IInv, NEW c \in Caller, Continue(c)
    PROVE  \E n \in Attempt :
              /\ attempt[n].status = "absent"
              /\ attempt'[n].status = "CREATING" /\ ~attempt'[n].made
              /\ ~attempt'[n].slow
              /\ caller' = [caller EXCEPT ![c] = [at |-> "create", attempt |-> n]]
              /\ \A b \in Attempt \ {n} :
                    \/ attempt'[b] = attempt[b]
                    \/ /\ attempt[b].status = "CREATING" /\ attempt[b].slow
                       /\ attempt'[b].status = "FAILED"
                       /\ attempt'[b].slow = attempt[b].slow
<1> PICK n \in Attempt :
      /\ NextRow(n)
      /\ attempt' = [b \in Attempt |->
           IF b = n THEN [NoRow EXCEPT !.status = "CREATING"]
           ELSE IF GivenUp(b) THEN [attempt[b] EXCEPT !.status = "FAILED"]
           ELSE attempt[b]]
      /\ caller' = [caller EXCEPT ![c] = [at |-> "create", attempt |-> n]]
  BY DEF Continue
<1>1. attempt'[n].status = "CREATING" /\ ~attempt'[n].made /\ ~attempt'[n].slow
  BY DEF NoRow
<1>2. attempt[n].status = "absent"
  BY DEF NextRow
<1>3. ASSUME NEW b \in Attempt \ {n}, GivenUp(b)
      PROVE  /\ attempt[b].status = "CREATING" /\ attempt[b].slow
             /\ attempt'[b].status = "FAILED"
             /\ attempt'[b].slow = attempt[b].slow
  <2>1. attempt'[b] = [attempt[b] EXCEPT !.status = "FAILED"]
    BY <1>3
  <2> QED
    BY <1>3, <2>1 DEF GivenUp, IInv, RowsAgree, TypeOK, Row
<1>4. \A b \in Attempt \ {n} : ~GivenUp(b) => attempt'[b] = attempt[b]
  OBVIOUS
<1> QED
  BY <1>1, <1>2, <1>3, <1>4

LEMMA FinalizeShape ==
    ASSUME IInv, NEW c \in Caller, Finalize(c)
    PROVE  LET h == caller[c].attempt IN
           /\ h \in Attempt /\ HeldAttempt(h)
           /\ attempt'[h].status = IF order.status = "PENDING" THEN "PENDING"
                                   ELSE "CANCELLED"
           /\ attempt'[h].slow = attempt[h].slow
           /\ \A b \in Attempt : b # h => attempt'[b] = attempt[b]
           /\ h \in Awaited /\ Awaited' = Awaited \ {h}
<1> DEFINE h == caller[c].attempt
           s == IF order.status = "PENDING" THEN "PENDING" ELSE "CANCELLED"
<1>1. caller[c].at # "idle" /\ SetMade(h, s) /\ caller' = [caller EXCEPT ![c] = Idle]
  BY DEF Finalize
<1>2. h \in Attempt /\ HeldAttempt(h) /\ attempt \in [Attempt -> Row]
  BY <1>1, Holding DEF IInv, Held, TypeOK
<1>3. s \in AttemptStatus
  BY DEF AttemptStatus, OpenStatus
<1>4. h \in Awaited /\ Awaited' = Awaited \ {h}
  BY <1>1, AwaitedNoMore DEF IInv
<1>5. /\ attempt'[h].status = s /\ attempt'[h].slow = attempt[h].slow
      /\ \A b \in Attempt : b # h => attempt'[b] = attempt[b]
  <2> HIDE DEF h, s
  <2> QED
    BY <1>1, <1>2, <1>3, MadeShape
<1> QED
  BY <1>2, <1>4, <1>5

(* A continuation that fails, or whose process dies.                       *)
LEMMA MissShape ==
    ASSUME IInv, NEW c \in Caller, Fail(c) \/ Lost(c)
    PROVE  LET h == caller[c].attempt IN
           /\ h \in Attempt /\ UNCHANGED order
           /\ \/ UNCHANGED attempt
              \/ /\ attempt[h].status = "CREATING" /\ attempt'[h].status = "FAILED"
                 /\ attempt'[h].slow = attempt[h].slow
                 /\ \A b \in Attempt : b # h => attempt'[b] = attempt[b]
           /\ \/ lost' = lost /\ attempt'[h].status # "CREATING"
              \/ lost' = lost \cup {h}
           /\ h \in Awaited /\ Awaited' = Awaited \ {h}
<1> DEFINE h == caller[c].attempt
<1>1. caller[c].at # "idle" /\ caller' = [caller EXCEPT ![c] = Idle] /\ UNCHANGED order
  BY Resting DEF Fail, Lost, IInv
<1>2. h \in Attempt /\ attempt \in [Attempt -> Row] /\ h \in Awaited /\ Awaited' = Awaited \ {h}
  BY <1>1, Holding, AwaitedNoMore DEF IInv, TypeOK
<1> HIDE DEF h
<1>3. CASE Lost(c)
  BY <1>1, <1>2, <1>3 DEF Lost, h
<1>4. CASE Fail(c)
  <2>1. \/ attempt[h].status = "CREATING" /\ SetStatus(h, "FAILED")
        \/ attempt[h].status # "CREATING" /\ UNCHANGED attempt
    BY <1>4 DEF Fail, h
  <2>2. lost' = lost
    BY <1>4 DEF Fail, History
  <2>3. ASSUME SetStatus(h, "FAILED")
        PROVE  /\ attempt'[h].status = "FAILED" /\ attempt'[h].slow = attempt[h].slow
               /\ \A b \in Attempt : b # h => attempt'[b] = attempt[b]
    BY <1>2, <2>3, StatusShape DEF AttemptStatus
  <2> QED
    BY <1>1, <1>2, <2>1, <2>2, <2>3 DEF h
<1> QED
  BY <1>3, <1>4

LEMMA PaymentFailedShape ==
    ASSUME IInv, NEW a \in Attempt, PaymentFailed(a)
    PROVE  /\ attempt'[a].status = "FAILED" /\ attempt'[a].slow = attempt[a].slow
           /\ \A b \in Attempt : b # a => attempt'[b] = attempt[b]
           /\ Awaited' = Awaited /\ lost' = lost /\ UNCHANGED order
           /\ attempt[a].made /\ order.status \in {"PENDING", "CANCELLED"}
<1>1. SetStatus(a, "FAILED") /\ UNCHANGED <<order, caller, lost>> /\ attempt[a].made
      /\ order.status \in {"PENDING", "CANCELLED"}
  BY DEF PaymentFailed, History
<1> QED
  BY <1>1, StatusShape, AwaitedStays DEF IInv, TypeOK, AttemptStatus

LEMMA GrowShape ==
    ASSUME IInv, NEW a \in Attempt, AgeAttempt(a)
    PROVE  /\ attempt'[a].status = attempt[a].status /\ attempt'[a].made = attempt[a].made
           /\ attempt'[a].slow = (attempt[a].slow \/ attempt[a].status = "CREATING")
           /\ \A b \in Attempt : b # a => attempt'[b] = attempt[b]
           /\ UNCHANGED <<order, Awaited, lost>>
<1>1. (\E age : Grow(a, age)) /\ UNCHANGED <<order, caller, lost>>
  BY DEF AgeAttempt, History
<1>2. PICK age : Grow(a, age)
  BY <1>1
<1>3. attempt \in [Attempt -> Row] /\ attempt[a] \in Row
  BY DEF IInv, TypeOK
<1>4. attempt' = [attempt EXCEPT ![a] = [attempt[a] EXCEPT !.age = age,
                    !.slow = attempt[a].slow \/ attempt[a].status = "CREATING"]]
  BY <1>2 DEF Grow
<1>5. attempt'[a] = [attempt[a] EXCEPT !.age = age,
                    !.slow = attempt[a].slow \/ attempt[a].status = "CREATING"]
      /\ \A b \in Attempt : b # a => attempt'[b] = attempt[b]
  BY <1>3, <1>4
<1>6. /\ attempt'[a].status = attempt[a].status /\ attempt'[a].made = attempt[a].made
      /\ attempt'[a].slow = (attempt[a].slow \/ attempt[a].status = "CREATING")
  BY <1>3, <1>5 DEF Row
<1> QED
  BY <1>1, <1>5, <1>6, AwaitedStays

(* Steps that leave the rows and who waits for them.                       *)
Aside == UNCHANGED <<attempt, Awaited, lost>>

LEMMA AsideShape ==
    ASSUME IInv,
           \/ UNCHANGED <<attempt, caller, lost>>
           \/ CommerceLifecycle
           \/ \E c \in Caller : CreateCheckout(c) \/ FinalizeThrows(c)
    PROVE  Aside
<1>1. CASE UNCHANGED <<attempt, caller, lost>>
  BY <1>1, AwaitedStays DEF Aside
<1>2. CASE CommerceLifecycle
  BY <1>2, CommerceLifecycleShape, AwaitedStays DEF Aside, CommerceLifecycle, IInv
<1>3. ASSUME NEW c \in Caller, CreateCheckout(c) \/ FinalizeThrows(c) PROVE Aside
  <2>1. UNCHANGED <<attempt, lost>> /\ \E p \in {"finalize", "fail"} : Goto(c, p)
    BY <1>3 DEF CreateCheckout, FinalizeThrows, History
  <2> QED
    BY <2>1, AwaitedAtWork DEF Aside, IInv
<1> QED
  BY <1>1, <1>2, <1>3

LEMMA CreationStep == IInv /\ CreationsAreHeld /\ [Next]_vars => CreationsAreHeld'
<1> SUFFICES ASSUME IInv, CreationsAreHeld, [Next]_vars PROVE CreationsAreHeld'
  OBVIOUS
<1>1. ASSUME NEW c \in Caller, Continue(c) PROVE CreationsAreHeld'
  <2>1. PICK n \in Attempt :
           /\ ~attempt'[n].made
           /\ caller' = [caller EXCEPT ![c] = [at |-> "create", attempt |-> n]]
           /\ \A b \in Attempt \ {n} : attempt'[b] = attempt[b]
                                       \/ attempt'[b].status = "FAILED"
    BY <1>1, ContinueShape
  <2>2. caller[c] = Idle /\ lost' = lost
    BY <1>1 DEF Continue, History
  <2>3. Awaited' = Awaited \cup {n}
    BY <2>1, <2>2, AwaitedOneMore DEF IInv
  <2>4. Ends
    BY <2>1, <2>3 DEF Ends
  <2> QED
    BY <2>2, <2>3, <2>4, CreationsGoOn
<1>2. ASSUME NEW c \in Caller, Finalize(c) PROVE CreationsAreHeld'
  <2>1. PICK h \in Attempt :
           /\ attempt'[h].status \in {"PENDING", "CANCELLED"}
           /\ \A b \in Attempt : b # h => attempt'[b] = attempt[b]
           /\ Awaited' = Awaited \ {h}
    BY <1>2, FinalizeShape
  <2>2. lost' = lost
    BY <1>2 DEF Finalize, History
  <2>3. Ends
    BY <2>1 DEF Ends
  <2> QED
    BY <2>1, <2>2, <2>3, CreationsGoOn
<1>3. ASSUME NEW c \in Caller, Fail(c) \/ Lost(c) PROVE CreationsAreHeld'
  <2>1. PICK h \in Attempt :
           /\ \/ UNCHANGED attempt
              \/ /\ attempt'[h].status = "FAILED"
                 /\ \A b \in Attempt : b # h => attempt'[b] = attempt[b]
           /\ \/ lost' = lost /\ attempt'[h].status # "CREATING"
              \/ lost' = lost \cup {h}
           /\ Awaited' = Awaited \ {h}
    BY <1>3, MissShape
  <2>2. Ends
    BY <2>1 DEF Ends
  <2> QED
    BY <2>1, <2>2, CreationsGoOn
<1>4. ASSUME NEW a \in Attempt, PaymentFailed(a) PROVE CreationsAreHeld'
  <2>1. /\ attempt'[a].status = "FAILED"
        /\ \A b \in Attempt : b # a => attempt'[b] = attempt[b]
        /\ Awaited' = Awaited /\ lost' = lost
    BY <1>4, PaymentFailedShape
  <2>2. Ends
    BY <2>1 DEF Ends
  <2> QED
    BY <2>1, <2>2, CreationsGoOn
<1>5. ASSUME NEW a \in Attempt, AgeAttempt(a) PROVE CreationsAreHeld'
  <2>1. Ends /\ Awaited' = Awaited /\ lost' = lost
    BY <1>5, GrowShape DEF Ends
  <2> QED
    BY <2>1, CreationsGoOn
<1>6. CASE Cancel
  <2>1. Ends /\ Awaited' = Awaited /\ lost' = lost
    BY <1>6, CancelShape, AwaitedStays DEF Ends, IInv
  <2> QED
    BY <2>1, CreationsGoOn
<1>7. CASE Aside
  BY <1>7, CreationsGoOn DEF Ends, Aside
<1>8. ASSUME NEW c \in Caller, CreateCheckout(c) \/ FinalizeThrows(c) PROVE Aside
  BY <1>8, AsideShape
<1>9. CASE \/ CommerceLifecycle \/ Settle \/ OriginalFailed \/ AgeOrder
           \/ CancelBegins \/ CancelFails \/ UNCHANGED vars
  BY <1>7, <1>9, AsideShape
     DEF Settle, OriginalFailed, AgeOrder, CancelBegins, CancelFails, History, vars
<1> QED
  BY <1>1, <1>2, <1>3, <1>4, <1>5, <1>6, <1>7, <1>8, <1>9 DEF Next, Work

(* A creation under way is in the hands of a continuation, which will end  *)
(* it, unless that one's process died: the state behind EveryCreationEnds. *)
THEOREM CreationsHaveHolders == Spec => []CreationsAreHeld
<1>1. Init => CreationsAreHeld
  BY DEF Init, CreationsAreHeld, NoRow
<1> QED
  BY <1>1, CreationStep, Invariant, PTL DEF Spec

LEMMA ExpiryStep == IInv /\ NoAttemptExpires /\ [Next]_vars => NoAttemptExpires'
<1> SUFFICES ASSUME IInv, NoAttemptExpires, [Next]_vars PROVE NoAttemptExpires'
  OBVIOUS
<1>1. CASE \A a \in Attempt : \/ attempt'[a].status = attempt[a].status
                              \/ attempt'[a].status # "EXPIRED"
  BY <1>1 DEF NoAttemptExpires
<1>2. ASSUME NEW c \in Caller, Continue(c) \/ Finalize(c) PROVE NoAttemptExpires'
  BY <1>1, <1>2, ContinueShape, FinalizeShape
<1>3. ASSUME NEW c \in Caller, Fail(c) \/ Lost(c) PROVE NoAttemptExpires'
  BY <1>1, <1>3, MissShape
<1>4. ASSUME NEW a \in Attempt, PaymentFailed(a) \/ AgeAttempt(a) PROVE NoAttemptExpires'
  BY <1>1, <1>4, PaymentFailedShape, GrowShape
<1>5. CASE Cancel
  BY <1>1, <1>5, CancelShape DEF IInv
<1>6. ASSUME NEW c \in Caller, CreateCheckout(c) \/ FinalizeThrows(c) PROVE Aside
  BY <1>6, AsideShape
<1>7. CASE \/ CommerceLifecycle \/ Settle \/ OriginalFailed \/ AgeOrder
           \/ CancelBegins \/ CancelFails \/ UNCHANGED vars
  BY <1>1, <1>7, AsideShape
     DEF Aside, Settle, OriginalFailed, AgeOrder, CancelBegins, CancelFails, History, vars
<1> QED
  BY <1>1, <1>2, <1>3, <1>4, <1>5, <1>6, <1>7 DEF Next, Work, Aside

(* However the lifecycle job, the continuations and the webhooks run, no   *)
(* attempt ever becomes EXPIRED: the second update of the job finds none.  *)
THEOREM AttemptsNeverExpire == Spec => []NoAttemptExpires
<1>1. Init => NoAttemptExpires
  BY DEF Init, NoAttemptExpires, NoRow
<1> QED
  BY <1>1, ExpiryStep, Invariant, PTL DEF Spec

(* A row that is not there yet was never slow.                             *)
FreshRows == \A a \in Attempt : attempt[a].status = "absent" => ~attempt[a].slow

LEMMA FreshStep == IInv /\ FreshRows /\ [Next]_vars => FreshRows'
<1> SUFFICES ASSUME IInv, FreshRows, [Next]_vars PROVE FreshRows'
  OBVIOUS
<1>1. CASE \A a \in Attempt : \/ attempt'[a].status # "absent"
                              \/ /\ attempt'[a].status = attempt[a].status
                                 /\ attempt'[a].slow = attempt[a].slow
  BY <1>1 DEF FreshRows
<1>2. ASSUME NEW c \in Caller, Continue(c) \/ Finalize(c) PROVE FreshRows'
  BY <1>1, <1>2, ContinueShape, FinalizeShape
<1>3. ASSUME NEW c \in Caller, Fail(c) \/ Lost(c) PROVE FreshRows'
  BY <1>1, <1>3, MissShape
<1>4. ASSUME NEW a \in Attempt, PaymentFailed(a) PROVE FreshRows'
  BY <1>1, <1>4, PaymentFailedShape
<1>5. ASSUME NEW a \in Attempt, AgeAttempt(a) PROVE FreshRows'
  BY <1>5, GrowShape DEF FreshRows
<1>6. CASE Cancel
  BY <1>1, <1>6, CancelShape DEF IInv, Open
<1>7. ASSUME NEW c \in Caller, CreateCheckout(c) \/ FinalizeThrows(c) PROVE Aside
  BY <1>7, AsideShape
<1>8. CASE \/ CommerceLifecycle \/ Settle \/ OriginalFailed \/ AgeOrder
           \/ CancelBegins \/ CancelFails \/ UNCHANGED vars
  BY <1>1, <1>8, AsideShape
     DEF Aside, Settle, OriginalFailed, AgeOrder, CancelBegins, CancelFails, History, vars
<1> QED
  BY <1>1, <1>2, <1>3, <1>4, <1>5, <1>6, <1>7, <1>8 DEF Next, Work, Aside

LEMMA FreshInit == Init => FreshRows
BY DEF Init, FreshRows, NoRow

(* The invariant of the refinement.                                        *)
RInv == IInv /\ CreationsAreHeld /\ FreshRows

LEMMA RInvariant == Spec => []RInv
<1>1. Init => FreshRows
  BY FreshInit
<1>2. Spec => []FreshRows
  BY <1>1, FreshStep, Invariant, PTL DEF Spec
<1> QED
  BY <1>2, Invariant, CreationsHaveHolders, PTL DEF RInv

(* The customer sees nothing of it.                                        *)
Still == UNCHANGED <<order.status, First, Checkout, Awaited, Slow, view.on, Known>>

(* A step beside the cancellation and the original checkout.               *)
LEMMA SameRequest ==
    ASSUME UNCHANGED <<original, view>>
    PROVE  UNCHANGED <<First, view.on, Known>>
BY DEF First, Known

(* What the customer sees of the rows before and after a step.             *)
LEMMA Before ==
    ASSUME RInv
    PROVE  /\ Checkout \in [Attempt -> Colour]
           /\ \A a \in Attempt :
                /\ Checkout[a] = "none" <=> attempt[a].status = "absent"
                /\ Checkout[a] = "asked" <=> attempt[a].status = "CREATING"
                /\ Checkout[a] = "offered" <=> attempt[a].status = "PENDING"
                /\ Checkout[a] = "closed"
                      <=> attempt[a].status \in {"FAILED", "CANCELLED", "EXPIRED"}
                /\ a \in Slow <=> attempt[a].slow
<1>1. attempt \in [Attempt -> Row]
  BY DEF RInv, IInv, TypeOK
<1> QED
  BY <1>1, SeenShape DEF Checkout, Slow

LEMMA After ==
    ASSUME RInv, [Next]_vars
    PROVE  /\ Checkout' \in [Attempt -> Colour]
           /\ \A a \in Attempt :
                /\ Checkout'[a] = "none" <=> attempt'[a].status = "absent"
                /\ Checkout'[a] = "asked" <=> attempt'[a].status = "CREATING"
                /\ Checkout'[a] = "offered" <=> attempt'[a].status = "PENDING"
                /\ Checkout'[a] = "closed"
                      <=> attempt'[a].status \in {"FAILED", "CANCELLED", "EXPIRED"}
                /\ a \in Slow' <=> attempt'[a].slow
<1>1. attempt' \in [Attempt -> Row]
  BY NextIInv DEF RInv, IInv, TypeOK
<1>2. Checkout' = Seen(attempt')
  BY DEF Checkout, Seen
<1> QED
  BY <1>1, <1>2, SeenShape DEF Slow

(* Every open row is slow when a continuation may begin another.           *)
LEMMA OpenAreSlow ==
    ASSUME IInv, NEW c \in Caller, Continue(c), NEW a \in Attempt, Open(a)
    PROVE  attempt[a].slow
<1> SUFFICES ASSUME ~attempt[a].slow PROVE FALSE
  BY DEF IInv, TypeOK, Row
<1>1. \A b \in Attempt : a < b => ~Open(b)
  BY DEF IInv, Sole, Open, OpenStatus
<1>2. Newest(a)
  BY <1>1 DEF Newest, Attempt
<1> QED
  BY <1>2 DEF Continue, GivenUp, IInv, RowsAgree

LEMMA SameSlow ==
    ASSUME \A a \in Attempt : attempt'[a].slow = attempt[a].slow PROVE Slow' = Slow
BY DEF Slow

LEMMA ContinueRefines ==
    ASSUME RInv, NEW c \in Caller, Continue(c), [Next]_vars
    PROVE  \E a \in Attempt, Given \in SUBSET Slow : Checkouts!Ask(a, Given)
<1>1. PICK n \in Attempt :
         /\ attempt[n].status = "absent"
         /\ attempt'[n].status = "CREATING" /\ ~attempt'[n].slow
         /\ caller' = [caller EXCEPT ![c] = [at |-> "create", attempt |-> n]]
         /\ \A b \in Attempt \ {n} :
               \/ attempt'[b] = attempt[b]
               \/ /\ attempt[b].status = "CREATING" /\ attempt[b].slow
                  /\ attempt'[b].status = "FAILED"
                  /\ attempt'[b].slow = attempt[b].slow
  BY ContinueShape DEF RInv
<1>2. /\ caller[c] = Idle /\ UNCHANGED order /\ order.status = "PENDING"
  BY DEF Continue
<1>3. Awaited' = Awaited \cup {n}
  BY <1>1, <1>2, AwaitedOneMore DEF RInv, IInv
<1> DEFINE Given == {b \in Attempt \ {n} : attempt[b].status = "CREATING"
                                           /\ attempt'[b].status = "FAILED"}
<1>4. Given \in SUBSET Slow
  BY <1>1 DEF Slow
<1>5. \A b \in Attempt : Checkouts!Open(b) => b \in Slow
  BY Before, OpenAreSlow DEF Checkouts!Open, RInv, Open, OpenStatus
<1>6. Checkout[n] = "none" /\ \A b \in Given : Checkout[b] = "asked"
  BY <1>1, Before
<1>7. Slow' = Slow
  <2>1. ~attempt[n].slow
    BY <1>1 DEF RInv, FreshRows
  <2>2. \A b \in Attempt : b \in Slow' <=> b \in Slow
    BY <1>1, <2>1, Before, After
  <2> QED
    BY <2>2 DEF Slow
<1>8. Checkout' = [Checkouts!Close(Given) EXCEPT ![n] = "asked"]
  <2>1. ASSUME NEW b \in Attempt
        PROVE  Checkout'[b] = IF b = n THEN "asked"
                              ELSE IF b \in Given THEN "closed" ELSE Checkout[b]
    <3>1. CASE b = n
      BY <1>1, <3>1, After
    <3>2. CASE b # n /\ b \in Given
      <4>1. Checkout'[b] = "closed"
        BY <3>2, After
      <4> QED
        BY <3>2, <4>1
    <3>3. CASE b # n /\ b \notin Given
      <4>1. attempt'[b] = attempt[b]
        BY <1>1, <3>3
      <4>2. Checkout'[b] = Checkout[b]
        BY <4>1, Before, After DEF Colour
      <4> QED
        BY <3>3, <4>2
    <3> QED
      BY <3>1, <3>2, <3>3
  <2>2. DOMAIN Checkout' = Attempt /\ Checkout' = [b \in Attempt |-> Checkout'[b]]
    BY After
  <2> HIDE DEF Given
  <2> QED
    BY <2>1, <2>2 DEF Checkouts!Close
<1> HIDE DEF Given
<1>10. UNCHANGED <<First, view.on, Known>>
  BY SameRequest DEF Continue
<1>9. Checkouts!Ask(n, Given)
  BY <1>2, <1>3, <1>5, <1>6, <1>7, <1>8, <1>10 DEF Checkouts!Ask, Checkouts!Request
<1> QED
  BY <1>4, <1>9

(* One row changes its colour.                                             *)
LEMMA OneColour ==
    ASSUME RInv, [Next]_vars, NEW h \in Attempt, NEW colour,
           Checkout'[h] = colour,
           \A b \in Attempt : b # h => attempt'[b] = attempt[b]
    PROVE  Checkout' = [Checkout EXCEPT ![h] = colour]
<1>1. /\ Checkout = [b \in Attempt |-> Checkout[b]]
      /\ Checkout' = [b \in Attempt |-> Checkout'[b]]
  BY Before, After
<1>2. \A b \in Attempt : b # h => Checkout'[b] = Checkout[b]
  BY Before, After DEF Colour
<1> QED
  BY <1>1, <1>2

(* It is closed.                                                           *)
LEMMA OneCloses ==
    ASSUME RInv, [Next]_vars, NEW h \in Attempt, Checkout'[h] = "closed",
           \A b \in Attempt : b # h => attempt'[b] = attempt[b]
    PROVE  Checkout' = Checkouts!Close({h})
<1>1. Checkout' = [b \in Attempt |-> Checkout'[b]]
  BY After
<1>2. \A b \in Attempt : b # h => Checkout'[b] = Checkout[b]
  BY Before, After DEF Colour
<1> QED
  BY <1>1, <1>2 DEF Checkouts!Close

LEMMA FinalizeRefines ==
    ASSUME RInv, NEW c \in Caller, Finalize(c), [Next]_vars
    PROVE  \E a \in Attempt : Checkouts!Answer(a)
<1>1. PICK h \in Attempt :
         /\ HeldAttempt(h)
         /\ attempt'[h].status = IF order.status = "PENDING" THEN "PENDING" ELSE "CANCELLED"
         /\ attempt'[h].slow = attempt[h].slow
         /\ \A b \in Attempt : b # h => attempt'[b] = attempt[b]
         /\ h \in Awaited /\ Awaited' = Awaited \ {h}
  BY FinalizeShape DEF RInv
<1>2. UNCHANGED order
  BY DEF Finalize
<1>3. Slow' = Slow
  BY <1>1, SameSlow
<1>4. order.status = "PENDING" => Checkout[h] = "asked" \/ h \in Slow
  BY <1>1, Before DEF HeldAttempt
<1>5. Checkout'[h] = IF order.status = "PENDING" THEN "offered" ELSE "closed"
  BY <1>1, After
<1>6. Checkout' = [Checkout EXCEPT ![h] =
                     IF order.status = "PENDING" THEN "offered" ELSE "closed"]
  BY <1>1, <1>5, OneColour
<1>8. UNCHANGED <<First, view.on, Known>>
  BY SameRequest DEF Finalize, Cancellation
<1>7. Checkouts!Answer(h)
  BY <1>1, <1>2, <1>3, <1>4, <1>6, <1>8 DEF Checkouts!Answer, Checkouts!Request
<1> QED
  BY <1>7

LEMMA MissRefines ==
    ASSUME RInv, NEW c \in Caller, Fail(c) \/ Lost(c), [Next]_vars
    PROVE  \E a \in Attempt : Checkouts!Miss(a)
<1>1. PICK h \in Attempt :
         /\ UNCHANGED order
         /\ \/ UNCHANGED attempt
            \/ /\ attempt'[h].status = "FAILED" /\ attempt'[h].slow = attempt[h].slow
               /\ \A b \in Attempt : b # h => attempt'[b] = attempt[b]
         /\ h \in Awaited /\ Awaited' = Awaited \ {h}
  BY MissShape DEF RInv
<1>2. Slow' = Slow
  BY <1>1, SameSlow
<1>3. Checkout' \in {Checkout, Checkouts!Close({h})}
  <2>1. CASE UNCHANGED attempt
    BY <2>1 DEF Checkout, Seen
  <2>2. CASE /\ attempt'[h].status = "FAILED"
             /\ \A b \in Attempt : b # h => attempt'[b] = attempt[b]
    <3>1. Checkout'[h] = "closed"
      BY <2>2, After
    <3> QED
      BY <2>2, <3>1, OneCloses
  <2> QED
    BY <1>1, <2>1, <2>2
<1>5. UNCHANGED <<First, view.on, Known>>
  BY SameRequest DEF Fail, Lost, Cancellation
<1>4. Checkouts!Miss(h)
  BY <1>1, <1>2, <1>3, <1>5 DEF Checkouts!Miss, Checkouts!Request
<1> QED
  BY <1>4

LEMMA DeclineRefines ==
    ASSUME RInv, NEW a \in Attempt, PaymentFailed(a), [Next]_vars
    PROVE  Checkouts!Decline(a)
<1>1. /\ attempt'[a].status = "FAILED" /\ attempt'[a].slow = attempt[a].slow
      /\ \A b \in Attempt : b # a => attempt'[b] = attempt[b]
      /\ Awaited' = Awaited /\ UNCHANGED order
      /\ attempt[a].made /\ order.status \in {"PENDING", "CANCELLED"}
  BY PaymentFailedShape DEF RInv
<1>2. a \notin Awaited
  <2> SUFFICES ASSUME NEW c \in Caller, caller[c].attempt = a PROVE FALSE
    BY DEF Awaited
  <2>1. caller[c].at # "idle"
    BY DEF RInv, IInv, TypeOK, Attempt
  <2> QED
    BY <1>1, <2>1 DEF RInv, IInv, Held, HeldAttempt
<1>3. attempt[a].status \notin {"absent", "CREATING"}
  BY <1>1 DEF RInv, IInv, RowsAgree, CreationsAreHeld
<1>4. Checkout[a] \in {"offered", "closed"}
  BY <1>3, Before DEF Colour
<1>5. Checkout' = Checkouts!Close({a})
  <2>1. Checkout'[a] = "closed"
    BY <1>1, After
  <2> QED
    BY <1>1, <2>1, OneCloses
<1>6. Slow' = Slow
  BY <1>1, SameSlow
<1>7. UNCHANGED <<First, view.on, Known>>
  BY SameRequest DEF PaymentFailed, Cancellation
<1> QED
  BY <1>1, <1>2, <1>4, <1>5, <1>6, <1>7 DEF Checkouts!Decline, Checkouts!Request

LEMMA AgeRefines ==
    ASSUME RInv, NEW a \in Attempt, AgeAttempt(a), [Next]_vars
    PROVE  Still \/ Checkouts!Delay(a)
<1>1. /\ attempt'[a].status = attempt[a].status
      /\ attempt'[a].slow = (attempt[a].slow \/ attempt[a].status = "CREATING")
      /\ \A b \in Attempt : b # a => attempt'[b] = attempt[b]
      /\ UNCHANGED <<order, Awaited>>
  BY GrowShape DEF RInv
<1>2. \A b \in Attempt : attempt'[b].status = attempt[b].status
  BY <1>1
<1>3. Checkout' = Checkout
  BY <1>2 DEF Checkout, Seen
<1>6. UNCHANGED <<First, view.on, Known>>
  BY SameRequest DEF AgeAttempt, Cancellation
<1>4. CASE attempt[a].status = "CREATING"
  <2>1. Checkout[a] = "asked"
    BY <1>4, Before
  <2>2. \A b \in Attempt : b \in Slow' <=> b \in Slow \/ b = a
    BY <1>1, <1>4, Before, After
  <2>3. Slow' = Slow \cup {a}
    BY <2>2 DEF Slow
  <2> QED
    BY <1>1, <1>3, <1>6, <2>1, <2>3 DEF Checkouts!Delay, Checkouts!Request
<1>5. CASE attempt[a].status # "CREATING"
  <2>1. \A b \in Attempt : b \in Slow' <=> b \in Slow
    BY <1>1, <1>5, Before, After
  <2>2. Slow' = Slow
    BY <2>1 DEF Slow
  <2> QED
    BY <1>1, <1>3, <1>6, <2>2 DEF Still
<1> QED
  BY <1>4, <1>5

(* The customer sees as open what is open.                                 *)
LEMMA OpenAlike ==
    ASSUME RInv PROVE \A b \in Attempt : Checkouts!Open(b) <=> Open(b)
BY Before DEF Checkouts!Open, Open, OpenStatus

LEMMA CancelRefines ==
    ASSUME RInv, Cancel, [Next]_vars PROVE Checkouts!Withdraw
<1>1. /\ \A b \in Attempt :
            /\ b \in Known => /\ Open(b)
                               /\ attempt'[b].status = "CANCELLED"
                               /\ attempt'[b].slow = attempt[b].slow
            /\ b \notin Known => attempt'[b] = attempt[b]
      /\ order.status = "PENDING" /\ order'.status = "CANCELLED"
      /\ view.on /\ view' = NoView /\ Known' = {}
      /\ original' = IF view.original THEN "CANCELLED" ELSE original
      /\ UNCHANGED caller
  BY CancelShape DEF RInv, IInv
<1>2. \A b \in Known : Checkouts!Open(b)
  BY <1>1, OpenAlike DEF Known
<1>3. Slow' = Slow
  BY <1>1, SameSlow
<1>4. Checkout' = Checkouts!Close(Known)
  <2>1. Checkout' = [b \in Attempt |-> Checkout'[b]]
    BY After
  <2>2. ASSUME NEW b \in Attempt
        PROVE  Checkout'[b] = IF b \in Known THEN "closed" ELSE Checkout[b]
    <3>1. CASE b \in Known
      BY <1>1, <3>1, After
    <3>2. CASE b \notin Known
      <4>1. Checkout'[b] = Checkout[b]
        BY <1>1, <3>2, Before, After DEF Colour
      <4> QED
        BY <3>2, <4>1
    <3> QED
      BY <3>1, <3>2
  <2> QED
    BY <2>1, <2>2 DEF Checkouts!Close
<1>5. First' = "closed"
  BY <1>1 DEF First, OpenStatus, RInv, IInv, Watched
<1>6. Awaited' = Awaited
  BY <1>1, AwaitedStays
<1>7. view'.on = FALSE
  BY <1>1, NoViewShape DEF NoView
<1>8. view.on = TRUE
  BY <1>1 DEF RInv, IInv, TypeOK, View
<1> QED
  BY <1>1, <1>2, <1>3, <1>4, <1>5, <1>6, <1>7, <1>8 DEF Checkouts!Withdraw

LEMMA CancelBeginsRefines ==
    ASSUME RInv, CancelBegins PROVE Checkouts!AskCancel
<1>1. /\ UNCHANGED <<order, original, attempt, caller>>
      /\ order.status = "PENDING" /\ ~view.on
  BY DEF CancelBegins
<1>2. view' \in View /\ view'.on /\ Known' = {a \in Attempt : Open(a)}
  BY CancelBeginsShape DEF RInv, IInv
<1>3. view'.on = TRUE
  BY <1>2 DEF View
<1>4. Known' = {a \in Attempt : Checkouts!Open(a)}
  BY <1>2, OpenAlike
<1>5. UNCHANGED <<First, Checkout, Awaited, Slow>>
  BY <1>1, AwaitedStays DEF First, Checkout, Seen, Slow
<1> QED
  BY <1>1, <1>3, <1>4, <1>5 DEF Checkouts!AskCancel

LEMMA CancelFailsRefines ==
    ASSUME RInv, CancelFails PROVE Checkouts!Refuse
<1>1. /\ UNCHANGED <<order, original, attempt, caller>>
      /\ view.on /\ view' = NoView
  BY DEF CancelFails
<1>2. view'.on = FALSE /\ Known' = {}
  BY <1>1, NoViewShape DEF NoView, Known
<1>3. UNCHANGED <<First, Checkout, Awaited, Slow>>
  BY <1>1, AwaitedStays DEF First, Checkout, Seen, Slow
<1> QED
  BY <1>1, <1>2, <1>3 DEF Checkouts!Refuse

LEMMA OriginalFailedRefines ==
    ASSUME RInv, OriginalFailed PROVE Checkouts!DeclineFirst
<1>1. /\ UNCHANGED <<order, attempt, caller, view>>
      /\ order.status \in {"PENDING", "CANCELLED"} /\ original' = "FAILED"
  BY DEF OriginalFailed, Cancellation
<1>2. First' = "closed"
  BY <1>1 DEF First, OpenStatus
<1>3. UNCHANGED <<Checkout, Awaited, Slow, view.on, Known>>
  BY <1>1, AwaitedStays DEF Checkout, Seen, Slow, Known
<1> QED
  BY <1>1, <1>2, <1>3 DEF Checkouts!DeclineFirst, Checkouts!Request

LEMMA AsideIsUnseen == ASSUME Aside PROVE UNCHANGED <<Checkout, Awaited, Slow>>
<1>1. UNCHANGED attempt /\ UNCHANGED Awaited
  BY DEF Aside
<1>2. Checkout' = Checkout
  BY <1>1 DEF Checkout, Seen
<1>3. Slow' = Slow
  BY <1>1 DEF Slow
<1> QED
  BY <1>1, <1>2, <1>3

(* Every step is a step of HostedCheckouts, or one the customer misses.    *)
LEMMA StepRefines == ASSUME RInv, [Next]_vars PROVE Checkouts!Next \/ Still
<1>1. ASSUME NEW c \in Caller, Continue(c) PROVE Checkouts!Next
  BY <1>1, ContinueRefines DEF Checkouts!Next
<1>2. ASSUME NEW c \in Caller, Finalize(c) PROVE Checkouts!Next
  BY <1>2, FinalizeRefines DEF Checkouts!Next
<1>3. ASSUME NEW c \in Caller, Fail(c) \/ Lost(c) PROVE Checkouts!Next
  BY <1>3, MissRefines DEF Checkouts!Next
<1>4. ASSUME NEW a \in Attempt, PaymentFailed(a) PROVE Checkouts!Next
  BY <1>4, DeclineRefines DEF Checkouts!Next
<1>5. ASSUME NEW a \in Attempt, AgeAttempt(a) PROVE Checkouts!Next \/ Still
  BY <1>5, AgeRefines DEF Checkouts!Next
<1>6. CASE CancelBegins \/ Cancel \/ CancelFails \/ OriginalFailed
  BY <1>6, CancelBeginsRefines, CancelRefines, CancelFailsRefines, OriginalFailedRefines
     DEF Checkouts!Next
<1>7. ASSUME NEW c \in Caller, CreateCheckout(c) \/ FinalizeThrows(c) PROVE Still
  <2>1. Aside
    BY <1>7, AsideShape DEF RInv
  <2>2. UNCHANGED <<order, original, view>>
    BY <1>7 DEF CreateCheckout, FinalizeThrows, Cancellation
  <2> QED
    BY <2>1, <2>2, AsideIsUnseen, SameRequest DEF Still
<1>8. CASE AgeOrder \/ UNCHANGED vars
  <2>1. Aside
    BY <1>8, AsideShape DEF RInv, AgeOrder, History, vars
  <2>2. order'.status = order.status /\ UNCHANGED <<original, view>>
    BY <1>8 DEF AgeOrder, vars, Cancellation, RInv, IInv, TypeOK
  <2> QED
    BY <2>1, <2>2, AsideIsUnseen, SameRequest DEF Still
<1>9. CASE CommerceLifecycle
  <2>1. UNCHANGED <<Checkout, Awaited, Slow, First, view.on, Known>>
    BY <1>9, AsideShape, AsideIsUnseen, SameRequest
       DEF RInv, CommerceLifecycle, Cancellation
  <2>2. order.status = "PENDING" /\ order'.status = "CANCELLED"
    BY <1>9, CommerceLifecycleShape DEF RInv, IInv, CommerceLifecycle
  <2>3. Checkouts!Expire
    BY <2>1, <2>2 DEF Checkouts!Expire, Checkouts!Request
  <2> QED
    BY <2>3 DEF Checkouts!Next
<1>10. CASE Settle
  <2>1. Aside /\ UNCHANGED <<First, view.on, Known>>
    BY <1>10, AsideShape, SameRequest DEF RInv, Settle, History, Cancellation
  <2>2. order.status # "PAID" /\ order'.status = "PAID"
    BY <1>10 DEF Settle, RInv, IInv, TypeOK
  <2>3. Checkouts!Pay
    BY <2>1, <2>2, AsideIsUnseen DEF Checkouts!Pay, Checkouts!Request
  <2> QED
    BY <2>3 DEF Checkouts!Next
<1> QED
  BY <1>1, <1>2, <1>3, <1>4, <1>5, <1>6, <1>7, <1>8, <1>9, <1>10 DEF Next, Work

(* However continuations race each other, the cancellation, the job and    *)
(* the webhooks, the customer sees the checkouts of HostedCheckouts.       *)
THEOREM CheckoutsImplemented == Spec => ImplementsCheckouts
<1>1. Init => Checkouts!Init
  <2> SUFFICES ASSUME Init PROVE Checkouts!Init
    OBVIOUS
  <2>1. attempt = [a \in Attempt |-> NoRow] /\ NoRow.status = "absent" /\ ~NoRow.slow
    BY DEF Init, NoRow
  <2>2. Checkout = [a \in Attempt |-> "none"]
    BY <2>1 DEF Checkout, Seen
  <2>3. Slow = {}
    BY <2>1 DEF Slow
  <2>4. Awaited = {}
    BY DEF Init, Awaited, Idle, Attempt
  <2>5. order.status = "PENDING"
    BY DEF Init
  <2>6. First = "offered"
    BY DEF Init, First, OpenStatus
  <2>7. view.on = FALSE /\ Known = {}
    BY NoViewShape DEF Init, NoView, Known
  <2> QED
    BY <2>2, <2>3, <2>4, <2>5, <2>6, <2>7 DEF Checkouts!Init
<1>2. RInv /\ [Next]_vars => [Checkouts!Next]_(Checkouts!vars)
  BY StepRefines DEF Still, Checkouts!vars
<1> QED
  BY <1>1, <1>2, RInvariant, PTL DEF Spec, ImplementsCheckouts, Checkouts!Spec
=============================================================================
