---------------------------- MODULE BackupsProofs ----------------------------
(***************************************************************************)
(* Proofs about Backups for any number of workers, operations, attempts    *)
(* and faults: its types, that an operation which nobody disputes is in    *)
(* the hands of one worker, and that the status of the archive is true of  *)
(* its objects as long as no creation runs beside another execution.  The  *)
(* operations implement ClaimedOperations.                                 *)
(***************************************************************************)
EXTENDS Backups, TLAPS

Creating == {"begin", "upload", "manifest", "record"}
Verifying == {"load", "check", "verified"}
Deleting == {"delete", "remove", "deleted"}
Ending == {"succeed", "fail", "failArchive"}

(* A worker is busy in the calls of an operation that exists, and in those *)
(* of its type.                                                            *)
Placed(w) ==
    /\ Busy(w) <=> worker[w].at \in Creating \cup Verifying \cup Deleting \cup Ending
    /\ Busy(w) => op[worker[w].op].status # "absent"
    /\ worker[w].at \in Creating => Type(w) = "CREATE"
    /\ worker[w].at \in Verifying => Type(w) = "VERIFY"
    /\ worker[w].at \in Deleting => Type(w) = "DELETE"

(* Who is PROCESSING was claimed.                                          *)
Counted(o) == op[o].status = "PROCESSING" => op[o].attempts # 0

(* An operation that nobody disputes: one worker has it, under its last    *)
(* claim; it waits for nobody; it is old only if nobody has it.            *)
Sole(o) ==
    ~op[o].disputed =>
       /\ \A v, w \in Worker : Executing(v, o) /\ Executing(w, o) => v = w
       /\ \A w \in Worker : Executing(w, o) =>
             /\ op[o].attempts = worker[w].run
             /\ op[o].status \in {"PROCESSING", "SUCCEEDED"}
             /\ worker[w].at # "fail" => op[o].status = "PROCESSING"
       /\ op[o].old => \A w \in Worker : worker[w].op # o

(* The first inductive invariant: the operations.                          *)
OInv ==
    /\ TypeOK
    /\ \A w \in Worker : Placed(w)
    /\ \A o \in Operation : Counted(o) /\ Sole(o)

-----------------------------------------------------------------------------
(* A creation runs alone.                                                  *)
Alone ==
    \A v, w \in Worker : v # w /\ Busy(v) /\ Busy(w) => Type(v) # "CREATE"

Empty == \A k \in Object : store[k] = 0

(* What a worker has made or seen of the store is still so.                *)
Seen(w) ==
    /\ worker[w].at \in {"upload", "manifest", "record"} =>
          /\ archive.status \in {"CREATING", "EXPIRED"}
          /\ ~archive.due => archive.status = "CREATING"
    /\ worker[w].at \in {"manifest", "record"} => store["database"] = worker[w].run
    /\ worker[w].at = "record" => store["manifest"] = worker[w].run
    /\ worker[w].at = "check" /\ ~archive.due =>
          /\ worker[w].seen = archive.checksum /\ archive.checksum # 0
          /\ store["manifest"] = archive.checksum /\ archive.checksum \notin gaps
    /\ worker[w].at = "verified" /\ ~archive.due => Restorable
    /\ worker[w].at \in {"remove", "deleted"} => archive.due
    /\ worker[w].at = "remove" => worker[w].todo # {} /\ Listed \subseteq worker[w].todo
    /\ worker[w].at = "deleted" => Empty

(* The second: the store, as long as creations do not clash.               *)
SInv ==
    ~clash =>
       /\ Alone
       /\ \A w \in Worker : Seen(w)
       /\ retention # "idle" => archive.due
       /\ archive.status \in {"AVAILABLE", "VERIFIED"} /\ ~archive.due => Restorable
       /\ archive.status = "DELETED" => Empty

-----------------------------------------------------------------------------
(* Workers and rows.                                                       *)

(* What a busy worker works on.                                            *)
LEMMA BusyShape ==
    ASSUME OInv, NEW w \in Worker, Busy(w)
    PROVE  /\ worker[w] \in Frame /\ worker[w].op \in Operation
           /\ worker[w].run \in Execution
           /\ worker[w].run \in 1..op[worker[w].op].attempts
           /\ op[worker[w].op] \in Row /\ op[worker[w].op].status # "absent"
<1>1. worker[w] \in Frame /\ worker[w].op # 0
      /\ worker[w].run \in 1..op[worker[w].op].attempts
  BY DEF OInv, TypeOK, Busy
<1>2. worker[w].op \in Operation /\ worker[w].run \in {0} \cup Execution
  BY <1>1 DEF Frame
<1>3. op[worker[w].op] \in Row /\ op[worker[w].op].status # "absent"
  BY <1>2 DEF OInv, TypeOK, Placed
<1>4. worker[w].run # 0
  BY <1>1
<1> QED
  BY <1>1, <1>2, <1>3, <1>4

(* The frame of one worker is replaced.                                    *)
LEMMA FrameShape ==
    ASSUME OInv, NEW w \in Worker, NEW f \in Frame, worker' = [worker EXCEPT ![w] = f]
    PROVE  /\ worker' \in [Worker -> Frame] /\ worker'[w] = f
           /\ \A v \in Worker : v # w => worker'[v] = worker[v]
BY DEF OInv, TypeOK

(* Everything but rows and workers.                                        *)
OtherTypes ==
    /\ archive' \in Archive
    /\ store' \in [Object -> {0} \cup Execution]
    /\ gaps' \subseteq Execution
    /\ retention' \in {"idle", "listed", "marked"}
    /\ clash' \in BOOLEAN
    /\ faults' \in 0..MaxFault

(* A worker with nothing to do.                                            *)
Free(f) == f.op = 0 /\ f.at \in {"idle", "recover", "revive"}

(* A worker takes the next call of its operation, or gives it up.          *)
GoesOn(w, f) ==
    /\ Busy(w) /\ f.op = worker[w].op /\ f.run = worker[w].run
    /\ worker[w].at \notin {"fail", "failArchive"}
    /\ \/ f.at \in {"succeed", "fail"}
       \/ f.at \in Creating /\ worker[w].at \in Creating
       \/ f.at \in Verifying /\ worker[w].at \in Verifying
       \/ f.at \in Deleting /\ worker[w].at \in Deleting

LEMMA WorkerMoves ==
    ASSUME OInv, NEW w \in Worker, NEW f \in Frame,
           worker' = [worker EXCEPT ![w] = f], op' = op, OtherTypes,
           Free(f) \/ GoesOn(w, f)
    PROVE  OInv'
<1>1. /\ worker' \in [Worker -> Frame] /\ worker'[w] = f
      /\ \A v \in Worker : v # w => worker'[v] = worker[v]
  BY FrameShape
<1>2. ASSUME NEW v \in Worker
      PROVE  Placed(v)' /\ (Busy(v)' => worker'[v].run \in 1..op'[worker'[v].op].attempts)
  <2>1. Placed(v) /\ (Busy(v) => worker[v].run \in 1..op[worker[v].op].attempts)
    BY DEF OInv, TypeOK
  <2>2. CASE v # w
    BY <1>1, <2>1, <2>2 DEF Placed, Busy, Type
  <2>3. CASE v = w /\ Free(f)
    BY <1>1, <2>3 DEF Placed, Busy, Type, Free, Creating, Verifying, Deleting, Ending
  <2>4. CASE v = w /\ GoesOn(w, f)
    BY <1>1, <2>1, <2>4 DEF Placed, Busy, Type, GoesOn, Creating, Verifying, Deleting, Ending
  <2> QED
    BY <2>2, <2>3, <2>4
<1>3. ASSUME NEW o \in Operation PROVE Counted(o)' /\ Sole(o)'
  <2>1. Counted(o) /\ Sole(o)
    BY DEF OInv
  <2>2. \A v \in Worker : Executing(v, o)' =>
           /\ Executing(v, o) /\ worker'[v].run = worker[v].run
           /\ worker'[v].at # "fail" => worker[v].at # "fail"
    BY <1>1 DEF Executing, Free, GoesOn, Operation
  <2>3. \A v \in Worker : worker'[v].op = o => worker[v].op = o
    BY <1>1 DEF Free, GoesOn, Operation
  <2> QED
    BY <2>1, <2>2, <2>3 DEF Counted, Sole
<1>4. TypeOK'
  BY <1>1, <1>2 DEF OInv, TypeOK, OtherTypes
<1> QED
  BY <1>2, <1>3, <1>4 DEF OInv

(* One row changes; who changes with it works on it, or is free.           *)
LEMMA RowMoves ==
    ASSUME OInv, NEW o \in Operation, NEW row \in Row, op' = [op EXCEPT ![o] = row],
           OtherTypes, worker' \in [Worker -> Frame],
           row.status # "absent",
           row.status = "PROCESSING" => row.attempts # 0,
           \/ op[o].status = "absent"
           \/ row.type = op[o].type /\ row.attempts >= op[o].attempts,
           \A v \in Worker :
              \/ worker'[v] = worker[v]
              \/ /\ worker'[v].op \in {0, o} /\ Placed(v)'
                 /\ Busy(v)' => worker'[v].run \in 1..row.attempts,
           Sole(o)'
    PROVE  OInv'
<1>1. op' \in [Operation -> Row] /\ op'[o] = row
      /\ \A x \in Operation : x # o => op'[x] = op[x]
  BY DEF OInv, TypeOK
<1>2. ASSUME NEW v \in Worker
      PROVE  Placed(v)' /\ (Busy(v)' => worker'[v].run \in 1..op'[worker'[v].op].attempts)
  <2>1. Placed(v) /\ (Busy(v) => worker[v].op \in Operation
                              /\ worker[v].run \in 1..op[worker[v].op].attempts
                              /\ op[worker[v].op].status # "absent"
                              /\ op[worker[v].op] \in Row)
    BY BusyShape DEF OInv
  <2>2. CASE worker'[v] = worker[v]
    <3>1. CASE ~Busy(v)
      BY <2>1, <2>2, <3>1 DEF Placed, Busy, Creating, Verifying, Deleting, Ending
    <3>2. CASE Busy(v)
      <4>1. op'[worker[v].op].type = op[worker[v].op].type
            /\ op'[worker[v].op].status # "absent"
            /\ op'[worker[v].op].attempts >= op[worker[v].op].attempts
        BY <1>1, <2>1, <3>2 DEF Row, Execution
      <4>2. worker[v].run \in 1..op'[worker[v].op].attempts
        BY <1>1, <2>1, <3>2, <4>1 DEF Row, Execution
      <4> QED
        BY <2>1, <2>2, <3>2, <4>1, <4>2 DEF Placed, Busy, Type
    <3> QED
      BY <3>1, <3>2
  <2>3. CASE worker'[v] # worker[v]
    BY <1>1, <2>3 DEF Busy
  <2> QED
    BY <2>2, <2>3
<1>3. ASSUME NEW x \in Operation PROVE Counted(x)' /\ Sole(x)'
  <2>1. CASE x = o
    BY <1>1, <2>1 DEF Counted
  <2>2. CASE x # o
    <3>1. \A v \in Worker : worker'[v].op = x => worker'[v] = worker[v]
      BY <2>2 DEF Operation
    <3> QED
      BY <1>1, <2>2, <3>1 DEF OInv, Counted, Sole, Executing
  <2> QED
    BY <2>1, <2>2
<1>4. TypeOK'
  BY <1>1, <1>2 DEF OInv, TypeOK, OtherTypes
<1> QED
  BY <1>2, <1>3, <1>4 DEF OInv

-----------------------------------------------------------------------------
(* The calls of a worker.                                                  *)

LEMMA InitOInv == ASSUME Init PROVE OInv
<1> USE BackupsAssumption
<1>1. TypeOK
  <2>1. archive \in Archive /\ store \in [Object -> {0} \cup Execution]
        /\ gaps \subseteq Execution /\ retention \in {"idle", "listed", "marked"}
        /\ clash \in BOOLEAN
    BY DEF Init, Archive
  <2>0. faults \in 0..MaxFault
    BY DEF Init
  <2>2. op \in [Operation -> Row]
    BY DEF Init, Row, NoRow, Waiting, Final
  <2>3. Started \in Frame /\ Started.op = 0
    BY DEF Started, Idle, Frame, Code
  <2> QED
    BY <2>0, <2>1, <2>2, <2>3 DEF Init, TypeOK, Busy
<1>2. ASSUME NEW w \in Worker PROVE Placed(w)
  BY DEF Init, Placed, Busy, Started, Idle, Creating, Verifying, Deleting, Ending
<1>3. ASSUME NEW o \in Operation PROVE Counted(o) /\ Sole(o)
  BY DEF Init, Counted, Sole, Executing, Started, Idle, NoRow, Operation
<1> QED
  BY <1>1, <1>2, <1>3 DEF OInv

(* An operation is given up.                                               *)
LEMMA ThrowMoves ==
    ASSUME OInv, NEW w \in Worker, Busy(w), worker[w].at \notin {"fail", "failArchive"},
           NEW code \in Code, Throw(w, code), op' = op, OtherTypes
    PROVE  OInv'
<1> DEFINE f == [Idle EXCEPT !.at = "fail", !.op = worker[w].op,
                             !.run = worker[w].run, !.code = code]
<1>1. f \in Frame /\ GoesOn(w, f)
  BY BusyShape DEF Idle, Frame, GoesOn, Code
<1>2. worker' = [worker EXCEPT ![w] = f]
  BY DEF Throw
<1> HIDE DEF f
<1> QED
  BY <1>1, <1>2, WorkerMoves

(* It goes on.                                                             *)
LEMMA GotoMoves ==
    ASSUME OInv, NEW w \in Worker, Busy(w), NEW at, Goto(w, at), op' = op, OtherTypes,
           \/ worker[w].at \in Creating /\ at \in {"upload", "manifest", "record", "succeed"}
           \/ worker[w].at = "verified" /\ at = "succeed"
           \/ worker[w].at = "deleted" /\ at = "succeed"
    PROVE  OInv'
<1>1. PICK f : f = [worker[w] EXCEPT !.at = at]
  OBVIOUS
<1>2. worker[w] \in Frame
  BY DEF OInv, TypeOK
<1>3. f \in Frame
  BY <1>1, <1>2 DEF Frame
<1>4. GoesOn(w, f)
  BY <1>1, <1>2 DEF Frame, GoesOn, Creating
<1>5. worker' = [worker EXCEPT ![w] = f]
  BY <1>1 DEF Goto
<1> QED
  BY <1>3, <1>4, <1>5, WorkerMoves

(* A worker is free again.                                                 *)
LEMMA ReleaseMoves ==
    ASSUME OInv, NEW w \in Worker, op' = op, OtherTypes,
           \/ worker' = [worker EXCEPT ![w] = Idle]
           \/ worker' = [worker EXCEPT ![w] = Started]
    PROVE  OInv'
<1>1. Idle \in Frame /\ Started \in Frame /\ Free(Idle) /\ Free(Started)
  BY DEF Idle, Started, Frame, Code, Free
<1> QED
  BY <1>1, WorkerMoves

(* At a call a worker is busy.                                             *)
LEMMA AtCall ==
    ASSUME OInv, NEW w \in Worker,
           worker[w].at \in Creating \cup Verifying \cup Deleting \cup Ending
    PROVE  Busy(w)
BY DEF OInv, Placed

-----------------------------------------------------------------------------
LEMMA OBegin == ASSUME OInv, NEW w \in Worker, Begin(w) PROVE OInv'
<1>1. Busy(w) /\ worker[w].at \in Creating
  BY AtCall DEF Begin, Creating
<1>2. OtherTypes /\ op' = op /\ Goto(w, "upload")
  BY DEF Begin, OInv, TypeOK, OtherTypes, Archive, Rest
<1> QED
  BY <1>1, <1>2, GotoMoves

LEMMA OUpload == ASSUME OInv, NEW w \in Worker, Upload(w) PROVE OInv'
<1>1. Busy(w) /\ worker[w].at \in Creating
  BY AtCall DEF Upload, Creating
<1>2. OtherTypes /\ op' = op /\ Goto(w, "manifest")
  BY <1>1, BusyShape DEF Upload, Put, OInv, TypeOK, OtherTypes, Rest
<1> QED
  BY <1>1, <1>2, GotoMoves

LEMMA OPutManifest == ASSUME OInv, NEW w \in Worker, PutManifest(w) PROVE OInv'
<1>1. Busy(w) /\ worker[w].at \in Creating
  BY AtCall DEF PutManifest, Creating
<1>2. OtherTypes /\ op' = op /\ Goto(w, "record")
  BY <1>1, BusyShape DEF PutManifest, Put, OInv, TypeOK, OtherTypes
<1> QED
  BY <1>1, <1>2, GotoMoves

LEMMA ORecord == ASSUME OInv, NEW w \in Worker, Record(w) PROVE OInv'
<1>1. Busy(w) /\ worker[w].at \in Creating /\ worker[w].at = "record"
  BY AtCall DEF Record, Creating
<1>2. OtherTypes /\ op' = op
  BY <1>1, BusyShape DEF Record, OInv, TypeOK, OtherTypes, Archive, Rest
<1>3. CASE worker[w].run \in gaps
  BY <1>1, <1>2, <1>3, ThrowMoves DEF Record, Code
<1>4. CASE worker[w].run \notin gaps
  BY <1>1, <1>2, <1>4, GotoMoves DEF Record
<1> QED
  BY <1>3, <1>4

LEMMA OLoad == ASSUME OInv, NEW w \in Worker, Load(w) PROVE OInv'
<1>1. Busy(w) /\ worker[w].at = "load"
  BY AtCall DEF Load, Verifying
<1>2. OtherTypes /\ op' = op
  BY DEF Load, OInv, TypeOK, OtherTypes, Rest
<1>3. CASE \E code \in Code : Throw(w, code)
  BY <1>1, <1>2, <1>3, ThrowMoves
<1>4. CASE worker' = [worker EXCEPT ![w] = [worker[w] EXCEPT !.at = "check",
                                                             !.seen = archive.checksum]]
  <2>1. PICK f : f = [worker[w] EXCEPT !.at = "check", !.seen = archive.checksum]
    OBVIOUS
  <2>2. worker[w] \in Frame /\ archive.checksum \in {0} \cup Execution
    BY DEF OInv, TypeOK, Archive
  <2>3. f \in Frame
    BY <2>1, <2>2 DEF Frame
  <2>4. GoesOn(w, f)
    BY <1>1, <2>1, <2>2 DEF Frame, GoesOn, Verifying
  <2> QED
    BY <1>2, <1>4, <2>1, <2>3, <2>4, WorkerMoves
<1> QED
  BY <1>3, <1>4 DEF Load, Code

LEMMA OCheck == ASSUME OInv, NEW w \in Worker, Check(w) PROVE OInv'
<1>1. Busy(w) /\ worker[w].at = "check"
  BY AtCall DEF Check, Verifying
<1>2. OtherTypes /\ op' = op
  BY DEF Check, OInv, TypeOK, OtherTypes, Rest
<1>3. CASE \E code \in Code : Throw(w, code)
  BY <1>1, <1>2, <1>3, ThrowMoves
<1>4. CASE worker' = [worker EXCEPT ![w] = [worker[w] EXCEPT !.at = "verified", !.seen = 0]]
  <2>1. PICK f : f = [worker[w] EXCEPT !.at = "verified", !.seen = 0]
    OBVIOUS
  <2>2. worker[w] \in Frame
    BY DEF OInv, TypeOK
  <2>3. f \in Frame
    BY <2>1, <2>2 DEF Frame
  <2>4. GoesOn(w, f)
    BY <1>1, <2>1, <2>2 DEF Frame, GoesOn, Verifying
  <2> QED
    BY <1>2, <1>4, <2>1, <2>3, <2>4, WorkerMoves
<1> QED
  BY <1>3, <1>4 DEF Check, Code

LEMMA OVerified == ASSUME OInv, NEW w \in Worker, Verified(w) PROVE OInv'
<1>1. Busy(w) /\ worker[w].at = "verified"
  BY AtCall DEF Verified, Verifying
<1>2. OtherTypes /\ op' = op /\ Goto(w, "succeed")
  BY DEF Verified, OInv, TypeOK, OtherTypes, Archive, Rest
<1> QED
  BY <1>1, <1>2, GotoMoves

(* The next of the objects to delete.                                      *)
LEMMA RemoveMoves ==
    ASSUME OInv, NEW w \in Worker, worker[w].at \in {"delete", "remove"},
           NEW todo \in SUBSET Object, RemoveNext(w, todo), op' = op, OtherTypes
    PROVE  OInv'
<1>1. Busy(w)
  BY AtCall DEF Deleting
<1>2. PICK f : f = [worker[w] EXCEPT !.todo = todo,
                       !.at = IF todo = {} THEN "deleted" ELSE "remove"]
  OBVIOUS
<1>3. worker[w] \in Frame
  BY DEF OInv, TypeOK
<1>4. f \in Frame
  BY <1>2, <1>3 DEF Frame
<1>5. GoesOn(w, f)
  BY <1>1, <1>2, <1>3 DEF Frame, GoesOn, Deleting
<1>6. worker' = [worker EXCEPT ![w] = f]
  BY <1>2 DEF RemoveNext
<1> QED
  BY <1>4, <1>5, <1>6, WorkerMoves

LEMMA ODelete == ASSUME OInv, NEW w \in Worker, Delete(w) PROVE OInv'
<1>1. Busy(w) /\ worker[w].at = "delete"
  BY AtCall DEF Delete, Deleting
<1>2. OtherTypes /\ op' = op
  BY DEF Delete, OInv, TypeOK, OtherTypes, Rest
<1>3. CASE archive.due
  BY <1>1, <1>2, <1>3, RemoveMoves DEF Delete, Listed
<1>4. CASE ~archive.due
  BY <1>1, <1>2, <1>4, ThrowMoves DEF Delete, Code
<1> QED
  BY <1>3, <1>4

LEMMA ORemove == ASSUME OInv, NEW w \in Worker, Remove(w) PROVE OInv'
<1>1. PICK k \in Object : store' = [store EXCEPT ![k] = 0]
                          /\ RemoveNext(w, worker[w].todo \ {k})
  BY DEF Remove, Object
<1>2. worker[w].todo \in SUBSET Object
  BY DEF OInv, TypeOK, Frame
<1>3. OtherTypes /\ op' = op
  BY <1>1 DEF Remove, OInv, TypeOK, OtherTypes, Rest
<1> QED
  BY <1>1, <1>2, <1>3, RemoveMoves DEF Remove

LEMMA ODeleted == ASSUME OInv, NEW w \in Worker, Deleted(w) PROVE OInv'
<1>1. Busy(w) /\ worker[w].at = "deleted"
  BY AtCall DEF Deleted, Deleting
<1>2. OtherTypes /\ op' = op /\ Goto(w, "succeed")
  BY DEF Deleted, OInv, TypeOK, OtherTypes, Archive, Rest
<1> QED
  BY <1>1, <1>2, GotoMoves

LEMMA OFailArchive == ASSUME OInv, NEW w \in Worker, FailArchive(w) PROVE OInv'
<1>1. OtherTypes /\ op' = op
  BY DEF FailArchive, OInv, TypeOK, OtherTypes, Archive, Rest
<1> QED
  BY <1>1, ReleaseMoves DEF FailArchive

LEMMA OFaults ==
    ASSUME OInv, NEW w \in Worker, CallThrows(w) \/ CatchThrows(w) \/ Crash(w)
    PROVE  OInv'
<1>1. OtherTypes /\ op' = op
  BY BackupsAssumption
     DEF CallThrows, CatchThrows, Crash, Fault, OInv, TypeOK, OtherTypes
<1>2. CASE CallThrows(w)
  <2>1. Busy(w) /\ worker[w].at \notin {"fail", "failArchive"}
    BY <1>2, AtCall DEF CallThrows, Creating, Verifying, Deleting, Ending
  <2> QED
    BY <1>1, <1>2, <2>1, ThrowMoves DEF CallThrows, Code
<1>3. CASE CatchThrows(w) \/ Crash(w)
  BY <1>1, <1>3, ReleaseMoves DEF CatchThrows, Crash
<1> QED
  BY <1>2, <1>3

(* The next of the abandoned rows.                                         *)
LEMMA ReviveShape ==
    ASSUME OInv, NEW w \in Worker, worker[w].at \in {"recover", "revive"},
           NEW found \in SUBSET (Operation \X Execution), ReviveNext(w, found)
    PROVE  \E f \in Frame : Free(f) /\ worker' = [worker EXCEPT ![w] = f]
<1>1. PICK f : f = [worker[w] EXCEPT !.found = found,
                       !.at = IF found = {} THEN "idle" ELSE "revive"]
  OBVIOUS
<1>2. worker[w] \in Frame /\ worker[w].op = 0
  BY DEF OInv, TypeOK, Placed, Busy, Creating, Verifying, Deleting, Ending
<1>3. f \in Frame
  BY <1>1, <1>2 DEF Frame
<1>4. Free(f)
  BY <1>1, <1>2 DEF Frame, Free
<1> QED
  BY <1>1, <1>3, <1>4 DEF ReviveNext

LEMMA ORecover == ASSUME OInv, NEW w \in Worker, Recover(w) PROVE OInv'
<1>1. OtherTypes /\ op' = op
  BY DEF Recover, OInv, TypeOK, OtherTypes, Rest
<1>2. {<<o, op[o].attempts>> : o \in {x \in Operation : Abandoned(x)}}
         \in SUBSET (Operation \X Execution)
  BY DEF OInv, TypeOK, Counted, Abandoned, Row
<1>3. PICK f \in Frame : Free(f) /\ worker' = [worker EXCEPT ![w] = f]
  BY <1>2, ReviveShape DEF Recover
<1> QED
  BY <1>1, <1>3, WorkerMoves

-----------------------------------------------------------------------------
(* The steps that change a row.                                            *)

LEMMA OQueue ==
    ASSUME OInv, NEW type \in {"VERIFY", "DELETE"}, Queue(type), worker' = worker, OtherTypes
    PROVE  OInv'
<1> DEFINE row == [NoRow EXCEPT !.status = "PENDING", !.type = type]
<1>1. PICK o \in Operation : op[o].status = "absent" /\ op' = [op EXCEPT ![o] = row]
  BY DEF Queue, Requested
<1>2. row \in Row /\ row.status = "PENDING"
  BY DEF Row, NoRow, Waiting
<1>3. \A v \in Worker : worker[v].op # o
  BY <1>1, BusyShape DEF Busy, Operation
<1>4. Sole(o)'
  BY <1>3 DEF Sole, Executing
<1>5. worker' \in [Worker -> Frame]
  BY DEF OInv, TypeOK
<1> HIDE DEF row
<1> QED
  BY <1>1, <1>2, <1>4, <1>5, RowMoves

LEMMA ORequest == ASSUME OInv, requestBackupOperation PROVE OInv'
<1>1. OtherTypes
  BY DEF requestBackupOperation, OInv, TypeOK, OtherTypes, Rest
<1> QED
  BY <1>1, OQueue DEF requestBackupOperation

LEMMA OSame == ASSUME OInv, op' = op, worker' = worker, OtherTypes PROVE OInv'
<1>1. TypeOK'
  BY DEF OInv, TypeOK, OtherTypes, Busy
<1>2. ASSUME NEW w \in Worker PROVE Placed(w)'
  BY DEF OInv, Placed, Busy, Type
<1>3. ASSUME NEW o \in Operation PROVE Counted(o)' /\ Sole(o)'
  BY DEF OInv, Counted, Sole, Executing
<1> QED
  BY <1>1, <1>2, <1>3 DEF OInv

LEMMA OExpire == ASSUME OInv, Expire PROVE OInv'
<1>1. OtherTypes
  BY DEF Expire, OInv, TypeOK, OtherTypes, Archive, Rest
<1> QED
  BY <1>1, OSame DEF Expire

LEMMA ORetention == ASSUME OInv, backupRetention PROVE OInv'
<1>1. OtherTypes
  <2>1. archive' \in Archive
    BY DEF backupRetention, OInv, TypeOK, Archive
  <2>2. faults' \in 0..MaxFault
    BY BackupsAssumption DEF backupRetention, OInv, TypeOK, Fault
  <2>3. retention' \in {"idle", "listed", "marked"}
    BY DEF backupRetention
  <2> QED
    BY <2>1, <2>2, <2>3 DEF backupRetention, OInv, TypeOK, OtherTypes
<1>2. CASE op' = op
  BY <1>1, <1>2, OSame DEF backupRetention
<1>3. CASE Queue("DELETE")
  BY <1>1, <1>3, OQueue DEF backupRetention
<1> QED
  BY <1>2, <1>3 DEF backupRetention

LEMMA OHourPasses == ASSUME OInv, NEW o \in Operation, HourPasses(o) PROVE OInv'
<1> DEFINE row == [op[o] EXCEPT !.old = TRUE,
                     !.disputed = op[o].disputed \/ \E w \in Worker : worker[w].op = o]
<1>1. op[o] \in Row /\ op[o].status = "PROCESSING" /\ op[o].attempts # 0 /\ Sole(o)
  BY DEF OInv, TypeOK, Counted, HourPasses
<1>2. row \in Row /\ row.status = "PROCESSING" /\ row.type = op[o].type
      /\ row.attempts = op[o].attempts
      /\ (~row.disputed => \A w \in Worker : worker[w].op # o)
  BY <1>1 DEF Row
<1>3. op' = [op EXCEPT ![o] = row] /\ worker' = worker
  BY DEF HourPasses
<1>4. op'[o] = row
  BY <1>3 DEF OInv, TypeOK
<1> HIDE DEF row
<1>5. Sole(o)'
  BY <1>2, <1>3, <1>4 DEF Sole, Executing
<1>6. worker' \in [Worker -> Frame] /\ OtherTypes
  BY <1>3 DEF HourPasses, OInv, TypeOK, OtherTypes, Rest
<1>7. row.attempts >= op[o].attempts
  BY <1>1, <1>2 DEF Row, Execution
<1> QED
  BY <1>1, <1>2, <1>3, <1>5, <1>6, <1>7, RowMoves

(* The row of a worker is settled, and the worker reports or is free.      *)
LEMMA SettledMoves ==
    ASSUME OInv, NEW w \in Worker, worker[w].at \in {"succeed", "fail"},
           NEW status \in {"SUCCEEDED", "FAILED", "RETRYING"}, NEW f \in Frame,
           op' = Settled(worker[w].op, status),
           worker' = [worker EXCEPT ![w] = f],
           \/ Free(f)
           \/ /\ f.op = worker[w].op /\ f.run = worker[w].run
              /\ \/ f.at = "failArchive"
                 \/ f.at = "fail" /\ status = "SUCCEEDED" /\ worker[w].at = "succeed",
           OtherTypes
    PROVE  OInv'
<1>1. PICK o \in Operation : o = worker[w].op
  BY AtCall, BusyShape DEF Ending
<1>2. PICK row : row = [op[o] EXCEPT !.status = status, !.old = FALSE]
  OBVIOUS
<1>3. /\ op[o] \in Row /\ op[o].status # "absent" /\ Sole(o) /\ o # 0
      /\ worker[w].run \in 1..op[o].attempts
  BY <1>1, AtCall, BusyShape DEF Ending, OInv, Operation
<1>4. /\ row \in Row /\ row.status = status /\ row.type = op[o].type
      /\ row.attempts = op[o].attempts /\ ~row.old /\ row.disputed = op[o].disputed
  BY <1>2, <1>3 DEF Row, Waiting, Final
<1>5. op' = [op EXCEPT ![o] = row]
  BY <1>1, <1>2 DEF Settled
<1>6. op'[o] = row
  BY <1>5 DEF OInv, TypeOK
<1>7. /\ worker' \in [Worker -> Frame] /\ worker'[w] = f
      /\ \A v \in Worker : v # w => worker'[v] = worker[v]
  BY FrameShape
<1>8. Sole(o)'
  <2> SUFFICES ASSUME ~row.disputed PROVE Sole(o)'
    BY <1>6 DEF Sole
  <2>1. \A v \in Worker : Executing(v, o)' => v = w /\ f.at = "fail"
    BY <1>1, <1>3, <1>4, <1>7 DEF Sole, Executing, Free
  <2>2. Executing(w, o)' => status = "SUCCEEDED" /\ f.run = op[o].attempts
    BY <1>1, <1>3, <1>4, <1>7 DEF Sole, Executing, Free
  <2> QED
    BY <1>4, <1>6, <1>7, <2>1, <2>2 DEF Sole
<1>9. Placed(w)' /\ (Busy(w)' => f.run \in 1..row.attempts) /\ f.op \in {0, o}
  BY <1>1, <1>3, <1>4, <1>6, <1>7
     DEF Placed, Busy, Type, Free, Creating, Verifying, Deleting, Ending
<1>10. row.attempts >= op[o].attempts
  BY <1>3, <1>4 DEF Row, Execution
<1> QED
  BY <1>4, <1>5, <1>7, <1>8, <1>9, <1>10, RowMoves

LEMMA OSucceed == ASSUME OInv, NEW w \in Worker, Succeed(w) PROVE OInv'
<1>1. OtherTypes /\ worker[w].at = "succeed" /\ op' = Settled(worker[w].op, "SUCCEEDED")
  BY DEF Succeed, OInv, TypeOK, OtherTypes, Rest
<1>2. CASE worker' = [worker EXCEPT ![w] = Idle]
  <2>1. Idle \in Frame /\ Free(Idle)
    BY DEF Idle, Frame, Code, Free
  <2> QED
    BY <1>1, <1>2, <2>1, SettledMoves
<1>3. CASE Throw(w, "RETRYABLE")
  <2>1. PICK f : f = [Idle EXCEPT !.at = "fail", !.op = worker[w].op,
                                  !.run = worker[w].run, !.code = "RETRYABLE"]
    OBVIOUS
  <2>2. f \in Frame /\ f.at = "fail" /\ f.op = worker[w].op /\ f.run = worker[w].run
    BY <1>1, <2>1, AtCall, BusyShape DEF Idle, Frame, Code, Ending
  <2>3. worker' = [worker EXCEPT ![w] = f]
    BY <1>3, <2>1 DEF Throw
  <2> QED
    BY <1>1, <2>2, <2>3, SettledMoves
<1> QED
  BY <1>2, <1>3 DEF Succeed

LEMMA OFail == ASSUME OInv, NEW w \in Worker, Fail(w) PROVE OInv'
<1>1. OtherTypes /\ worker[w].at = "fail"
  BY DEF Fail, OInv, TypeOK, OtherTypes, Rest
<1>2. PICK status \in {"FAILED", "RETRYING"} : op' = Settled(worker[w].op, status)
  BY DEF Fail
<1>3. CASE worker' = [worker EXCEPT ![w] = Idle]
  <2>1. Idle \in Frame /\ Free(Idle)
    BY DEF Idle, Frame, Code, Free
  <2> QED
    BY <1>1, <1>2, <1>3, <2>1, SettledMoves
<1>4. CASE Goto(w, "failArchive")
  <2>1. PICK f : f = [worker[w] EXCEPT !.at = "failArchive"]
    OBVIOUS
  <2>2. worker[w] \in Frame
    BY DEF OInv, TypeOK
  <2>3. f \in Frame /\ f.at = "failArchive" /\ f.op = worker[w].op /\ f.run = worker[w].run
    BY <2>1, <2>2 DEF Frame
  <2>4. worker' = [worker EXCEPT ![w] = f]
    BY <1>4, <2>1 DEF Goto
  <2> QED
    BY <1>1, <1>2, <2>3, <2>4, SettledMoves
<1> QED
  BY <1>3, <1>4 DEF Fail

LEMMA OClaim == ASSUME OInv, NEW w \in Worker, claimBackupOperation(w) PROVE OInv'
<1>1. PICK o \in Operation :
         /\ Due(o)
         /\ op' = [op EXCEPT ![o].status = "PROCESSING",
                             ![o].attempts = @ + 1, ![o].old = FALSE]
         /\ worker' = [worker EXCEPT ![w] = [Idle EXCEPT !.at = First(o),
                             !.op = o, !.run = op[o].attempts + 1]]
         /\ clash' = (clash \/ \E v \in Worker : Busy(v)
                        /\ "CREATE" \in {op[o].type, Type(v)})
  BY DEF claimBackupOperation
<1>2. PICK row : row = [op[o] EXCEPT !.status = "PROCESSING",
                           !.attempts = op[o].attempts + 1, !.old = FALSE]
  OBVIOUS
<1>3. PICK f : f = [Idle EXCEPT !.at = First(o), !.op = o, !.run = op[o].attempts + 1]
  OBVIOUS
<1>4. op[o] \in Row /\ op[o].status \in Waiting /\ op[o].attempts < MaxRuns /\ Sole(o)
      /\ o # 0
  BY <1>1 DEF OInv, TypeOK, Due, Operation
<1>5. op[o].attempts + 1 \in Execution /\ op[o].attempts \in Nat
  BY <1>4, BackupsAssumption DEF Row, Execution
<1>6. /\ row \in Row /\ row.status = "PROCESSING" /\ row.type = op[o].type
      /\ row.attempts = op[o].attempts + 1 /\ ~row.old
      /\ row.disputed = op[o].disputed
  BY <1>2, <1>4, <1>5 DEF Row
<1>7. /\ First(o) \in {"begin", "load", "delete"}
      /\ First(o) = "begin" => row.type = "CREATE"
      /\ First(o) = "load" => row.type = "VERIFY"
      /\ First(o) = "delete" => row.type = "DELETE"
  BY <1>4, <1>6 DEF First, Row
<1>8. f \in Frame /\ f.at = First(o) /\ f.op = o /\ f.run = op[o].attempts + 1
  BY <1>3, <1>5, <1>7 DEF Frame, Idle, Code
<1>9. op' = [op EXCEPT ![o] = row] /\ worker' = [worker EXCEPT ![w] = f]
  BY <1>1, <1>2, <1>3
<1>10. op'[o] = row
  BY <1>9 DEF OInv, TypeOK
<1>11. /\ worker' \in [Worker -> Frame] /\ worker'[w] = f
       /\ \A v \in Worker : v # w => worker'[v] = worker[v]
  BY <1>8, <1>9, FrameShape
<1>12. Sole(o)'
  <2> SUFFICES ASSUME ~row.disputed PROVE Sole(o)'
    BY <1>10 DEF Sole
  <2>1. \A v \in Worker : ~Executing(v, o)
    BY <1>4, <1>6 DEF Sole, Waiting
  <2>2. \A v \in Worker : Executing(v, o)' => v = w
    BY <1>11, <2>1 DEF Executing
  <2> QED
    BY <1>6, <1>8, <1>10, <1>11, <2>2 DEF Sole
<1>13. Placed(w)'
  BY <1>4, <1>6, <1>7, <1>8, <1>10, <1>11
     DEF Placed, Busy, Type, Creating, Verifying, Deleting, Ending
<1>14. f.run \in 1..row.attempts /\ row.attempts # 0 /\ row.attempts >= op[o].attempts
  BY <1>5, <1>6, <1>8
<1>15. OtherTypes
  BY <1>1 DEF claimBackupOperation, OInv, TypeOK, OtherTypes
<1> QED
  BY <1>6, <1>8, <1>9, <1>11, <1>12, <1>13, <1>14, <1>15, RowMoves

LEMMA ORevive == ASSUME OInv, NEW w \in Worker, Revive(w) PROVE OInv'
<1>1. PICK e \in worker[w].found :
         /\ op' = [op EXCEPT ![e[1]] = [@ EXCEPT
              !.status = IF e[2] >= MaxAttempts THEN "FAILED" ELSE "RETRYING",
              !.old = FALSE,
              !.disputed = \/ op[e[1]].disputed \/ ~Abandoned(e[1])
                           \/ e[2] # op[e[1]].attempts]]
         /\ ReviveNext(w, worker[w].found \ {e})
  BY DEF Revive
<1>2. worker[w].found \subseteq Operation \X Execution /\ worker[w].at = "revive"
  BY DEF OInv, TypeOK, Frame, Revive
<1>3. PICK o \in Operation : o = e[1]
  BY <1>1, <1>2
<1>4. PICK row : row = [op[o] EXCEPT
              !.status = IF e[2] >= MaxAttempts THEN "FAILED" ELSE "RETRYING",
              !.old = FALSE,
              !.disputed = op[o].disputed \/ ~Abandoned(o) \/ e[2] # op[o].attempts]
  OBVIOUS
<1>5. op[o] \in Row /\ Sole(o) /\ o # 0
  BY DEF OInv, TypeOK, Operation
<1>6. /\ row \in Row /\ row.status \in {"FAILED", "RETRYING"} /\ row.type = op[o].type
      /\ row.attempts = op[o].attempts /\ ~row.old
      /\ ~row.disputed => ~op[o].disputed /\ Abandoned(o)
  BY <1>4, <1>5 DEF Row, Waiting, Final
<1>7. op' = [op EXCEPT ![o] = row]
  BY <1>1, <1>3, <1>4
<1>8. op'[o] = row
  BY <1>7 DEF OInv, TypeOK
<1>9. PICK f \in Frame : Free(f) /\ worker' = [worker EXCEPT ![w] = f]
  BY <1>1, <1>2, ReviveShape
<1>10. /\ worker' \in [Worker -> Frame] /\ worker'[w] = f
       /\ \A v \in Worker : v # w => worker'[v] = worker[v]
  BY <1>9, FrameShape
<1>11. Sole(o)'
  <2> SUFFICES ASSUME ~row.disputed PROVE Sole(o)'
    BY <1>8 DEF Sole
  <2>1. \A v \in Worker : worker[v].op # o
    BY <1>5, <1>6 DEF Sole, Abandoned
  <2>2. \A v \in Worker : worker'[v].op # o
    BY <1>5, <1>9, <1>10, <2>1 DEF Free
  <2> QED
    BY <2>2 DEF Sole, Executing
<1>12. Placed(w)' /\ worker'[w].op = 0 /\ ~Busy(w)'
  BY <1>9, <1>10 DEF Placed, Busy, Type, Free, Creating, Verifying, Deleting, Ending
<1>13. OtherTypes
  BY DEF Revive, OInv, TypeOK, OtherTypes, Rest
<1>14. row.attempts >= op[o].attempts
  BY <1>5, <1>6 DEF Row, Execution
<1> QED
  BY <1>6, <1>7, <1>10, <1>11, <1>12, <1>13, <1>14, RowMoves

-----------------------------------------------------------------------------
LEMMA OSteps == ASSUME OInv, [Next]_vars PROVE OInv'
<1>1. ASSUME NEW w \in Worker, Execute(w) PROVE OInv'
  BY <1>1, OBegin, OUpload, OPutManifest, ORecord, OLoad, OCheck, OVerified, ODelete,
     ORemove, ODeleted, OSucceed, OFail, OFailArchive DEF Execute
<1>2. CASE \E w \in Worker : Work(w) \/ CallThrows(w) \/ CatchThrows(w) \/ Crash(w)
  BY <1>1, <1>2, OClaim, ORecover, ORevive, OFaults DEF Work
<1>3. CASE \E o \in Operation : HourPasses(o)
  BY <1>3, OHourPasses
<1>4. CASE requestBackupOperation \/ Expire \/ backupRetention
  BY <1>4, ORequest, OExpire, ORetention
<1>5. CASE UNCHANGED vars
  <2>1. OtherTypes
    BY <1>5 DEF vars, OInv, TypeOK, OtherTypes
  <2> QED
    BY <1>5, <2>1, OSame DEF vars
<1> QED
  BY <1>2, <1>3, <1>4, <1>5 DEF Next

(* What the operations rest on holds in every state.                       *)
THEOREM OperationInvariant == Spec => []OInv
<1>1. Init => OInv
  BY InitOInv
<1>2. OInv /\ [Next]_vars => OInv'
  BY OSteps
<1> QED
  BY <1>1, <1>2, PTL DEF Spec

(* The variables have their types.                                         *)
THEOREM TypesHold == Spec => []TypeOK
<1>1. OInv => TypeOK
  BY DEF OInv
<1> QED
  BY <1>1, OperationInvariant, PTL

(* An operation that nobody disputes is in the hands of one worker, whose  *)
(* claim is the last, through crashes, recoveries and retries.             *)
THEOREM OperationsAreExclusive == Spec => []UndisputedOperationsAreExclusive
<1>1. OInv => UndisputedOperationsAreExclusive
  BY DEF OInv, Sole, UndisputedOperationsAreExclusive
<1> QED
  BY <1>1, OperationInvariant, PTL

-----------------------------------------------------------------------------
(* The store, step by step, while creations do not clash.                  *)

Watched == {"upload", "manifest", "record", "check", "verified", "remove", "deleted"}

(* No worker takes an operation, and no operation changes its type.        *)
Kept ==
    /\ \A v \in Worker : worker'[v].op \in {0, worker[v].op}
    /\ \A o \in Operation : op[o].status # "absent" => op'[o].type = op[o].type

LEMMA AloneKept == ASSUME OInv, Alone, Kept PROVE Alone'
<1> SUFFICES ASSUME NEW v \in Worker, NEW w \in Worker, v # w, Busy(v)', Busy(w)'
             PROVE  Type(v)' # "CREATE"
  BY DEF Alone
<1>1. Busy(v) /\ Busy(w) /\ worker'[v].op = worker[v].op
  BY DEF Kept, Busy
<1>2. Type(v)' = Type(v)
  BY <1>1, BusyShape DEF Kept, Type
<1> QED
  BY <1>1, <1>2 DEF Alone

LEMMA OnlyOneMoves ==
    ASSUME OInv, NEW w \in Worker, NEW f, worker' = [worker EXCEPT ![w] = f]
    PROVE  worker'[w] = f /\ \A v \in Worker : v # w => worker'[v] = worker[v]
BY DEF OInv, TypeOK

(* Beside a creation nobody is busy.                                       *)
LEMMA Lonely ==
    ASSUME OInv, Alone, NEW w \in Worker, worker[w].at \in Creating
    PROVE  \A v \in Worker : v # w => ~Busy(v) /\ worker[v].at \notin Watched
BY DEF OInv, Placed, Alone, Creating, Verifying, Deleting, Ending, Watched

(* Beside another operation nobody creates.                                *)
LEMMA NobodyCreates ==
    ASSUME OInv, Alone, NEW w \in Worker, Busy(w), worker[w].at \notin Creating
    PROVE  \A v \in Worker : worker[v].at \notin Creating
BY DEF OInv, Placed, Alone

(* Steps that leave the archive, its objects and the watched workers.      *)
LEMMA QuietStep ==
    ASSUME OInv, SInv, Kept,
           UNCHANGED <<archive, store, gaps, retention, clash>>,
           \A v \in Worker : worker'[v] = worker[v] \/ worker'[v].at \notin Watched
    PROVE  SInv'
<1> SUFFICES ASSUME ~clash PROVE SInv'
  BY DEF SInv
<1>1. Alone'
  BY AloneKept DEF SInv
<1>2. ASSUME NEW v \in Worker PROVE Seen(v)'
  <2>1. CASE worker'[v] = worker[v]
    BY <2>1 DEF SInv, Seen, Restorable, Empty, Listed
  <2>2. CASE worker'[v].at \notin Watched
    BY <2>2 DEF Seen, Watched
  <2> QED
    BY <2>1, <2>2
<1> QED
  BY <1>1, <1>2 DEF SInv, Restorable, Empty

LEMMA ThrowQuiet ==
    ASSUME OInv, SInv, NEW w \in Worker, NEW code, Throw(w, code), op' = op,
           UNCHANGED <<archive, store, gaps, retention, clash>>
    PROVE  SInv'
<1>1. PICK f : /\ f = [Idle EXCEPT !.at = "fail", !.op = worker[w].op,
                                   !.run = worker[w].run, !.code = code]
               /\ worker' = [worker EXCEPT ![w] = f]
  BY DEF Throw
<1>2. f.at \notin Watched /\ f.op = worker[w].op
  BY <1>1 DEF Idle, Watched
<1>3. worker'[w] = f /\ \A v \in Worker : v # w => worker'[v] = worker[v]
  BY <1>1, OnlyOneMoves
<1>4. Kept
  BY <1>2, <1>3 DEF Kept
<1> QED
  BY <1>2, <1>3, <1>4, QuietStep

LEMMA ReleaseQuiet ==
    ASSUME OInv, SInv, NEW w \in Worker, NEW f, worker' = [worker EXCEPT ![w] = f],
           f.op \in {0, worker[w].op}, f.at \notin Watched,
           \A o \in Operation : op[o].status # "absent" => op'[o].type = op[o].type,
           UNCHANGED <<archive, store, gaps, retention, clash>>
    PROVE  SInv'
<1>1. worker'[w] = f /\ \A v \in Worker : v # w => worker'[v] = worker[v]
  BY OnlyOneMoves
<1>2. Kept
  BY <1>1 DEF Kept
<1> QED
  BY <1>1, <1>2, QuietStep

-----------------------------------------------------------------------------
LEMMA SBegin == ASSUME OInv, SInv, NEW w \in Worker, Begin(w) PROVE SInv'
<1> SUFFICES ASSUME ~clash PROVE SInv'
  BY DEF Begin, Rest, SInv
<1>1. worker[w].at \in Creating /\ worker[w] \in Frame /\ archive \in Archive
  BY DEF Begin, Creating, OInv, TypeOK
<1>2. worker'[w] = [worker[w] EXCEPT !.at = "upload"]
      /\ \A v \in Worker : v # w => worker'[v] = worker[v]
  BY OnlyOneMoves DEF Begin, Goto, OInv, TypeOK
<1>3. worker'[w].at = "upload" /\ worker'[w].op = worker[w].op
  BY <1>1, <1>2 DEF Frame
<1>4. archive'.status = "CREATING"
  BY <1>1 DEF Begin, Archive
<1>5. Kept
  BY <1>2, <1>3 DEF Kept, Begin
<1>6. Alone'
  BY <1>5, AloneKept DEF SInv
<1>7. ASSUME NEW v \in Worker PROVE Seen(v)'
  <2>1. CASE v = w
    BY <1>3, <1>4, <2>1 DEF Seen
  <2>2. CASE v # w
    <3>1. worker'[v].at \notin Watched
      BY <1>1, <1>2, <2>2, Lonely DEF SInv
    <3> QED
      BY <3>1 DEF Seen, Watched
  <2> QED
    BY <2>1, <2>2
<1>8. retention' # "idle" => archive'.due
  BY <1>1 DEF Begin, Rest, SInv, Archive
<1> QED
  BY <1>4, <1>6, <1>7, <1>8 DEF SInv

LEMMA SUpload == ASSUME OInv, SInv, NEW w \in Worker, Upload(w) PROVE SInv'
<1> SUFFICES ASSUME ~clash PROVE SInv'
  BY DEF Upload, Rest, SInv
<1>1. worker[w].at \in Creating /\ worker[w] \in Frame
  BY DEF Upload, Creating, OInv, TypeOK
<1>2. worker'[w] = [worker[w] EXCEPT !.at = "manifest"]
      /\ \A v \in Worker : v # w => worker'[v] = worker[v]
  BY OnlyOneMoves DEF Upload, Goto, OInv, TypeOK
<1>3. worker'[w].at = "manifest" /\ worker'[w].op = worker[w].op
      /\ worker'[w].run = worker[w].run
  BY <1>1, <1>2 DEF Frame
<1>4. store'["database"] = worker[w].run
  BY DEF Upload, Put, OInv, TypeOK, Object
<1>5. Alone'
  <2>1. Kept
    BY <1>2, <1>3 DEF Kept, Upload
  <2> QED
    BY <2>1, AloneKept DEF SInv
<1>6. archive' = archive /\ archive.status \in {"CREATING", "EXPIRED"}
      /\ (~archive.due => archive.status = "CREATING")
  BY DEF Upload, SInv, Seen
<1>7. ASSUME NEW v \in Worker PROVE Seen(v)'
  <2>1. CASE v = w
    BY <1>3, <1>4, <1>6, <2>1 DEF Seen
  <2>2. CASE v # w
    <3>1. worker'[v].at \notin Watched
      BY <1>1, <1>2, <2>2, Lonely DEF SInv
    <3> QED
      BY <3>1 DEF Seen, Watched
  <2> QED
    BY <2>1, <2>2
<1> QED
  BY <1>5, <1>6, <1>7 DEF SInv, Upload, Rest

LEMMA SPutManifest == ASSUME OInv, SInv, NEW w \in Worker, PutManifest(w) PROVE SInv'
<1> SUFFICES ASSUME ~clash PROVE SInv'
  BY DEF PutManifest, SInv
<1>1. worker[w].at \in Creating /\ worker[w] \in Frame
  BY DEF PutManifest, Creating, OInv, TypeOK
<1>2. worker'[w] = [worker[w] EXCEPT !.at = "record"]
      /\ \A v \in Worker : v # w => worker'[v] = worker[v]
  BY OnlyOneMoves DEF PutManifest, Goto, OInv, TypeOK
<1>3. worker'[w].at = "record" /\ worker'[w].op = worker[w].op
      /\ worker'[w].run = worker[w].run
  BY <1>1, <1>2 DEF Frame
<1>4. store'["manifest"] = worker[w].run /\ store'["database"] = store["database"]
  BY DEF PutManifest, Put, OInv, TypeOK, Object
<1>5. Alone'
  <2>1. Kept
    BY <1>2, <1>3 DEF Kept, PutManifest
  <2> QED
    BY <2>1, AloneKept DEF SInv
<1>6. archive' = archive /\ archive.status \in {"CREATING", "EXPIRED"}
      /\ (~archive.due => archive.status = "CREATING")
      /\ store["database"] = worker[w].run
  BY DEF PutManifest, SInv, Seen
<1>7. ASSUME NEW v \in Worker PROVE Seen(v)'
  <2>1. CASE v = w
    BY <1>3, <1>4, <1>6, <2>1 DEF Seen
  <2>2. CASE v # w
    <3>1. worker'[v].at \notin Watched
      BY <1>1, <1>2, <2>2, Lonely DEF SInv
    <3> QED
      BY <3>1 DEF Seen, Watched
  <2> QED
    BY <2>1, <2>2
<1> QED
  BY <1>5, <1>6, <1>7 DEF SInv, PutManifest

LEMMA SRecord == ASSUME OInv, SInv, NEW w \in Worker, Record(w) PROVE SInv'
<1> SUFFICES ASSUME ~clash PROVE SInv'
  BY DEF Record, Rest, SInv
<1>1. /\ worker[w].at \in Creating /\ worker[w] \in Frame /\ archive \in Archive
      /\ worker[w].run # 0
  BY AtCall, BusyShape, BackupsAssumption
     DEF Record, Creating, OInv, TypeOK, Execution
<1>2. PICK f : worker' = [worker EXCEPT ![w] = f] /\ f.at \in {"fail", "succeed"}
               /\ f.op = worker[w].op
  <2>1. CASE worker[w].run \in gaps
    BY <2>1 DEF Record, Throw, Idle
  <2>2. CASE worker[w].run \notin gaps
    BY <1>1, <2>2 DEF Record, Goto, Frame
  <2> QED
    BY <2>1, <2>2
<1>3. worker'[w] = f /\ \A v \in Worker : v # w => worker'[v] = worker[v]
  BY <1>2, OnlyOneMoves
<1>4. /\ archive'.checksum = worker[w].run /\ archive'.due = archive.due
      /\ archive'.status \in {"INCOMPLETE", "AVAILABLE"}
      /\ worker[w].run \in gaps => archive'.status = "INCOMPLETE"
  BY <1>1 DEF Record, Archive
<1>5. Alone'
  <2>1. Kept
    BY <1>2, <1>3 DEF Kept, Record
  <2> QED
    BY <2>1, AloneKept DEF SInv
<1>6. store["database"] = worker[w].run /\ store["manifest"] = worker[w].run
  BY DEF Record, SInv, Seen
<1>7. \A v \in Worker : Seen(v)'
  BY <1>1, <1>2, <1>3, Lonely DEF SInv, Seen, Watched
<1>8. worker[w].run \notin gaps => Restorable'
  BY <1>1, <1>4, <1>6 DEF Restorable, Record, Rest, Object
<1> QED
  BY <1>4, <1>5, <1>7, <1>8 DEF SInv, Record, Rest

LEMMA SLoad == ASSUME OInv, SInv, NEW w \in Worker, Load(w) PROVE SInv'
<1> SUFFICES ASSUME ~clash PROVE SInv'
  BY DEF Load, Rest, SInv
<1>1. UNCHANGED <<archive, store, gaps, retention, clash>> /\ op' = op
  BY DEF Load, Rest
<1>2. CASE \E code \in Code : Throw(w, code)
  BY <1>1, <1>2, ThrowQuiet
<1>3. CASE /\ archive.checksum # 0 /\ store["manifest"] = archive.checksum
           /\ archive.checksum \notin gaps
           /\ worker' = [worker EXCEPT ![w] = [worker[w] EXCEPT !.at = "check",
                                                                !.seen = archive.checksum]]
  <2>1. worker[w] \in Frame
    BY DEF OInv, TypeOK
  <2>2. worker'[w] = [worker[w] EXCEPT !.at = "check", !.seen = archive.checksum]
        /\ \A v \in Worker : v # w => worker'[v] = worker[v]
    BY <1>3, OnlyOneMoves
  <2>3. worker'[w].at = "check" /\ worker'[w].seen = archive.checksum
        /\ worker'[w].op = worker[w].op
    BY <2>1, <2>2 DEF Frame
  <2>4. Alone'
    <3>1. Kept
      BY <1>1, <2>2, <2>3 DEF Kept
    <3> QED
      BY <3>1, AloneKept DEF SInv
  <2>5. ASSUME NEW v \in Worker PROVE Seen(v)'
    <3>1. CASE v = w
      BY <1>1, <1>3, <2>3, <3>1 DEF Seen
    <3>2. CASE v # w
      BY <1>1, <2>2, <3>2 DEF SInv, Seen, Restorable, Empty, Listed
    <3> QED
      BY <3>1, <3>2
  <2> QED
    BY <1>1, <2>4, <2>5 DEF SInv, Restorable, Empty
<1> QED
  BY <1>2, <1>3 DEF Load, Code

LEMMA SCheck == ASSUME OInv, SInv, NEW w \in Worker, Check(w) PROVE SInv'
<1> SUFFICES ASSUME ~clash PROVE SInv'
  BY DEF Check, Rest, SInv
<1>1. UNCHANGED <<archive, store, gaps, retention, clash>> /\ op' = op
      /\ worker[w].at = "check"
  BY DEF Check, Rest
<1>2. CASE \E code \in Code : Throw(w, code)
  BY <1>1, <1>2, ThrowQuiet
<1>3. CASE /\ store["database"] = worker[w].seen
           /\ worker' = [worker EXCEPT ![w] = [worker[w] EXCEPT !.at = "verified",
                                                                !.seen = 0]]
  <2>1. worker[w] \in Frame
    BY DEF OInv, TypeOK
  <2>2. worker'[w] = [worker[w] EXCEPT !.at = "verified", !.seen = 0]
        /\ \A v \in Worker : v # w => worker'[v] = worker[v]
    BY <1>3, OnlyOneMoves
  <2>3. worker'[w].at = "verified" /\ worker'[w].op = worker[w].op
    BY <2>1, <2>2 DEF Frame
  <2>4. Alone'
    <3>1. Kept
      BY <1>1, <2>2, <2>3 DEF Kept
    <3> QED
      BY <3>1, AloneKept DEF SInv
  <2>5. ~archive.due => Restorable
    BY <1>1, <1>3 DEF SInv, Seen, Restorable, Object
  <2>6. ASSUME NEW v \in Worker PROVE Seen(v)'
    <3>1. CASE v = w
      BY <1>1, <2>3, <2>5, <3>1 DEF Seen, Restorable
    <3>2. CASE v # w
      BY <1>1, <2>2, <3>2 DEF SInv, Seen, Restorable, Empty, Listed
    <3> QED
      BY <3>1, <3>2
  <2> QED
    BY <1>1, <2>4, <2>6 DEF SInv, Restorable, Empty
<1> QED
  BY <1>2, <1>3 DEF Check, Code

LEMMA SVerified == ASSUME OInv, SInv, NEW w \in Worker, Verified(w) PROVE SInv'
<1> SUFFICES ASSUME ~clash PROVE SInv'
  BY DEF Verified, Rest, SInv
<1>1. /\ Busy(w) /\ worker[w].at = "verified" /\ worker[w] \in Frame
      /\ archive \in Archive
  BY AtCall DEF Verified, Verifying, OInv, TypeOK
<1>2. worker'[w] = [worker[w] EXCEPT !.at = "succeed"]
      /\ \A v \in Worker : v # w => worker'[v] = worker[v]
  BY OnlyOneMoves DEF Verified, Goto, OInv, TypeOK
<1>3. worker'[w].at = "succeed" /\ worker'[w].op = worker[w].op
  BY <1>1, <1>2 DEF Frame
<1>4. archive'.status = "VERIFIED" /\ archive'.due = archive.due
      /\ archive'.checksum = archive.checksum /\ UNCHANGED <<store, gaps>>
  BY <1>1 DEF Verified, Archive, Rest
<1>5. Alone'
  <2>1. Kept
    BY <1>2, <1>3 DEF Kept, Verified
  <2> QED
    BY <2>1, AloneKept DEF SInv
<1>6. ASSUME NEW v \in Worker PROVE Seen(v)'
  <2>1. CASE v = w
    BY <1>3, <2>1 DEF Seen
  <2>2. CASE v # w
    <3>1. worker[v].at \notin Creating
      BY <1>1, NobodyCreates DEF SInv, Creating
    <3> QED
      BY <1>2, <1>4, <2>2, <3>1 DEF SInv, Seen, Restorable, Empty, Listed, Creating
  <2> QED
    BY <2>1, <2>2
<1>7. ~archive'.due => Restorable'
  BY <1>1, <1>4 DEF SInv, Seen, Restorable
<1> QED
  BY <1>4, <1>5, <1>6, <1>7 DEF SInv, Verified, Rest

(* The next of the objects to delete.                                      *)
LEMMA RemoveNextShape ==
    ASSUME OInv, NEW w \in Worker, NEW todo, RemoveNext(w, todo)
    PROVE  /\ worker'[w].todo = todo /\ worker'[w].op = worker[w].op
           /\ worker'[w].at = IF todo = {} THEN "deleted" ELSE "remove"
           /\ \A v \in Worker : v # w => worker'[v] = worker[v]
<1>1. worker[w] \in Frame
  BY DEF OInv, TypeOK
<1>2. worker'[w] = [worker[w] EXCEPT !.todo = todo,
                      !.at = IF todo = {} THEN "deleted" ELSE "remove"]
      /\ \A v \in Worker : v # w => worker'[v] = worker[v]
  BY OnlyOneMoves DEF RemoveNext
<1> QED
  BY <1>1, <1>2 DEF Frame

LEMMA SDelete == ASSUME OInv, SInv, NEW w \in Worker, Delete(w) PROVE SInv'
<1> SUFFICES ASSUME ~clash PROVE SInv'
  BY DEF Delete, Rest, SInv
<1>1. UNCHANGED <<archive, store, gaps, retention, clash>> /\ op' = op
  BY DEF Delete, Rest
<1>2. CASE ~archive.due
  BY <1>1, <1>2, ThrowQuiet DEF Delete
<1>3. CASE archive.due
  <2>1. /\ worker'[w].todo = Listed /\ worker'[w].op = worker[w].op
        /\ worker'[w].at = IF Listed = {} THEN "deleted" ELSE "remove"
        /\ \A v \in Worker : v # w => worker'[v] = worker[v]
    BY <1>3, RemoveNextShape DEF Delete
  <2>2. Alone'
    <3>1. Kept
      BY <1>1, <2>1 DEF Kept
    <3> QED
      BY <3>1, AloneKept DEF SInv
  <2>3. ASSUME NEW v \in Worker PROVE Seen(v)'
    <3>1. CASE v = w
      BY <1>1, <1>3, <2>1, <3>1 DEF Seen, Listed, Empty
    <3>2. CASE v # w
      BY <1>1, <2>1, <3>2 DEF SInv, Seen, Restorable, Empty, Listed
    <3> QED
      BY <3>1, <3>2
  <2> QED
    BY <1>1, <2>2, <2>3 DEF SInv, Restorable, Empty
<1> QED
  BY <1>2, <1>3

LEMMA SRemove == ASSUME OInv, SInv, NEW w \in Worker, Remove(w) PROVE SInv'
<1> SUFFICES ASSUME ~clash PROVE SInv'
  BY DEF Remove, Rest, SInv
<1>1. /\ Busy(w) /\ worker[w].at = "remove" /\ archive.due
      /\ Listed \subseteq worker[w].todo
  BY AtCall DEF Remove, Deleting, SInv, Seen
<1>2. PICK k \in Object : store' = [store EXCEPT ![k] = 0]
                          /\ RemoveNext(w, worker[w].todo \ {k})
  BY DEF Remove, Object
<1>3. /\ worker'[w].todo = worker[w].todo \ {k} /\ worker'[w].op = worker[w].op
      /\ worker'[w].at = IF worker[w].todo \ {k} = {} THEN "deleted" ELSE "remove"
      /\ \A v \in Worker : v # w => worker'[v] = worker[v]
  BY <1>2, RemoveNextShape
<1>4. /\ archive' = archive /\ retention' = retention /\ op' = op
      /\ \A x \in Object : store'[x] = IF x = k THEN 0 ELSE store[x]
  BY <1>2 DEF Remove, Rest, OInv, TypeOK
<1>5. Alone'
  <2>1. Kept
    BY <1>3, <1>4 DEF Kept
  <2> QED
    BY <2>1, AloneKept DEF SInv
<1>6. Listed' = Listed \ {k} /\ (Empty => Empty')
  BY <1>4 DEF Listed, Empty
<1>7. ASSUME NEW v \in Worker PROVE Seen(v)'
  <2>1. CASE v = w
    <3>1. Listed' \subseteq worker'[w].todo
      BY <1>1, <1>3, <1>6
    <3>2. worker'[w].todo = {} => Empty'
      BY <3>1 DEF Listed, Empty
    <3> QED
      BY <1>1, <1>3, <1>4, <2>1, <3>1, <3>2 DEF Seen
  <2>2. CASE v # w
    <3>1. worker[v].at \notin Creating
      BY <1>1, NobodyCreates DEF SInv, Creating
    <3>2. Seen(v)
      BY DEF SInv
    <3>3. worker'[v] = worker[v]
      BY <1>3, <2>2
    <3> QED
      BY <1>1, <1>4, <1>6, <3>1, <3>2, <3>3 DEF Seen, Creating
  <2> QED
    BY <2>1, <2>2
<1> QED
  BY <1>1, <1>4, <1>5, <1>6, <1>7 DEF SInv

LEMMA SDeleted == ASSUME OInv, SInv, NEW w \in Worker, Deleted(w) PROVE SInv'
<1> SUFFICES ASSUME ~clash PROVE SInv'
  BY DEF Deleted, Rest, SInv
<1>1. /\ Busy(w) /\ worker[w].at = "deleted" /\ worker[w] \in Frame
      /\ archive \in Archive
  BY AtCall DEF Deleted, Deleting, OInv, TypeOK
<1>2. worker'[w] = [worker[w] EXCEPT !.at = "succeed"]
      /\ \A v \in Worker : v # w => worker'[v] = worker[v]
  BY OnlyOneMoves DEF Deleted, Goto, OInv, TypeOK
<1>3. worker'[w].at = "succeed" /\ worker'[w].op = worker[w].op
  BY <1>1, <1>2 DEF Frame
<1>4. archive'.status = "DELETED" /\ archive'.due = archive.due
      /\ archive'.checksum = archive.checksum /\ UNCHANGED <<store, gaps>>
  BY <1>1 DEF Deleted, Archive, Rest
<1>5. Alone'
  <2>1. Kept
    BY <1>2, <1>3 DEF Kept, Deleted
  <2> QED
    BY <2>1, AloneKept DEF SInv
<1>6. ASSUME NEW v \in Worker PROVE Seen(v)'
  <2>1. CASE v = w
    BY <1>3, <2>1 DEF Seen
  <2>2. CASE v # w
    <3>1. worker[v].at \notin Creating
      BY <1>1, NobodyCreates DEF SInv, Creating
    <3> QED
      BY <1>2, <1>4, <2>2, <3>1 DEF SInv, Seen, Restorable, Empty, Listed, Creating
  <2> QED
    BY <2>1, <2>2
<1>7. Empty'
  BY <1>1, <1>4 DEF SInv, Seen, Empty
<1> QED
  BY <1>4, <1>5, <1>6, <1>7 DEF SInv, Deleted, Rest

(* A row that is settled or revived keeps its type.                        *)
LEMMA SettledType ==
    ASSUME OInv, NEW x, NEW status, op' = Settled(x, status)
    PROVE  \A o \in Operation : op'[o].type = op[o].type
BY DEF Settled, OInv, TypeOK, Row

LEMMA SEnding ==
    ASSUME OInv, SInv, NEW w \in Worker, Succeed(w) \/ Fail(w)
    PROVE  SInv'
<1>1. UNCHANGED <<archive, store, gaps, retention, clash>>
  BY DEF Succeed, Fail, Rest
<1>2. \A o \in Operation : op'[o].type = op[o].type
  BY SettledType DEF Succeed, Fail
<1>3. CASE worker' = [worker EXCEPT ![w] = Idle]
  <2>1. Idle.op = 0 /\ Idle.at \notin Watched
    BY DEF Idle, Watched
  <2> QED
    BY <1>1, <1>2, <1>3, <2>1, ReleaseQuiet
<1>4. CASE Throw(w, "RETRYABLE")
  <2>1. PICK f : f = [Idle EXCEPT !.at = "fail", !.op = worker[w].op,
                                  !.run = worker[w].run, !.code = "RETRYABLE"]
    OBVIOUS
  <2>2. f.op = worker[w].op /\ f.at \notin Watched
    BY <2>1 DEF Idle, Watched
  <2>3. worker' = [worker EXCEPT ![w] = f]
    BY <1>4, <2>1 DEF Throw
  <2> QED
    BY <1>1, <1>2, <2>2, <2>3, ReleaseQuiet
<1>5. CASE Goto(w, "failArchive")
  <2>1. PICK f : f = [worker[w] EXCEPT !.at = "failArchive"]
    OBVIOUS
  <2>2. worker[w] \in Frame
    BY DEF OInv, TypeOK
  <2>3. f.op = worker[w].op /\ f.at \notin Watched
    BY <2>1, <2>2 DEF Frame, Watched
  <2>4. worker' = [worker EXCEPT ![w] = f]
    BY <1>5, <2>1 DEF Goto
  <2> QED
    BY <1>1, <1>2, <2>3, <2>4, ReleaseQuiet
<1> QED
  BY <1>3, <1>4, <1>5 DEF Succeed, Fail

LEMMA SFailArchive == ASSUME OInv, SInv, NEW w \in Worker, FailArchive(w) PROVE SInv'
<1> SUFFICES ASSUME ~clash PROVE SInv'
  BY DEF FailArchive, Rest, SInv
<1>1. Busy(w) /\ worker[w].at = "failArchive" /\ archive \in Archive
  BY AtCall DEF FailArchive, Ending, OInv, TypeOK
<1>2. worker'[w] = Idle /\ \A v \in Worker : v # w => worker'[v] = worker[v]
  BY OnlyOneMoves DEF FailArchive
<1>3. /\ archive'.status \in {"CORRUPT", "INCOMPLETE", "FAILED"}
      /\ archive'.due = archive.due /\ archive'.checksum = archive.checksum
      /\ UNCHANGED <<store, gaps>>
  BY <1>1 DEF FailArchive, Archive, Rest
<1>4. Alone'
  <2>1. Kept
    BY <1>2 DEF Kept, FailArchive, Idle
  <2> QED
    BY <2>1, AloneKept DEF SInv
<1>5. ASSUME NEW v \in Worker PROVE Seen(v)'
  <2>1. CASE v = w
    BY <1>2, <2>1 DEF Seen, Idle
  <2>2. CASE v # w
    <3>1. worker[v].at \notin Creating
      BY <1>1, NobodyCreates DEF SInv, Creating
    <3> QED
      BY <1>2, <1>3, <2>2, <3>1 DEF SInv, Seen, Restorable, Empty, Listed, Creating
  <2> QED
    BY <2>1, <2>2
<1> QED
  BY <1>3, <1>4, <1>5 DEF SInv, FailArchive, Rest

LEMMA SFaults ==
    ASSUME OInv, SInv, NEW w \in Worker, CallThrows(w) \/ CatchThrows(w) \/ Crash(w)
    PROVE  SInv'
<1>1. UNCHANGED <<archive, store, gaps, retention, clash>> /\ op' = op
  BY DEF CallThrows, CatchThrows, Crash
<1>2. Idle.op = 0 /\ Idle.at \notin Watched /\ Started.op = 0 /\ Started.at \notin Watched
  BY DEF Idle, Started, Watched
<1> QED
  BY <1>1, <1>2, ThrowQuiet, ReleaseQuiet DEF CallThrows, CatchThrows, Crash

LEMMA SRecovery ==
    ASSUME OInv, SInv, NEW w \in Worker, Recover(w) \/ Revive(w)
    PROVE  SInv'
<1>1. UNCHANGED <<archive, store, gaps, retention, clash>>
  BY DEF Recover, Revive, Rest
<1>2. \A o \in Operation : op'[o].type = op[o].type
  <2>1. CASE Recover(w)
    BY <2>1 DEF Recover
  <2>2. CASE Revive(w)
    <3>1. PICK e \in worker[w].found :
             op' = [op EXCEPT ![e[1]] = [@ EXCEPT
               !.status = IF e[2] >= MaxAttempts THEN "FAILED" ELSE "RETRYING",
               !.old = FALSE,
               !.disputed = \/ op[e[1]].disputed \/ ~Abandoned(e[1])
                            \/ e[2] # op[e[1]].attempts]]
      BY <2>2 DEF Revive
    <3>2. \A o \in Operation : op[o] \in Row
      BY DEF OInv, TypeOK
    <3>3. PICK s, d : op' = [op EXCEPT ![e[1]] =
                               [op[e[1]] EXCEPT !.status = s, !.old = FALSE, !.disputed = d]]
      BY <3>1
    <3> QED
      BY <3>2, <3>3 DEF OInv, TypeOK, Row
  <2> QED
    BY <2>1, <2>2
<1>3. worker[w].at \in {"recover", "revive"}
  BY DEF Recover, Revive
<1>4. PICK found \in SUBSET (Operation \X Execution) : ReviveNext(w, found)
  <2>1. CASE Recover(w)
    <3>1. {<<o, op[o].attempts>> : o \in {x \in Operation : Abandoned(x)}}
             \in SUBSET (Operation \X Execution)
      BY DEF OInv, TypeOK, Counted, Abandoned, Row
    <3> QED
      BY <2>1, <3>1 DEF Recover
  <2>2. CASE Revive(w)
    <3>1. worker[w].found \subseteq Operation \X Execution
      BY DEF OInv, TypeOK, Frame
    <3>2. PICK e \in worker[w].found : ReviveNext(w, worker[w].found \ {e})
      BY <2>2 DEF Revive
    <3> QED
      BY <3>1, <3>2
  <2> QED
    BY <2>1, <2>2
<1>5. PICK f \in Frame : Free(f) /\ worker' = [worker EXCEPT ![w] = f]
  BY <1>3, <1>4, ReviveShape
<1> QED
  BY <1>1, <1>2, <1>5, ReleaseQuiet DEF Free, Watched

LEMMA SClaim == ASSUME OInv, SInv, NEW w \in Worker, claimBackupOperation(w) PROVE SInv'
<1>1. PICK o \in Operation :
         /\ Due(o)
         /\ op' = [op EXCEPT ![o].status = "PROCESSING",
                             ![o].attempts = @ + 1, ![o].old = FALSE]
         /\ worker' = [worker EXCEPT ![w] = [Idle EXCEPT !.at = First(o),
                             !.op = o, !.run = op[o].attempts + 1]]
         /\ clash' = (clash \/ \E v \in Worker : Busy(v)
                        /\ "CREATE" \in {op[o].type, Type(v)})
  BY DEF claimBackupOperation
<1> SUFFICES ASSUME ~clash' PROVE SInv'
  BY DEF SInv
<1>2. ~clash /\ \A v \in Worker : Busy(v) => op[o].type # "CREATE" /\ Type(v) # "CREATE"
  BY <1>1
<1>3. PICK f : f = [Idle EXCEPT !.at = First(o), !.op = o, !.run = op[o].attempts + 1]
  OBVIOUS
<1>4. f.at = First(o) /\ f.op = o
  BY <1>3 DEF Idle
<1>5. worker'[w] = f /\ \A v \in Worker : v # w => worker'[v] = worker[v]
  BY <1>1, <1>3, OnlyOneMoves
<1>6. \A x \in Operation : op'[x].type = op[x].type
  BY <1>1 DEF OInv, TypeOK, Row
<1>7. First(o) \in {"begin", "load", "delete"}
  BY DEF First, OInv, TypeOK, Row
<1>8. Alone'
  <2> SUFFICES ASSUME NEW u \in Worker, NEW v \in Worker, u # v, Busy(u)', Busy(v)'
               PROVE  Type(u)' # "CREATE"
    BY DEF Alone
  <2>1. \A x \in Worker : x # w /\ Busy(x)' => Busy(x) /\ Type(x)' = Type(x)
    BY <1>5, <1>6, BusyShape DEF Busy, Type
  <2>2. Type(w)' = op[o].type
    BY <1>4, <1>5, <1>6 DEF Type
  <2> QED
    BY <1>2, <2>1, <2>2
<1>9. UNCHANGED <<archive, store, gaps, retention>>
  BY DEF claimBackupOperation
<1>10. ASSUME NEW v \in Worker PROVE Seen(v)'
  <2>1. CASE v = w
    BY <1>4, <1>5, <1>7, <2>1 DEF Seen
  <2>2. CASE v # w
    BY <1>2, <1>5, <1>9, <2>2 DEF SInv, Seen, Restorable, Empty, Listed
  <2> QED
    BY <2>1, <2>2
<1> QED
  BY <1>2, <1>8, <1>9, <1>10 DEF SInv, Restorable, Empty

-----------------------------------------------------------------------------
(* An operation that is queued is nobody's yet.                            *)
LEMMA QueueKept ==
    ASSUME OInv, NEW type, Queue(type), worker' = worker
    PROVE  Kept
<1>1. PICK o \in Operation :
         /\ op[o].status = "absent"
         /\ op' = [op EXCEPT ![o] = [NoRow EXCEPT !.status = "PENDING", !.type = type]]
  BY DEF Queue, Requested
<1>2. \A x \in Operation : x # o => op'[x] = op[x]
  BY <1>1 DEF OInv, TypeOK
<1> QED
  BY <1>1, <1>2 DEF Kept

LEMMA SRequest == ASSUME OInv, SInv, requestBackupOperation PROVE SInv'
BY QueueKept, QuietStep DEF requestBackupOperation, Rest

LEMMA SHourPasses == ASSUME OInv, SInv, NEW o \in Operation, HourPasses(o) PROVE SInv'
<1>1. PICK d : op' = [op EXCEPT ![o] = [op[o] EXCEPT !.old = TRUE, !.disputed = d]]
  BY DEF HourPasses
<1>2. \A x \in Operation : op'[x].type = op[x].type
  BY <1>1 DEF OInv, TypeOK, Row
<1>3. Kept
  BY <1>2 DEF Kept, HourPasses
<1> QED
  BY <1>3, QuietStep DEF HourPasses, Rest

(* The date passes, or the status becomes EXPIRED after it.                *)
LEMMA DueStep ==
    ASSUME OInv, SInv, op' = op \/ Queue("DELETE"), UNCHANGED <<store, gaps, worker, clash>>,
           archive'.due, archive'.checksum = archive.checksum,
           archive'.status \in {archive.status, "EXPIRED"}
    PROVE  SInv'
<1> SUFFICES ASSUME ~clash PROVE SInv'
  BY DEF SInv
<1>1. Alone'
  <2>1. Kept
    BY QueueKept DEF Kept
  <2> QED
    BY <2>1, AloneKept DEF SInv
<1>2. ASSUME NEW v \in Worker PROVE Seen(v)'
  BY DEF SInv, Seen, Empty, Listed
<1> QED
  BY <1>1, <1>2 DEF SInv, Empty

LEMMA SExpire == ASSUME OInv, SInv, Expire PROVE SInv'
<1>1. archive'.due /\ archive'.status = archive.status
      /\ archive'.checksum = archive.checksum
  BY DEF Expire, OInv, TypeOK, Archive
<1> QED
  BY <1>1, DueStep DEF Expire, Rest

LEMMA SRetention == ASSUME OInv, SInv, backupRetention PROVE SInv'
<1> SUFFICES ASSUME ~clash PROVE SInv'
  BY DEF backupRetention, SInv
<1>1. archive \in Archive
  BY DEF OInv, TypeOK
<1>2. archive.due
  BY DEF backupRetention, SInv
<1>3. archive'.due /\ archive'.status \in {archive.status, "EXPIRED"}
      /\ archive'.checksum = archive.checksum
  BY <1>1, <1>2 DEF backupRetention, Archive
<1> QED
  BY <1>3, DueStep DEF backupRetention

-----------------------------------------------------------------------------
LEMMA InitSInv == ASSUME Init PROVE SInv
<1>1. \A w \in Worker : worker[w].op = 0 /\ worker[w].at \notin Watched
  BY DEF Init, Started, Idle, Watched
<1> QED
  BY <1>1 DEF Init, SInv, Alone, Busy, Seen, Watched

LEMMA SSteps == ASSUME OInv, SInv, [Next]_vars PROVE SInv'
<1>1. ASSUME NEW w \in Worker, Execute(w) PROVE SInv'
  BY <1>1, SBegin, SUpload, SPutManifest, SRecord, SLoad, SCheck, SVerified, SDelete,
     SRemove, SDeleted, SEnding, SFailArchive DEF Execute
<1>2. CASE \E w \in Worker : Work(w) \/ CallThrows(w) \/ CatchThrows(w) \/ Crash(w)
  BY <1>1, <1>2, SClaim, SRecovery, SFaults DEF Work
<1>3. CASE \E o \in Operation : HourPasses(o)
  BY <1>3, SHourPasses
<1>4. CASE requestBackupOperation \/ Expire \/ backupRetention
  BY <1>4, SRequest, SExpire, SRetention
<1>5. CASE UNCHANGED vars
  <2>1. Kept
    BY <1>5 DEF vars, Kept
  <2> QED
    BY <1>5, <2>1, QuietStep DEF vars
<1> QED
  BY <1>2, <1>3, <1>4, <1>5 DEF Next

(* The status of an archive is true of its objects: what is AVAILABLE or   *)
(* VERIFIED and has not expired can be restored, what is DELETED has left  *)
(* nothing, as long as no creation runs beside another execution.          *)
THEOREM StatusIsTrue == Spec => []StatusTellsTheStore
<1>1. Init => SInv
  BY InitSInv
<1>2. OInv /\ SInv /\ [Next]_vars => SInv'
  BY SSteps
<1>3. SInv => StatusTellsTheStore
  BY DEF SInv, StatusTellsTheStore, Empty
<1> QED
  BY <1>1, <1>2, <1>3, OperationInvariant, PTL DEF Spec

-----------------------------------------------------------------------------
(* The refinement of ClaimedOperations                                     *)

(* What is seen of each operation.                                         *)
View ==
    \A o \in Operation :
       /\ op[o].disputed => state[o] = "disputed" /\ tries[o] = 0 /\ hands[o] = {}
       /\ ~op[o].disputed =>
            /\ tries[o] = op[o].attempts
            /\ hands[o] = {w \in Worker : Executing(w, o)}
            /\ op[o].status = "absent" => state[o] = "none"
            /\ op[o].status \in Waiting => state[o] = "waiting"
            /\ op[o].status = "PROCESSING" => state[o] = "running"
            /\ op[o].status = "SUCCEEDED" => state[o] = "done"
            /\ op[o].status = "FAILED" => state[o] = "failed"

LEMMA Views == View /\ View'
<1>1. View BY DEF View, state, tries, hands, StateOf, Waiting
<1>2. View' BY DEF View, state, tries, hands, StateOf, Waiting
<1> QED BY <1>1, <1>2

LEMMA ViewFunctions ==
    /\ state = [o \in Operation |-> state[o]] /\ state' = [o \in Operation |-> state'[o]]
    /\ tries = [o \in Operation |-> tries[o]] /\ tries' = [o \in Operation |-> tries'[o]]
    /\ hands = [o \in Operation |-> hands[o]] /\ hands' = [o \in Operation |-> hands'[o]]
BY DEF state, tries, hands

(* The limit, which no claim looks at.                                     *)
Budgeted ==
    \A o \in Operation :
       /\ tries[o] \in 0..MaxAttempts
       /\ state[o] = "waiting" => tries[o] < MaxAttempts
       /\ state[o] = "none" => tries[o] = 0

(* What a recovery has listed exists, and only what exists is disputed.    *)
Existing ==
    /\ \A w \in Worker : \A f \in worker[w].found : op[f[1]].status # "absent"
    /\ \A o \in Operation : op[o].status = "absent" => ~op[o].disputed

(* The inductive invariant of the refinement.                              *)
BInv == OInv /\ Budgeted /\ Existing

(* A step that shows nothing of an operation.                              *)
Unseen(o) ==
    \/ op[o].disputed /\ op'[o].disputed
    \/ /\ op'[o].disputed = op[o].disputed
       /\ op'[o].status = op[o].status /\ op'[o].attempts = op[o].attempts
       /\ \A w \in Worker : Executing(w, o)' <=> Executing(w, o)

LEMMA UnseenSame ==
    ASSUME OInv, NEW o \in Operation, Unseen(o)
    PROVE  state'[o] = state[o] /\ tries'[o] = tries[o] /\ hands'[o] = hands[o]
<1>1. op[o].status \in {"absent", "PROCESSING"} \cup Waiting \cup Final
      /\ op[o].disputed \in BOOLEAN
  BY DEF OInv, TypeOK, Row
<1>2. CASE op[o].disputed /\ op'[o].disputed
  BY <1>2, Views DEF View
<1>3. CASE /\ op'[o].disputed = op[o].disputed
           /\ op'[o].status = op[o].status /\ op'[o].attempts = op[o].attempts
           /\ \A w \in Worker : Executing(w, o)' <=> Executing(w, o)
  <2>1. state'[o] = state[o] BY <1>1, <1>3, Views DEF View, Final
  <2>2. tries'[o] = tries[o] BY <1>3 DEF tries
  <2>3. hands'[o] = hands[o] BY <1>3 DEF hands
  <2> QED BY <2>1, <2>2, <2>3
<1> QED BY <1>2, <1>3 DEF Unseen

LEMMA AllUnseen ==
    ASSUME OInv, \A o \in Operation : Unseen(o)
    PROVE  UNCHANGED Claims!vars
<1>1. \A o \in Operation :
         state'[o] = state[o] /\ tries'[o] = tries[o] /\ hands'[o] = hands[o]
  BY UnseenSame
<1>2. state' = state /\ tries' = tries /\ hands' = hands
  BY <1>1, ViewFunctions
<1> QED BY <1>2 DEF Claims!vars

LEMMA OneSeen ==
    ASSUME OInv, NEW o \in Operation, \A x \in Operation : x # o => Unseen(x)
    PROVE  /\ state' = [state EXCEPT ![o] = state'[o]]
           /\ tries' = [tries EXCEPT ![o] = tries'[o]]
           /\ hands' = [hands EXCEPT ![o] = hands'[o]]
<1>1. \A x \in Operation : x # o =>
         state'[x] = state[x] /\ tries'[x] = tries[x] /\ hands'[x] = hands[x]
  BY UnseenSame
<1> QED BY <1>1, ViewFunctions

(* Which operations a step of one worker can show.                         *)
LEMMA OthersUnseen ==
    ASSUME OInv, NEW o \in Operation,
           \A x \in Operation : x # o => op'[x] = op[x],
           \A v \in Worker : \/ worker'[v] = worker[v]
                             \/ worker[v].op \in {0, o} /\ worker'[v].op \in {0, o}
    PROVE  \A x \in Operation : x # o => Unseen(x)
BY DEF Unseen, Executing, Operation

LEMMA NobodyMoves ==
    ASSUME OInv, op' = op,
           \A v \in Worker :
              \/ worker'[v] = worker[v]
              \/ worker'[v].op = 0 /\ (worker[v].op = 0 \/ worker[v].at = "failArchive")
              \/ /\ worker'[v].op = worker[v].op
                 /\ worker'[v].at # "failArchive" /\ worker[v].at # "failArchive"
    PROVE  UNCHANGED Claims!vars
<1>1. \A o \in Operation : Unseen(o) BY DEF Unseen, Executing, Operation
<1> QED BY <1>1, AllUnseen

(* A worker that leaves its operation leaves it to a recovery.             *)
LEMMA Leaves ==
    ASSUME OInv, NEW w \in Worker, NEW f, f.op = 0, op' = op,
           worker' = [worker EXCEPT ![w] = f]
    PROVE  [Claims!Next]_(Claims!vars)
<1>1. worker'[w] = f /\ \A v \in Worker : v # w => worker'[v] = worker[v]
  BY DEF OInv, TypeOK
<1>2. CASE ~Busy(w) \/ worker[w].at = "failArchive"
  BY <1>1, <1>2, NobodyMoves DEF Busy
<1>3. CASE Busy(w) /\ worker[w].at # "failArchive"
  <2>1. PICK o \in Operation : o = worker[w].op BY <1>3, BusyShape
  <2>2. Executing(w, o) /\ Sole(o) /\ o # 0 BY <1>3, <2>1 DEF Executing, OInv, Operation
  <2>3. \A x \in Operation : x # o => Unseen(x)
    BY <1>1, <2>1, OthersUnseen
  <2>4. CASE op[o].disputed
    <3>1. Unseen(o) BY <2>4 DEF Unseen
    <3> QED BY <2>3, <3>1, AllUnseen
  <2>5. CASE ~op[o].disputed
    <3>1. /\ op[o].status \in {"PROCESSING", "SUCCEEDED"}
          /\ \A v \in Worker : Executing(v, o) => v = w
      BY <2>2, <2>5 DEF Sole
    <3>2. hands[o] = {w} BY <2>2, <2>5, <3>1, Views DEF View
    <3>3. \A v \in Worker : ~Executing(v, o)'
      BY <1>1, <2>2, <3>1 DEF Executing
    <3>4. hands'[o] = {} BY <2>5, <3>3, Views DEF View
    <3>5. state'[o] = state[o] /\ tries'[o] = tries[o] /\ state[o] \in {"running", "done"}
      BY <2>5, <3>1, Views DEF View
    <3>6. /\ state' = [state EXCEPT ![o] = state[o]] /\ tries' = [tries EXCEPT ![o] = tries[o]]
          /\ hands' = [hands EXCEPT ![o] = {}]
      BY <2>3, <3>4, <3>5, OneSeen
    <3>7. state' = state /\ tries' = tries BY <3>6, ViewFunctions
    <3>8. Claims!Leave(o, w)
      BY <3>2, <3>5, <3>6, <3>7 DEF Claims!Leave, Claims!Hand
    <3> QED BY <3>8 DEF Claims!Next
  <2> QED BY <2>4, <2>5
<1> QED BY <1>2, <1>3

(* The calls of a worker show nothing.                                     *)
LEMMA CallsMove ==
    ASSUME OInv, NEW w \in Worker,
           \/ Begin(w) \/ Upload(w) \/ PutManifest(w) \/ Record(w) \/ Load(w) \/ Check(w)
           \/ Verified(w) \/ Delete(w) \/ Remove(w) \/ Deleted(w) \/ CallThrows(w)
    PROVE  /\ op' = op /\ \A v \in Worker : v # w => worker'[v] = worker[v]
           /\ worker'[w].op = worker[w].op
           /\ worker'[w].at # "failArchive" /\ worker[w].at # "failArchive"
           /\ worker'[w].found \in {worker[w].found, {}}
<1>1. /\ worker \in [Worker -> Frame] /\ worker[w] \in Frame
      /\ op' = op /\ worker[w].at # "failArchive"
  BY DEF OInv, TypeOK, Begin, Upload, PutManifest, Record, Load, Check, Verified, Delete,
     Remove, Deleted, CallThrows
<1> DEFINE Moved(f) ==
      /\ worker' = [worker EXCEPT ![w] = f]
      /\ f.op = worker[w].op /\ f.at # "failArchive" /\ f.found \in {worker[w].found, {}}
<1>2. ASSUME NEW f, Moved(f)
      PROVE  /\ \A v \in Worker : v # w => worker'[v] = worker[v]
             /\ worker'[w].op = worker[w].op /\ worker'[w].at # "failArchive"
             /\ worker'[w].found \in {worker[w].found, {}}
  BY <1>1, <1>2
<1>3. ASSUME NEW at, at # "failArchive", Goto(w, at)
      PROVE  Moved([worker[w] EXCEPT !.at = at])
  BY <1>1, <1>3 DEF Goto, Frame
<1>4. ASSUME NEW code, Throw(w, code)
      PROVE  Moved([Idle EXCEPT !.at = "fail", !.op = worker[w].op,
                                !.run = worker[w].run, !.code = code])
  BY <1>1, <1>4 DEF Throw, Idle
<1>5. ASSUME NEW todo, RemoveNext(w, todo)
      PROVE  Moved([worker[w] EXCEPT !.todo = todo,
                       !.at = IF todo = {} THEN "deleted" ELSE "remove"])
  BY <1>1, <1>5 DEF RemoveNext, Frame
<1>6. ASSUME NEW seen, NEW at \in {"check", "verified"},
             worker' = [worker EXCEPT ![w] = [@ EXCEPT !.at = at, !.seen = seen]]
      PROVE  Moved([worker[w] EXCEPT !.at = at, !.seen = seen])
  BY <1>1, <1>6 DEF Frame
<1>7. \E f : Moved(f)
  <2> HIDE DEF Moved
  <2>1. CASE Begin(w) \/ Upload(w) \/ PutManifest(w) \/ Verified(w) \/ Deleted(w)
    BY <1>3, <2>1 DEF Begin, Upload, PutManifest, Verified, Deleted
  <2>2. CASE Record(w) \/ CallThrows(w)
    BY <1>3, <1>4, <2>2 DEF Record, CallThrows
  <2>3. CASE Load(w)
    <3>1. CASE \E code \in Code : Throw(w, code) BY <1>4, <3>1
    <3>2. CASE ~\E code \in Code : Throw(w, code)
      BY <1>6, <2>3, <3>2 DEF Load, Code
    <3> QED BY <3>1, <3>2
  <2>4. CASE Check(w)
    <3>1. CASE \E code \in Code : Throw(w, code) BY <1>4, <3>1
    <3>2. CASE ~\E code \in Code : Throw(w, code)
      BY <1>6, <2>4, <3>2 DEF Check, Code
    <3> QED BY <3>1, <3>2
  <2>5. CASE Delete(w) \/ Remove(w)
    <3>1. CASE \E todo : RemoveNext(w, todo) BY <1>5, <3>1
    <3>2. CASE ~\E todo : RemoveNext(w, todo)
      BY <1>4, <2>5, <3>2 DEF Delete, Remove
    <3> QED BY <3>1, <3>2
  <2> QED BY <2>1, <2>2, <2>3, <2>4, <2>5
<1> QED
  <2>1. PICK f : Moved(f) BY <1>7
  <2> HIDE DEF Moved
  <2> QED BY <1>1, <1>2, <2>1

(* A request, which an administrator or the retention job makes.           *)
LEMMA QueueRequests ==
    ASSUME BInv, NEW type, Queue(type), worker' = worker
    PROVE  Claims!Next
<1> DEFINE row == [NoRow EXCEPT !.status = "PENDING", !.type = type]
<1>1. PICK o \in Operation : op[o].status = "absent" /\ op' = [op EXCEPT ![o] = row]
  BY DEF Queue, Requested
<1>2. row.status \in Waiting /\ row.attempts = 0 /\ ~row.disputed BY DEF NoRow, Waiting
<1> HIDE DEF row
<1>3. op'[o] = row /\ \A x \in Operation : x # o => op'[x] = op[x]
  BY <1>1 DEF BInv, OInv, TypeOK
<1>4. \A x \in Operation : x # o => Unseen(x) BY <1>3, OthersUnseen DEF BInv
<1>5. \A w \in Worker : ~Executing(w, o)
  BY <1>1, BusyShape DEF Busy, Operation, Executing, BInv
<1>6. \A w \in Worker : ~Executing(w, o)' BY <1>5 DEF Executing
<1>7. ~op[o].disputed /\ op[o].attempts = 0 /\ state[o] = "none"
  BY <1>1, Views DEF BInv, Existing, Budgeted, View
<1>8. tries'[o] = tries[o] /\ hands'[o] = hands[o] /\ state'[o] = "waiting"
  BY <1>2, <1>3, <1>5, <1>6, <1>7, Views DEF View
<1>9. /\ state' = [state EXCEPT ![o] = "waiting"]
      /\ tries' = [tries EXCEPT ![o] = tries[o]] /\ hands' = [hands EXCEPT ![o] = hands[o]]
  BY <1>4, <1>8, OneSeen DEF BInv
<1>10. tries' = tries /\ hands' = hands BY <1>9, ViewFunctions
<1>11. Claims!Request(o) BY <1>7, <1>9, <1>10 DEF Claims!Request, Claims!To
<1> QED BY <1>11 DEF Claims!Next

(* An operation becomes disputed, or was so before.                        *)
LEMMA Disputes ==
    ASSUME OInv, NEW o \in Operation, op'[o].disputed,
           \A x \in Operation : x # o => Unseen(x),
           op[o].disputed \/ op[o].status # "absent"
    PROVE  [Claims!Next]_(Claims!vars)
<1>1. CASE op[o].disputed
  <2>1. Unseen(o) BY <1>1 DEF Unseen
  <2> QED BY <2>1, AllUnseen
<1>2. CASE ~op[o].disputed
  <2>1. op[o].status \in {"absent", "PROCESSING"} \cup Waiting \cup Final
    BY DEF OInv, TypeOK, Row
  <2>2. state[o] \notin {"none", "disputed"} BY <1>2, <2>1, Views DEF View, Final
  <2>3. state'[o] = "disputed" /\ tries'[o] = 0 /\ hands'[o] = {} BY Views DEF View
  <2>4. Claims!Dispute(o)
    BY <2>2, <2>3, OneSeen DEF Claims!Dispute, Claims!To, Claims!Hand
  <2> QED BY <2>4 DEF Claims!Next
<1> QED BY <1>1, <1>2

LEMMA HourDisputes ==
    ASSUME BInv, NEW o \in Operation, HourPasses(o)
    PROVE  [Claims!Next]_(Claims!vars)
<1> DEFINE row == [op[o] EXCEPT !.old = TRUE,
                     !.disputed = op[o].disputed \/ \E w \in Worker : worker[w].op = o]
<1>1. OInv /\ op[o] \in Row /\ op[o].status = "PROCESSING"
  BY DEF BInv, OInv, TypeOK, HourPasses
<1>2. row.status = op[o].status /\ row.attempts = op[o].attempts
      /\ row.disputed = (op[o].disputed \/ \E w \in Worker : worker[w].op = o)
      /\ row.disputed \in BOOLEAN
  BY <1>1 DEF Row
<1>3. op' = [op EXCEPT ![o] = row] /\ worker' = worker BY DEF HourPasses
<1> HIDE DEF row
<1>4. op'[o] = row /\ \A x \in Operation : x # o => op'[x] = op[x]
  BY <1>1, <1>3 DEF OInv, TypeOK
<1>5. \A x \in Operation : x # o => Unseen(x) BY <1>1, <1>3, <1>4, OthersUnseen
<1>6. CASE row.disputed BY <1>1, <1>4, <1>5, <1>6, Disputes
<1>7. CASE ~row.disputed
  <2>1. Unseen(o) BY <1>1, <1>2, <1>3, <1>4, <1>7 DEF Unseen, Executing, Row
  <2> QED BY <1>1, <1>5, <2>1, AllUnseen
<1> QED BY <1>2, <1>6, <1>7

(* What a worker reports of the operation it executes.                     *)
LEMMA Reports ==
    ASSUME OInv, NEW w \in Worker, worker[w].at \in {"succeed", "fail"},
           NEW o \in Operation, o = worker[w].op,
           NEW status \in {"SUCCEEDED", "FAILED", "RETRYING"}, NEW f,
           op' = Settled(o, status),
           worker' = [worker EXCEPT ![w] = f], f.op \in {0, o}
    PROVE  /\ \A x \in Operation : x # o => Unseen(x)
           /\ op'[o].status = status /\ op'[o].attempts = op[o].attempts
           /\ op'[o].disputed = op[o].disputed
           /\ ~op[o].disputed =>
                /\ op[o].attempts = worker[w].run
                /\ op[o].status \in {"PROCESSING", "SUCCEEDED"}
                /\ worker[w].at = "succeed" => op[o].status = "PROCESSING"
                /\ hands[o] = {w}
                /\ hands'[o] = IF f.op = 0 \/ f.at = "failArchive" THEN {} ELSE {w}
<1>2. /\ worker'[w] = f /\ \A v \in Worker : v # w => worker'[v] = worker[v]
  BY DEF OInv, TypeOK
<1>3. op[o] \in Row /\ Sole(o) /\ o # 0 BY DEF OInv, TypeOK, Operation
<1>4. /\ op'[o].status = status /\ op'[o].attempts = op[o].attempts
      /\ op'[o].disputed = op[o].disputed
      /\ \A x \in Operation : x # o => op'[x] = op[x]
  BY <1>3 DEF Settled, OInv, TypeOK, Row
<1>5. \A x \in Operation : x # o => Unseen(x) BY <1>2, <1>4, OthersUnseen
<1>6. Executing(w, o) BY DEF Executing
<1>7. ASSUME ~op[o].disputed
      PROVE  /\ op[o].attempts = worker[w].run
             /\ op[o].status \in {"PROCESSING", "SUCCEEDED"}
             /\ worker[w].at = "succeed" => op[o].status = "PROCESSING"
             /\ hands[o] = {w}
             /\ hands'[o] = IF f.op = 0 \/ f.at = "failArchive" THEN {} ELSE {w}
  <2>1. \A v \in Worker : Executing(v, o) => v = w BY <1>3, <1>6, <1>7 DEF Sole
  <2>2. hands[o] = {w} BY <1>6, <1>7, <2>1, Views DEF View
  <2>3. \A v \in Worker : Executing(v, o)' <=>
           v = w /\ f.op # 0 /\ f.at # "failArchive"
    BY <1>2, <1>3, <2>1 DEF Executing
  <2>4. hands'[o] = {v \in Worker : Executing(v, o)'}
    BY <1>4, <1>7, Views DEF View
  <2>5. hands'[o] = IF f.op = 0 \/ f.at = "failArchive" THEN {} ELSE {w}
    BY <2>3, <2>4
  <2> QED BY <1>3, <1>6, <1>7, <2>2, <2>5 DEF Sole
<1> QED BY <1>4, <1>5, <1>7

LEMMA SucceedReports ==
    ASSUME OInv, NEW w \in Worker, Succeed(w)
    PROVE  [Claims!Next]_(Claims!vars)
<1>1. PICK f : worker' = [worker EXCEPT ![w] = f] /\ f.op \in {0, worker[w].op}
  BY DEF Succeed, Throw, Idle
<1>2. worker[w].at = "succeed" /\ op' = Settled(worker[w].op, "SUCCEEDED") BY DEF Succeed
<1>a. PICK o \in Operation : o = worker[w].op BY <1>2, AtCall, BusyShape DEF Ending
<1>b. /\ worker[w].at \in {"succeed", "fail"} /\ f.op \in {0, o}
      /\ op' = Settled(o, "SUCCEEDED") /\ "SUCCEEDED" \in {"SUCCEEDED", "FAILED", "RETRYING"}
  BY <1>1, <1>2, <1>a
<1>3.   /\ \A x \in Operation : x # o => Unseen(x)
        /\ op'[o].status = "SUCCEEDED" /\ op'[o].attempts = op[o].attempts
        /\ op'[o].disputed = op[o].disputed
        /\ ~op[o].disputed =>
             /\ op[o].status = "PROCESSING" /\ hands[o] = {w}
             /\ hands'[o] = IF f.op = 0 \/ f.at = "failArchive" THEN {} ELSE {w}
  BY <1>1, <1>2, <1>a, <1>b, Reports
<1>4. CASE op[o].disputed
  <2>1. Unseen(o) BY <1>3, <1>4 DEF Unseen
  <2> QED BY <1>3, <2>1, AllUnseen
<1>5. CASE ~op[o].disputed
  <2>1. state[o] = "running" /\ state'[o] = "done" /\ tries'[o] = tries[o]
    BY <1>3, <1>5, Views DEF View
  <2>2. /\ state' = [state EXCEPT ![o] = "done"] /\ tries' = [tries EXCEPT ![o] = tries[o]]
        /\ hands' = [hands EXCEPT ![o] = hands'[o]]
    BY <1>3, <2>1, OneSeen
  <2>3. tries' = tries /\ (hands'[o] = hands[o] => hands' = hands)
    BY <2>2, ViewFunctions
  <2>4. Claims!Succeed(o, w)
    BY <1>3, <1>5, <2>1, <2>2, <2>3 DEF Claims!Succeed, Claims!To, Claims!Hand
  <2> QED BY <2>4 DEF Claims!Next
<1> QED BY <1>4, <1>5

LEMMA FailReports ==
    ASSUME OInv, NEW w \in Worker, Fail(w)
    PROVE  [Claims!Next]_(Claims!vars)
<1>0. worker[w] \in Frame BY DEF OInv, TypeOK
<1>1. PICK f : /\ worker' = [worker EXCEPT ![w] = f] /\ f.op \in {0, worker[w].op}
               /\ f.op = 0 \/ f.at = "failArchive"
  <2>0. Idle.op = 0 BY DEF Idle
  <2>1. CASE worker' = [worker EXCEPT ![w] = Idle] BY <2>0, <2>1
  <2>2. CASE Goto(w, "failArchive")
    <3>1. PICK f : f = [worker[w] EXCEPT !.at = "failArchive"] OBVIOUS
    <3>2. f.op = worker[w].op /\ f.at = "failArchive" BY <1>0, <3>1 DEF Frame
    <3> QED BY <2>2, <3>1, <3>2 DEF Goto
  <2> QED BY <2>1, <2>2 DEF Fail
<1>2. PICK status \in {"FAILED", "RETRYING"} :
         /\ op' = Settled(worker[w].op, status) /\ worker[w].at = "fail"
         /\ status = "RETRYING" => worker[w].run < MaxAttempts
  BY DEF Fail
<1>a. PICK o \in Operation : o = worker[w].op BY <1>2, AtCall, BusyShape DEF Ending
<1>b. /\ worker[w].at \in {"succeed", "fail"} /\ f.op \in {0, o}
      /\ op' = Settled(o, status) /\ status \in {"SUCCEEDED", "FAILED", "RETRYING"}
      /\ worker' = [worker EXCEPT ![w] = f] /\ o = worker[w].op
  BY <1>1, <1>2, <1>a
<1>3.   /\ \A x \in Operation : x # o => Unseen(x)
        /\ op'[o].status = status /\ op'[o].attempts = op[o].attempts
        /\ op'[o].disputed = op[o].disputed
        /\ ~op[o].disputed =>
             /\ op[o].attempts = worker[w].run
             /\ op[o].status \in {"PROCESSING", "SUCCEEDED"}
             /\ hands[o] = {w}
             /\ hands'[o] = IF f.op = 0 \/ f.at = "failArchive" THEN {} ELSE {w}
  BY <1>b, Reports
<1>4. CASE op[o].disputed
  <2>1. Unseen(o) BY <1>3, <1>4 DEF Unseen
  <2> QED BY <1>3, <2>1, AllUnseen
<1>5. CASE ~op[o].disputed
  <2>1. /\ state[o] \in {"running", "done"} /\ tries'[o] = tries[o]
        /\ tries[o] = worker[w].run
        /\ state'[o] = IF status = "FAILED" THEN "failed" ELSE "waiting"
    BY <1>2, <1>3, <1>5, Views DEF View, Waiting
  <2>2. /\ state' = [state EXCEPT ![o] = state'[o]] /\ tries' = [tries EXCEPT ![o] = tries[o]]
        /\ hands' = [hands EXCEPT ![o] = {}]
    BY <1>1, <1>3, <1>5, <2>1, OneSeen
  <2>3. tries' = tries BY <2>2, ViewFunctions
  <2>4. Claims!To(o, "failed") \/ (tries[o] < MaxAttempts /\ Claims!To(o, "waiting"))
    BY <1>2, <2>1, <2>2 DEF Claims!To
  <2>5. Claims!Fail(o, w)
    BY <1>3, <1>5, <2>1, <2>2, <2>3, <2>4 DEF Claims!Fail, Claims!Hand
  <2> QED BY <2>5 DEF Claims!Next
<1> QED BY <1>4, <1>5

(* A claim: whoever waits is in nobody's hands, and within its limit.      *)
LEMMA ClaimTakes ==
    ASSUME BInv, NEW w \in Worker, claimBackupOperation(w)
    PROVE  [Claims!Next]_(Claims!vars)
<1>0. OInv BY DEF BInv
<1>1. PICK o \in Operation :
         /\ Due(o)
         /\ op' = [op EXCEPT ![o].status = "PROCESSING",
                             ![o].attempts = @ + 1, ![o].old = FALSE]
         /\ worker' = [worker EXCEPT ![w] = [Idle EXCEPT !.at = First(o),
                             !.op = o, !.run = op[o].attempts + 1]]
  BY DEF claimBackupOperation
<1>2. /\ op[o] \in Row /\ op[o].status \in Waiting /\ Sole(o) /\ o # 0
      /\ worker[w].op = 0
  <2>1. worker[w].at = "idle" /\ Placed(w) BY <1>0 DEF claimBackupOperation, OInv
  <2>2. worker[w].op = 0
    BY <2>1 DEF Placed, Busy, Creating, Verifying, Deleting, Ending
  <2> QED BY <1>0, <1>1, <2>2 DEF OInv, TypeOK, Due, Operation
<1>3. /\ op'[o].status = "PROCESSING" /\ op'[o].attempts = op[o].attempts + 1
      /\ op'[o].disputed = op[o].disputed
      /\ \A x \in Operation : x # o => op'[x] = op[x]
  BY <1>0, <1>1, <1>2 DEF OInv, TypeOK, Row
<1>4. /\ worker'[w].op = o /\ worker'[w].at = First(o)
      /\ \A v \in Worker : v # w => worker'[v] = worker[v]
  BY <1>0, <1>1 DEF OInv, TypeOK, Idle
<1>5. First(o) # "failArchive" BY <1>2 DEF First, Row
<1>6. \A x \in Operation : x # o => Unseen(x) BY <1>0, <1>2, <1>3, <1>4, OthersUnseen
<1>7. CASE op[o].disputed
  <2>1. Unseen(o) BY <1>3, <1>7 DEF Unseen
  <2> QED BY <1>0, <1>6, <2>1, AllUnseen
<1>8. CASE ~op[o].disputed
  <2>1. \A v \in Worker : ~Executing(v, o) BY <1>2, <1>8 DEF Sole, Waiting
  <2>2. \A v \in Worker : Executing(v, o)' <=> v = w
    BY <1>4, <1>5, <2>1 DEF Executing
  <2>3. /\ state[o] = "waiting" /\ hands[o] = {} /\ tries[o] = op[o].attempts
        /\ state'[o] = "running" /\ hands'[o] = {w} /\ tries'[o] = tries[o] + 1
    BY <1>2, <1>3, <1>8, <2>1, <2>2, Views DEF View
  <2>4. tries[o] < MaxAttempts BY <2>3 DEF BInv, Budgeted
  <2>5. /\ state' = [state EXCEPT ![o] = "running"] /\ tries' = [tries EXCEPT ![o] = tries[o] + 1]
        /\ hands' = [hands EXCEPT ![o] = {w}]
    BY <1>0, <1>6, <2>3, OneSeen
  <2>6. Claims!Claim(o, w)
    BY <2>3, <2>4, <2>5 DEF Claims!Claim, Claims!To, Claims!Hand
  <2> QED BY <2>6 DEF Claims!Next
<1> QED BY <1>7, <1>8

(* A recovery: of what nobody disputes afterwards nobody has the claim.    *)
LEMMA ReviveRecovers ==
    ASSUME BInv, NEW w \in Worker, Revive(w)
    PROVE  [Claims!Next]_(Claims!vars)
<1>0. OInv BY DEF BInv
<1>1. PICK e \in worker[w].found :
         /\ op' = [op EXCEPT ![e[1]] = [@ EXCEPT
              !.status = IF e[2] >= MaxAttempts THEN "FAILED" ELSE "RETRYING",
              !.old = FALSE,
              !.disputed = \/ op[e[1]].disputed \/ ~Abandoned(e[1])
                           \/ e[2] # op[e[1]].attempts]]
         /\ ReviveNext(w, worker[w].found \ {e})
  BY DEF Revive
<1>2. worker[w].found \subseteq Operation \X Execution /\ worker[w].at = "revive"
      /\ worker[w] \in Frame
  BY <1>0 DEF OInv, TypeOK, Frame, Revive
<1>3. PICK o \in Operation : o = e[1] BY <1>1, <1>2
<1>4. PICK row : row = [op[o] EXCEPT
              !.status = IF e[2] >= MaxAttempts THEN "FAILED" ELSE "RETRYING",
              !.old = FALSE,
              !.disputed = op[o].disputed \/ ~Abandoned(o) \/ e[2] # op[o].attempts]
  OBVIOUS
<1>5. op[o] \in Row /\ Sole(o) /\ o # 0 /\ op[o].status # "absent"
  BY <1>0, <1>1, <1>3 DEF OInv, TypeOK, Operation, BInv, Existing
<1>6. /\ row.status = (IF e[2] >= MaxAttempts THEN "FAILED" ELSE "RETRYING")
      /\ row.attempts = op[o].attempts
      /\ row.disputed = (op[o].disputed \/ ~Abandoned(o) \/ e[2] # op[o].attempts)
  BY <1>4, <1>5 DEF Row
<1>7. op' = [op EXCEPT ![o] = row] BY <1>1, <1>3, <1>4
<1>8. op'[o] = row /\ \A x \in Operation : x # o => op'[x] = op[x]
  BY <1>0, <1>7 DEF OInv, TypeOK
<1>9. PICK f \in Frame : Free(f) /\ worker' = [worker EXCEPT ![w] = f]
  BY <1>0, <1>1, <1>2, ReviveShape
<1>10. /\ worker'[w].op = 0 /\ worker[w].op = 0
       /\ \A v \in Worker : v # w => worker'[v] = worker[v]
  <2>1. worker[w].op = 0
    BY <1>0, <1>2 DEF OInv, Placed, Busy, Creating, Verifying, Deleting, Ending
  <2> QED BY <1>0, <1>9, <2>1 DEF OInv, TypeOK, Free
<1>11. \A x \in Operation : x # o => Unseen(x) BY <1>0, <1>8, <1>10, OthersUnseen
<1>12. CASE row.disputed BY <1>0, <1>5, <1>8, <1>11, <1>12, Disputes
<1>13. CASE ~row.disputed
  <2>1. /\ ~op[o].disputed /\ op[o].status = "PROCESSING" /\ op[o].old
        /\ e[2] = op[o].attempts
    BY <1>6, <1>13 DEF Abandoned
  <2>2. \A v \in Worker : ~Executing(v, o) BY <1>5, <2>1 DEF Sole, Executing
  <2>3. \A v \in Worker : ~Executing(v, o)' BY <1>5, <1>10, <2>2 DEF Executing
  <2>a. ~op'[o].disputed /\ op'[o].attempts = op[o].attempts BY <1>6, <1>8, <1>13
  <2>b. hands[o] = {} /\ hands'[o] = {} BY <2>1, <2>a, <2>2, <2>3, Views DEF View
  <2>4. /\ state[o] = "running" /\ hands[o] = {} /\ tries[o] = op[o].attempts
        /\ hands'[o] = hands[o] /\ tries'[o] = tries[o]
    BY <2>1, <2>a, <2>b, Views DEF View
  <2>5. tries[o] \in Nat /\ MaxAttempts \in Nat
    BY <1>5, <2>4, BackupsAssumption DEF Row, Execution
  <2>6. state'[o] = IF tries[o] < MaxAttempts THEN "waiting" ELSE "failed"
    BY <1>6, <1>8, <1>13, <2>1, <2>4, <2>5, Views DEF View, Waiting
  <2>7. /\ state' = [state EXCEPT ![o] = state'[o]]
        /\ tries' = [tries EXCEPT ![o] = tries[o]] /\ hands' = [hands EXCEPT ![o] = hands[o]]
    BY <1>0, <1>11, <2>4, OneSeen
  <2>8. tries' = tries /\ hands' = hands BY <2>7, ViewFunctions
  <2>9. Claims!Recover(o)
    BY <2>4, <2>6, <2>7, <2>8 DEF Claims!Recover, Claims!To
  <2> QED BY <2>9 DEF Claims!Next
<1> QED BY <1>6, <1>12, <1>13

(* Every step is a step of the claimed operations, or none.                *)
LEMMA StepClaims ==
    ASSUME BInv, [Next]_vars
    PROVE  [Claims!Next]_(Claims!vars)
<1>0. OInv BY DEF BInv
<1>1. ASSUME NEW w \in Worker, Succeed(w) \/ Fail(w) \/ claimBackupOperation(w) \/ Revive(w)
      PROVE  [Claims!Next]_(Claims!vars)
  BY <1>0, <1>1, SucceedReports, FailReports, ClaimTakes, ReviveRecovers
<1>2. ASSUME NEW w \in Worker, CallThrows(w) \/ Execute(w), ~Succeed(w), ~Fail(w),
             ~FailArchive(w)
      PROVE  UNCHANGED Claims!vars
  <2>1. /\ op' = op /\ \A v \in Worker : v # w => worker'[v] = worker[v]
        /\ worker'[w].op = worker[w].op
        /\ worker'[w].at # "failArchive" /\ worker[w].at # "failArchive"
    BY <1>0, <1>2, CallsMove DEF Execute
  <2> QED BY <1>0, <2>1, NobodyMoves
<1>3. ASSUME NEW w \in Worker, FailArchive(w) \/ CatchThrows(w) \/ Crash(w)
      PROVE  [Claims!Next]_(Claims!vars)
  <2>1. Idle.op = 0 /\ Started.op = 0 BY DEF Idle, Started
  <2>2. PICK f : f.op = 0 /\ op' = op /\ worker' = [worker EXCEPT ![w] = f]
    BY <1>3, <2>1 DEF FailArchive, CatchThrows, Crash
  <2> QED BY <1>0, <2>2, Leaves
<1>4. ASSUME NEW w \in Worker, Recover(w) PROVE [Claims!Next]_(Claims!vars)
  <2>1. {<<o, op[o].attempts>> : o \in {x \in Operation : Abandoned(x)}}
           \in SUBSET (Operation \X Execution)
    BY <1>0 DEF OInv, TypeOK, Counted, Abandoned, Row
  <2>2. PICK f \in Frame : Free(f) /\ worker' = [worker EXCEPT ![w] = f]
    BY <1>0, <1>4, <2>1, ReviveShape DEF Recover
  <2> QED BY <1>0, <1>4, <2>2, Leaves DEF Free, Recover
<1>5. ASSUME NEW o \in Operation, HourPasses(o) PROVE [Claims!Next]_(Claims!vars)
  BY <1>5, HourDisputes
<1>6. CASE requestBackupOperation \/ Expire \/ backupRetention \/ UNCHANGED vars
  <2>1. worker' = worker BY <1>6 DEF requestBackupOperation, Expire, backupRetention, vars
  <2>2. CASE \E type : Queue(type) BY <2>1, <2>2, QueueRequests
  <2>3. CASE op' = op BY <1>0, <2>1, <2>3, NobodyMoves
  <2> QED BY <1>6, <2>2, <2>3 DEF requestBackupOperation, Expire, backupRetention, vars
<1> QED
  BY <1>1, <1>2, <1>3, <1>4, <1>5, <1>6 DEF Next, Work, Execute

(* The limit is kept by every step of ClaimedOperations.                   *)
LEMMA LimitKept ==
    ASSUME OInv, Budgeted, [Claims!Next]_(Claims!vars)
    PROVE  Budgeted'
<1>0. MaxAttempts \in Nat \ {0} BY BackupsAssumption
<1>1. CASE UNCHANGED Claims!vars BY <1>1 DEF Claims!vars, Budgeted
<1>2. ASSUME NEW o \in Operation,
             \/ Claims!Request(o) \/ Claims!Recover(o) \/ Claims!Dispute(o)
             \/ \E w \in Worker : \/ Claims!Claim(o, w) \/ Claims!Succeed(o, w)
                                  \/ Claims!Fail(o, w) \/ Claims!Leave(o, w)
      PROVE  Budgeted'
  <2>0. /\ tries[o] \in 0..MaxAttempts
        /\ state[o] = "waiting" => tries[o] < MaxAttempts
        /\ state[o] = "none" => tries[o] = 0
    BY DEF Budgeted
  <2>1. \A x \in Operation : x # o => state'[x] = state[x] /\ tries'[x] = tries[x]
    BY <1>2, ViewFunctions
       DEF Claims!Request, Claims!Recover, Claims!Dispute, Claims!Claim, Claims!Succeed,
           Claims!Fail, Claims!Leave, Claims!To
  <2>2. ASSUME NEW s, Claims!To(o, s) PROVE state'[o] = s
    BY <2>2, ViewFunctions DEF Claims!To
  <2>3. \/ tries' = tries /\ state' = state
        \/ tries' = tries /\ state'[o] \notin {"waiting", "none"}
        \/ tries' = tries /\ state'[o] = "waiting" /\ tries[o] < MaxAttempts
        \/ tries'[o] = 0 /\ state'[o] = "disputed"
        \/ tries'[o] = tries[o] + 1 /\ state'[o] = "running" /\ tries[o] < MaxAttempts
    <3>1. CASE Claims!Request(o) BY <1>0, <2>0, <2>2, <3>1 DEF Claims!Request
    <3>2. CASE Claims!Recover(o) BY <2>2, <3>2 DEF Claims!Recover
    <3>3. CASE Claims!Dispute(o)
      BY <2>2, <3>3, ViewFunctions DEF Claims!Dispute
    <3>4. CASE \E w \in Worker : Claims!Claim(o, w)
      BY <2>2, <3>4, ViewFunctions DEF Claims!Claim
    <3>5. CASE \E w \in Worker : Claims!Succeed(o, w) \/ Claims!Leave(o, w)
      BY <2>2, <3>5 DEF Claims!Succeed, Claims!Leave
    <3>6. CASE \E w \in Worker : Claims!Fail(o, w)
      BY <2>2, <3>6 DEF Claims!Fail
    <3> QED BY <1>2, <3>1, <3>2, <3>3, <3>4, <3>5, <3>6
  <2>4. /\ tries'[o] \in 0..MaxAttempts
        /\ state'[o] = "waiting" => tries'[o] < MaxAttempts
        /\ state'[o] = "none" => tries'[o] = 0
    BY <1>0, <2>0, <2>3
  <2> QED BY <2>1, <2>4 DEF Budgeted
<1> QED BY <1>1, <1>2 DEF Claims!Next

(* No row disappears.                                                      *)
LEMMA RowsGoOn ==
    ASSUME OInv, [Next]_vars, NEW o \in Operation
    PROVE  op'[o] = op[o] \/ op'[o].status # "absent"
<1>1. op \in [Operation -> Row] /\ op[o] \in Row BY DEF OInv, TypeOK
<1>2. ASSUME NEW x, NEW status \in {"SUCCEEDED", "FAILED", "RETRYING"},
             op' = Settled(x, status)
      PROVE  op'[o] = op[o] \/ op'[o].status # "absent"
  BY <1>1, <1>2 DEF Settled, Row
<1>3. ASSUME NEW type, Queue(type) PROVE op'[o] = op[o] \/ op'[o].status # "absent"
  <2>1. PICK x \in Operation : op' = [op EXCEPT ![x] =
                                        [NoRow EXCEPT !.status = "PENDING", !.type = type]]
    BY <1>3 DEF Queue
  <2> QED BY <1>1, <2>1 DEF NoRow
<1>4. ASSUME NEW w \in Worker, Succeed(w) \/ Fail(w)
      PROVE  op'[o] = op[o] \/ op'[o].status # "absent"
  BY <1>2, <1>4 DEF Succeed, Fail
<1>5. ASSUME NEW w \in Worker, claimBackupOperation(w)
      PROVE  op'[o] = op[o] \/ op'[o].status # "absent"
  <2>1. PICK x \in Operation : op' = [op EXCEPT ![x].status = "PROCESSING",
                                   ![x].attempts = @ + 1, ![x].old = FALSE]
    BY <1>5 DEF claimBackupOperation
  <2> QED BY <1>1, <2>1 DEF Row
<1>6. ASSUME NEW w \in Worker, Revive(w)
      PROVE  op'[o] = op[o] \/ op'[o].status # "absent"
  <2>1. PICK e \in worker[w].found :
           op' = [op EXCEPT ![e[1]] = [@ EXCEPT
              !.status = IF e[2] >= MaxAttempts THEN "FAILED" ELSE "RETRYING",
              !.old = FALSE,
              !.disputed = \/ op[e[1]].disputed \/ ~Abandoned(e[1])
                           \/ e[2] # op[e[1]].attempts]]
    BY <1>6 DEF Revive
  <2>2. CASE e[1] = o BY <1>1, <2>1, <2>2 DEF Row
  <2>3. CASE e[1] # o BY <1>1, <2>1, <2>3
  <2> QED BY <2>2, <2>3
<1>7. ASSUME NEW x \in Operation, HourPasses(x)
      PROVE  op'[o] = op[o] \/ op'[o].status # "absent"
  BY <1>1, <1>7 DEF HourPasses, Row
<1>8. CASE op' = op BY <1>8
<1>9. ASSUME NEW w \in Worker, Execute(w), ~Succeed(w), ~Fail(w) PROVE op' = op
  BY <1>9, CallsMove DEF Execute, FailArchive
<1> QED
  BY <1>3, <1>4, <1>5, <1>6, <1>7, <1>8, <1>9
     DEF Next, Work, CallThrows, CatchThrows, Crash, Recover, requestBackupOperation,
         Expire, backupRetention, vars

(* A worker's list comes from the rows, and is only ever shortened.        *)
LEMMA FoundGoOn ==
    ASSUME OInv, [Next]_vars, NEW v \in Worker, NEW e \in worker'[v].found
    PROVE  e \in worker[v].found \/ (e[1] \in Operation /\ op[e[1]].status # "absent")
<1>1. worker \in [Worker -> Frame] /\ worker[v] \in Frame BY DEF OInv, TypeOK
<1>2. CASE worker'[v] = worker[v] BY <1>2
<1>3. CASE worker'[v].found \in {worker[v].found, {}} BY <1>3
<1>4. ASSUME NEW w \in Worker, NEW f, worker' = [worker EXCEPT ![w] = f],
             f.found \in {worker[w].found, {}}
      PROVE  worker'[v].found \in {worker[v].found, {}}
  BY <1>1, <1>4
<1>5. Idle.found = {} /\ Started.found = {} BY DEF Idle, Started
<1>6. ASSUME NEW w \in Worker, Execute(w) \/ CallThrows(w), ~Succeed(w), ~Fail(w),
             ~FailArchive(w)
      PROVE  worker'[v].found \in {worker[v].found, {}}
  BY <1>6, CallsMove DEF Execute
<1>7. ASSUME NEW w \in Worker, \/ worker' = [worker EXCEPT ![w] = Idle]
                               \/ worker' = [worker EXCEPT ![w] = Started]
      PROVE  worker'[v].found \in {worker[v].found, {}}
  BY <1>4, <1>5, <1>7
<1>8. ASSUME NEW w \in Worker, Goto(w, "failArchive") \/ Throw(w, "RETRYABLE")
      PROVE  worker'[v].found \in {worker[v].found, {}}
  <2>1. CASE Goto(w, "failArchive") BY <1>1, <2>1 DEF Goto, Frame
  <2>2. CASE Throw(w, "RETRYABLE")
    <3>1. PICK f : f = [Idle EXCEPT !.at = "fail", !.op = worker[w].op,
                                    !.run = worker[w].run, !.code = "RETRYABLE"]
      OBVIOUS
    <3>2. f.found = {} BY <3>1 DEF Idle
    <3> QED BY <1>4, <2>2, <3>1, <3>2 DEF Throw
  <2> QED BY <1>8, <2>1, <2>2
<1>9. ASSUME NEW w \in Worker, claimBackupOperation(w)
      PROVE  worker'[v].found \in {worker[v].found, {}}
  BY <1>1, <1>9 DEF claimBackupOperation, Idle
<1>10. ASSUME NEW w \in Worker, NEW found, ReviveNext(w, found)
       PROVE  worker'[v].found = IF v = w THEN found ELSE worker[v].found
  BY <1>1, <1>10 DEF ReviveNext, Frame
<1>11. ASSUME NEW w \in Worker, Recover(w)
       PROVE  \/ worker'[v].found = worker[v].found
              \/ e[1] \in Operation /\ op[e[1]].status # "absent"
  BY <1>10, <1>11 DEF Recover, Abandoned
<1>12. ASSUME NEW w \in Worker, Revive(w)
       PROVE  e \in worker[v].found
  <2>1. PICK g \in worker[w].found : ReviveNext(w, worker[w].found \ {g})
    BY <1>12 DEF Revive
  <2> QED BY <1>10, <2>1
<1> QED
  BY <1>2, <1>3, <1>6, <1>7, <1>8, <1>9, <1>11, <1>12
     DEF Next, Work, Execute, CatchThrows, Crash, Succeed, Fail, FailArchive, HourPasses,
         requestBackupOperation, Expire, backupRetention, vars

LEMMA BSteps == ASSUME BInv, [Next]_vars PROVE BInv'
<1>0. OInv /\ OInv' BY OSteps DEF BInv
<1>1. Budgeted' BY <1>0, StepClaims, LimitKept DEF BInv
<1>2. \A o \in Operation : op[o].status # "absent" => op'[o].status # "absent"
  BY <1>0, RowsGoOn
<1>3. \A o \in Operation : op'[o].status = "absent" => ~op'[o].disputed
  BY <1>0, RowsGoOn DEF BInv, Existing
<1>4. ASSUME NEW w \in Worker, NEW e \in worker'[w].found PROVE op'[e[1]].status # "absent"
  <2>1. worker'[w].found \subseteq Operation \X Execution BY <1>0 DEF OInv, TypeOK, Frame
  <2>2. e[1] \in Operation /\ op[e[1]].status # "absent"
    BY <1>0, <2>1, FoundGoOn DEF BInv, Existing
  <2> QED BY <1>2, <2>2
<1> QED BY <1>0, <1>1, <1>3, <1>4 DEF BInv, Existing

LEMMA ClaimsStart == Init => Claims!Init /\ BInv
<1> SUFFICES ASSUME Init PROVE Claims!Init /\ BInv OBVIOUS
<1>0. MaxAttempts \in Nat \ {0} BY BackupsAssumption
<1>1. \A o \in Operation : /\ ~op[o].disputed /\ op[o].attempts = 0
                           /\ op[o].status \in {"absent", "PENDING"}
  BY DEF Init, NoRow
<1>2. \A w \in Worker : worker[w].op = 0 /\ worker[w].found = {}
  BY DEF Init, Started, Idle
<1>3. \A o \in Operation :
         state[o] \in {"none", "waiting"} /\ tries[o] = 0 /\ hands[o] = {}
  BY <1>1, <1>2, Views DEF View, Waiting, Executing, Operation
<1>4. Claims!Init BY <1>3, ViewFunctions DEF Claims!Init
<1>5. Budgeted BY <1>0, <1>3 DEF Budgeted
<1>6. Existing BY <1>1, <1>2 DEF Existing
<1> QED BY <1>4, <1>5, <1>6, InitOInv DEF BInv

-----------------------------------------------------------------------------
(* The operations and their workers implement ClaimedOperations, for any   *)
(* numbers of workers, operations, attempts and faults.                    *)
THEOREM ClaimsImplemented == Spec => ImplementsClaims
<1>1. BInv /\ [Next]_vars => BInv' BY BSteps
<1>2. BInv /\ [Next]_vars => [Claims!Next]_(Claims!vars) BY StepClaims
<1> QED BY <1>1, <1>2, ClaimsStart, PTL DEF Spec, ImplementsClaims, Claims!Spec

(* An operation that nobody disputes is claimed within its limit.          *)
THEOREM LimitHolds == Spec => []AttemptsWithinLimit
<1>1. BInv => AttemptsWithinLimit
  <2> SUFFICES ASSUME BInv, NEW o \in Operation, ~op[o].disputed
               PROVE  op[o].attempts <= MaxAttempts
    BY DEF AttemptsWithinLimit
  <2>1. tries[o] = op[o].attempts /\ tries[o] \in 0..MaxAttempts
    BY Views DEF View, BInv, Budgeted
  <2> QED BY <2>1, BackupsAssumption
<1>2. BInv /\ [Next]_vars => BInv' BY BSteps
<1> QED BY <1>1, <1>2, ClaimsStart, PTL DEF Spec
=============================================================================
