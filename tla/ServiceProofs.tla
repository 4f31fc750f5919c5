---------------------------- MODULE ServiceProofs -----------------------------
(* The proofs of three services beside the projects' records: the attachments' *)
(* storage, the refresh-token sessions and the runner of the nightly jobs.     *)
(* They share no state; each part has an inductive invariant of its own.       *)
EXTENDS StorageUpload, RefreshSessions, BatchRunner, SequenceTheorems, TLAPS

(* The cleanup d has deleted the pending row of u and is not done with it.     *)
Held(d, u) == d.kind = "DAILY" /\ d.at \in {"final", "remove"} /\ d.up = u

Auditing(a, u) == a.kind = "AUDIT" /\ a.at \in {"look", "remove"} /\ a.up = u

(* The audit a has found the object of u older than the grace.                 *)
Seen(a, u) == Auditing(a, u) /\ (a.again \/ "object" \notin a.todo)

(* The audit has looked a second time and found no final row of u.             *)
Cleared(a, u) == Auditing(a, u) /\ a.again /\ "row" \notin a.todo

(* A pending row is consumed once, by a completion or by the cleanup.          *)
Consumed(f, d, u) ==
  /\ ~f.issued => ~f.pending /\ ~f.row /\ f.lostBy = "NONE" /\ ~Held(d, u)
  /\ f.row => ~f.pending /\ ~Held(d, u)
  /\ Held(d, u) => ~f.pending
  /\ f.lostBy = "AUDIT" => f.late /\ ~f.pending /\ ~Held(d, u)
  /\ f.lostBy # "DAILY"

(* An object found old is past the time in which another could take its path,  *)
(* so what is recorded after the second look was recorded late.                *)
Aged(f, a, u) ==
  /\ f.object # "NONE" => f.kept <= f.age
  /\ Seen(a, u) => f.age >= Grace /\ (f.object = "NONE" \/ f.kept >= Grace)
  /\ Cleared(a, u) => (f.row => f.late \/ f.object = "NONE")

Sound(f, d, a, u) == Consumed(f, d, u) /\ Aged(f, a, u)

(* The audit removes only what both looks found unreferenced.                  *)
Convinced(a) == a.kind = "AUDIT" /\ a.at = "remove" => a.again /\ a.todo = {}

StorageInv ==
  /\ StorageTypeOK /\ Convinced(handler["audit"])
  /\ \A u \in Upload : Sound(file[u], handler["daily"], handler["audit"], u)

LEMMA Numbers == Grace \in Nat /\ Retention \in Nat /\ TokenLife \in Nat /\ Oldest \in Nat
                 /\ TokenLife <= Grace /\ Grace <= Oldest /\ Retention <= Oldest
BY LivesAssumption DEF Oldest

LEMMA Jobs == /\ "daily" \in StorageProcess /\ "audit" \in StorageProcess
              /\ \A c \in Client : c # "daily" /\ c # "audit" /\ c \in StorageProcess
BY ClientAssumption DEF StorageProcess, StorageJob

LEMMA StorageInitInv == StorageInit => StorageInv
<1> SUFFICES ASSUME StorageInit PROVE StorageInv
  OBVIOUS
<1>1. Unused \in File
  BY Numbers DEF Unused, File
<1>2. \A u \in Upload : NoHandler(u) \in Handler
  BY DEF NoHandler, Handler
<1>3. handler \in [StorageProcess -> {NoHandler(u) : u \in Upload}]
  BY DEF StorageInit
<1>4. \A p \in StorageProcess : handler[p] \in Handler /\ handler[p].kind = "NONE"
  BY <1>2, <1>3 DEF NoHandler
<1>5. StorageTypeOK
  <2>1. handler \in [StorageProcess -> Handler]
    BY <1>3, <1>4
  <2>2. file \in [Upload -> File]
    BY <1>1 DEF StorageInit
  <2> QED BY <2>1, <2>2, LivesAssumption DEF StorageInit, StorageTypeOK
<1>6. ASSUME NEW u \in Upload PROVE Sound(file[u], handler["daily"], handler["audit"], u)
  <2>1. file[u] = Unused
    BY DEF StorageInit
  <2> QED BY <1>4, <2>1, Jobs DEF Unused, Sound, Consumed, Aged, Held, Seen, Cleared, Auditing
<1> QED BY <1>4, <1>5, <1>6, Jobs DEF StorageInv, Convinced

(* ------------------------- One process, one file ------------------------- *)
(* Of a file nobody names, nothing is said that such a step could disturb.     *)
LEMMA Elsewhere ==
  ASSUME StorageInv, NEW u \in Upload, NEW p \in StorageProcess, NEW h \in Handler,
         handler' = [handler EXCEPT ![p] = h], p \in Client \/ h.up = u,
         NEW v \in Upload, v # u, file'[v] = file[v]
  PROVE  Sound(file'[v], handler'["daily"], handler'["audit"], v)
<1>1. Sound(file[v], handler["daily"], handler["audit"], v) /\ handler \in [StorageProcess -> Handler]
  BY DEF StorageInv, StorageTypeOK
<1>2. Held(handler'["daily"], v) => Held(handler["daily"], v)
  BY <1>1, Jobs DEF Held
<1>3. /\ Seen(handler'["audit"], v) => Seen(handler["audit"], v)
      /\ Cleared(handler'["audit"], v) => Cleared(handler["audit"], v)
  BY <1>1, Jobs DEF Seen, Cleared, Auditing
<1> QED BY <1>1, <1>2, <1>3 DEF Sound, Consumed, Aged

LEMMA OneStep ==
  ASSUME StorageInv, NEW u \in Upload, NEW f \in File, file' = [file EXCEPT ![u] = f],
         NEW p \in StorageProcess, NEW h \in Handler, handler' = [handler EXCEPT ![p] = h],
         storageFaults' \in 0..MaxStorageFaults, p \in Client \/ h.up = u,
         p = "audit" => Convinced(h),
         Sound(f, IF p = "daily" THEN h ELSE handler["daily"],
                  IF p = "audit" THEN h ELSE handler["audit"], u)
  PROVE  StorageInv'
<1>1. file \in [Upload -> File] /\ handler \in [StorageProcess -> Handler]
      /\ Convinced(handler["audit"])
  BY DEF StorageInv, StorageTypeOK
<1>2. StorageTypeOK'
  BY <1>1 DEF StorageTypeOK
<1>3. /\ handler'["daily"] = IF p = "daily" THEN h ELSE handler["daily"]
      /\ handler'["audit"] = IF p = "audit" THEN h ELSE handler["audit"]
  BY <1>1, Jobs
<1>4. Convinced(handler'["audit"])
  BY <1>1, <1>3
<1>5. ASSUME NEW v \in Upload PROVE Sound(file'[v], handler'["daily"], handler'["audit"], v)
  <2>1. CASE v = u
    BY <1>1, <1>3, <2>1
  <2>2. CASE v # u
    <3>1. file'[v] = file[v]
      BY <1>1, <2>2
    <3> QED BY <2>2, <3>1, Elsewhere
  <2> QED BY <2>1, <2>2
<1> QED BY <1>2, <1>4, <1>5 DEF StorageInv

(* What a step may turn a handler into.                                        *)
Advanced(h, step) == [h EXCEPT !.at = step]

LEMMA Goes ==
  ASSUME StorageInv, NEW p \in StorageProcess
  PROVE  /\ handler[p] \in Handler /\ handler[p].up \in Upload
         /\ file[handler[p].up] \in File /\ file \in [Upload -> File]
         /\ Sound(file[handler[p].up], handler["daily"], handler["audit"], handler[p].up)
         /\ \A u \in Upload : NoHandler(u) \in Handler /\ NoHandler(u).up = u
         /\ HandlerDone(p) => handler' = [handler EXCEPT ![p] = NoHandler(handler[p].up)]
         /\ \A s \in {"start", "size", "insert", "undo", "remove", "forget",
                      "unlink", "claim", "final", "look"} :
              /\ Advanced(handler[p], s) \in Handler
              /\ HandlerGoto(p, s) => handler' = [handler EXCEPT ![p] = Advanced(handler[p], s)]
<1>1. handler \in [StorageProcess -> Handler] /\ file \in [Upload -> File]
  BY DEF StorageInv, StorageTypeOK
<1>2. handler[p] \in Handler
  BY <1>1
<1>3. handler[p].up \in Upload
  BY <1>2 DEF Handler
<1>4. \A u \in Upload : NoHandler(u) \in Handler /\ NoHandler(u).up = u
  BY DEF Handler, NoHandler
<1>5. HandlerDone(p) => handler' = [handler EXCEPT ![p] = NoHandler(handler[p].up)]
  BY <1>1 DEF HandlerDone
<1>6. ASSUME NEW s \in {"start", "size", "insert", "undo", "remove", "forget",
                        "unlink", "claim", "final", "look"}
      PROVE  /\ Advanced(handler[p], s) \in Handler
             /\ HandlerGoto(p, s) => handler' = [handler EXCEPT ![p] = Advanced(handler[p], s)]
  <2>1. Advanced(handler[p], s) \in Handler
    BY <1>2 DEF Handler, Advanced
  <2>2. HandlerGoto(p, s) => handler' = [handler EXCEPT ![p] = Advanced(handler[p], s)]
    BY <1>1, <1>2 DEF HandlerGoto, Advanced
  <2> QED BY <2>1, <2>2
<1> QED BY <1>1, <1>2, <1>3, <1>4, <1>5, <1>6 DEF StorageInv

LEMMA FaultTyped == StorageInv /\ (StorageFault \/ UNCHANGED storageFaults)
                      => storageFaults' \in 0..MaxStorageFaults
BY LivesAssumption DEF StorageInv, StorageTypeOK, StorageFault

(* ----------------------------- One file ---------------------------------- *)
LEMMA RemovedSound ==
  ASSUME NEW f \in File, NEW d, NEW a, NEW u, Sound(f, d, a, u),
         NEW by \in {"COMPLETE", "ABORT", "DELETE", "DAILY", "AUDIT"},
         by = "DAILY" => Held(d, u), by = "AUDIT" => Cleared(a, u)
  PROVE  ObjectRemoved(f, by) \in File /\ Sound(ObjectRemoved(f, by), d, a, u)
<1> DEFINE g == ObjectRemoved(f, by)
<1>1. g \in File /\ g.issued = f.issued /\ g.age = f.age /\ g.pending = f.pending /\ g.row = f.row
      /\ g.object = "NONE" /\ g.late = f.late
      /\ g.lostBy = IF f.row /\ f.object # "NONE" THEN by ELSE f.lostBy
  <2>1. 0 \in 0..Oldest
    BY Numbers
  <2>2. CASE f.row /\ f.object # "NONE"
    BY <2>1, <2>2 DEF ObjectRemoved, File
  <2>3. CASE ~(f.row /\ f.object # "NONE")
    BY <2>1, <2>3 DEF ObjectRemoved, File
  <2> QED BY <2>2, <2>3
<1> HIDE DEF g
<1>2. Consumed(g, d, u)
  BY <1>1 DEF Sound, Consumed, Aged
<1>3. Aged(g, a, u)
  BY <1>1 DEF Sound, Aged
<1> QED BY <1>1, <1>2, <1>3 DEF Sound, g

(* A job that lets go of a file leaves it as sound as it was.                  *)
LEMMA LetGo ==
  ASSUME NEW f, NEW d, NEW a, NEW e, NEW b, NEW u, Sound(f, d, a, u),
         Held(e, u) => Held(d, u), Seen(b, u) => Seen(a, u), Cleared(b, u) => Cleared(a, u)
  PROVE  Sound(f, e, b, u)
BY DEF Sound, Consumed, Aged

LEMMA Idle == \A u, v : LET h == NoHandler(u)
                        IN ~Held(h, v) /\ ~Seen(h, v) /\ ~Cleared(h, v) /\ Convinced(h)
BY DEF NoHandler, Held, Seen, Cleared, Auditing, Convinced

(* ----------------------------- The clients ------------------------------- *)
LEMMA ClientGoes ==
  ASSUME StorageInv, NEW c \in Client, storageFaults' \in 0..MaxStorageFaults,
         \/ HandlerDone(c)
         \/ \E s \in {"start", "size", "insert", "undo", "remove", "forget", "unlink"} :
              HandlerGoto(c, s),
         NEW u \in Upload, NEW f \in File, file' = [file EXCEPT ![u] = f],
         Sound(f, handler["daily"], handler["audit"], u)
  PROVE  StorageInv'
<1>1. c \in StorageProcess /\ c # "daily" /\ c # "audit"
  BY Jobs
<1>2. PICK h \in Handler : handler' = [handler EXCEPT ![c] = h]
  <2>1. CASE HandlerDone(c)
    BY <1>1, <2>1, Goes
  <2>2. CASE \E s \in {"start", "size", "insert", "undo", "remove", "forget", "unlink"} :
               HandlerGoto(c, s)
    BY <1>1, <2>2, Goes
  <2> QED BY <2>1, <2>2
<1> QED BY <1>1, <1>2, OneStep

LEMMA ClientReads ==
  ASSUME StorageInv, NEW c \in Client,
         FindPending(c) \/ CheckSize(c) \/ InsertFails(c) \/ FindReferences(c)
  PROVE  StorageInv'
<1>1. UNCHANGED file /\ storageFaults' \in 0..MaxStorageFaults
  BY FaultTyped DEF FindPending, CheckSize, InsertFails, FindReferences
<1>2. \/ HandlerDone(c)
      \/ \E s \in {"start", "size", "insert", "undo", "remove", "forget", "unlink"} : HandlerGoto(c, s)
  BY DEF FindPending, CheckSize, InsertFails, FindReferences
<1>3. file' = [file EXCEPT ![handler[c].up] = file[handler[c].up]]
  BY <1>1, Jobs, Goes
<1>4. /\ handler[c].up \in Upload /\ file[handler[c].up] \in File
      /\ Sound(file[handler[c].up], handler["daily"], handler["audit"], handler[c].up)
  BY Jobs, Goes
<1> QED BY <1>1, <1>2, <1>3, <1>4, ClientGoes

LEMMA ClientBegins ==
  ASSUME StorageInv, NEW c \in Client, NEW u \in Upload,
         Complete(c, u) \/ Abort(c, u) \/ DeleteFile(c, u)
  PROVE  StorageInv'
<1>1. PICK k \in {"COMPLETE", "ABORT", "DELETE"}, s \in {"start", "remove"} : HandlerBegin(c, k, u, s)
  BY DEF Complete, Abort, DeleteFile
<1>2. [NoHandler(u) EXCEPT !.kind = k, !.at = s] \in Handler
  BY DEF NoHandler, Handler
<1>3. file \in [Upload -> File] /\ Sound(file[u], handler["daily"], handler["audit"], u)
  BY DEF StorageInv, StorageTypeOK
<1>4. file' = [file EXCEPT ![u] = file[u]] /\ file[u] \in File
  BY <1>1, <1>3 DEF HandlerBegin
<1>5. storageFaults' \in 0..MaxStorageFaults
  BY <1>1, FaultTyped DEF HandlerBegin
<1>6. handler' = [handler EXCEPT ![c] = [NoHandler(u) EXCEPT !.kind = k, !.at = s]]
  BY <1>1 DEF HandlerBegin
<1> QED BY <1>2, <1>3, <1>4, <1>5, <1>6, Jobs, OneStep

LEMMA ClientRemoves ==
  ASSUME StorageInv, NEW c \in Client, Undo(c) \/ AbortRemove(c) \/ DeleteObject(c)
  PROVE  StorageInv'
<1> DEFINE u == handler[c].up
<1>1. u \in Upload /\ file[u] \in File /\ file \in [Upload -> File]
      /\ Sound(file[u], handler["daily"], handler["audit"], u)
  BY Jobs, Goes
<1>2. storageFaults' \in 0..MaxStorageFaults
  BY FaultTyped DEF Undo, AbortRemove, DeleteObject
<1>3. \/ HandlerDone(c)
      \/ \E s \in {"start", "size", "insert", "undo", "remove", "forget", "unlink"} : HandlerGoto(c, s)
  BY DEF Undo, AbortRemove, DeleteObject
<1>4. CASE UNCHANGED file
  <2>1. file' = [file EXCEPT ![u] = file[u]]
    BY <1>1, <1>4
  <2> QED BY <1>1, <1>2, <1>3, <2>1, ClientGoes
<1>5. CASE ~UNCHANGED file
  <2>1. PICK by \in {"COMPLETE", "ABORT", "DELETE"} :
          file' = [file EXCEPT ![u] = ObjectRemoved(file[u], by)]
    BY <1>1, <1>5 DEF Undo, AbortRemove, DeleteObject
  <2> HIDE DEF u
  <2>2. /\ ObjectRemoved(file[u], by) \in File
        /\ Sound(ObjectRemoved(file[u], by), handler["daily"], handler["audit"], u)
    BY <1>1, RemovedSound
  <2> QED BY <1>1, <1>2, <1>3, <2>1, <2>2, ClientGoes
<1> QED BY <1>4, <1>5

(* A pending row a completion consumes was not taken by the cleanup, and past  *)
(* the audit's first look the row it inserts is late.                          *)
LEMMA RecordSound ==
  ASSUME NEW f \in File, NEW d, NEW a, NEW u, Sound(f, d, a, u), f.pending
  PROVE  LET g == [f EXCEPT !.row = TRUE, !.pending = FALSE, !.late = f.kept >= Grace]
         IN g \in File /\ Sound(g, d, a, u)
<1> DEFINE g == [f EXCEPT !.row = TRUE, !.pending = FALSE, !.late = f.kept >= Grace]
<1>1. (f.kept >= Grace) \in BOOLEAN
  OBVIOUS
<1>2. g \in File /\ g.issued = f.issued /\ g.age = f.age /\ g.kept = f.kept /\ g.object = f.object
      /\ g.lostBy = f.lostBy /\ ~g.pending /\ g.row /\ (g.late <=> f.kept >= Grace)
  BY <1>1 DEF File
<1> HIDE DEF g
<1>3. ~f.row /\ ~Held(d, u) /\ f.lostBy # "AUDIT" /\ f.issued
  BY DEF Sound, Consumed
<1>4. Cleared(a, u) => Seen(a, u)
  BY DEF Cleared, Seen
<1>5. Consumed(g, d, u) /\ Aged(g, a, u)
  BY <1>2, <1>3, <1>4 DEF Sound, Consumed, Aged
<1> QED BY <1>2, <1>5 DEF Sound, g

LEMMA ForgetSound ==
  ASSUME NEW f \in File, NEW d, NEW a, NEW u, Sound(f, d, a, u)
  PROVE  LET g == [f EXCEPT !.pending = FALSE]  k == [f EXCEPT !.row = FALSE]
         IN g \in File /\ Sound(g, d, a, u) /\ k \in File /\ Sound(k, d, a, u)
<1> DEFINE g == [f EXCEPT !.pending = FALSE]
           k == [f EXCEPT !.row = FALSE]
<1>1. g \in File /\ g.issued = f.issued /\ g.age = f.age /\ g.kept = f.kept /\ g.object = f.object
      /\ g.lostBy = f.lostBy /\ ~g.pending /\ g.row = f.row /\ g.late = f.late
  BY DEF File
<1>2. k \in File /\ k.issued = f.issued /\ k.age = f.age /\ k.kept = f.kept /\ k.object = f.object
      /\ k.lostBy = f.lostBy /\ k.pending = f.pending /\ ~k.row /\ k.late = f.late
  BY DEF File
<1> HIDE DEF g, k
<1>3. Sound(g, d, a, u) /\ Sound(k, d, a, u)
  BY <1>1, <1>2 DEF Sound, Consumed, Aged
<1> QED BY <1>1, <1>2, <1>3 DEF g, k

LEMMA ClientRows ==
  ASSUME StorageInv, NEW c \in Client, InsertAndConsume(c) \/ ForgetPending(c) \/ DeleteRow(c)
  PROVE  StorageInv'
<1> DEFINE u == handler[c].up
           f == file[u]
           recorded == [f EXCEPT !.row = TRUE, !.pending = FALSE, !.late = f.kept >= Grace]
           forgotten == [f EXCEPT !.pending = FALSE]
           unlinked == [f EXCEPT !.row = FALSE]
<1>1. u \in Upload /\ f \in File /\ file \in [Upload -> File]
      /\ Sound(f, handler["daily"], handler["audit"], u)
  BY Jobs, Goes
<1>2. storageFaults' \in 0..MaxStorageFaults
  BY FaultTyped DEF InsertAndConsume, ForgetPending, DeleteRow
<1>3. \/ HandlerDone(c)
      \/ \E s \in {"start", "size", "insert", "undo", "remove", "forget", "unlink"} : HandlerGoto(c, s)
  BY DEF InsertAndConsume, ForgetPending, DeleteRow
<1>4. \/ file' = [file EXCEPT ![u] = f]
      \/ f.pending /\ file' = [file EXCEPT ![u] = recorded]
      \/ file' = [file EXCEPT ![u] = forgotten]
      \/ file' = [file EXCEPT ![u] = unlinked]
  BY <1>1 DEF InsertAndConsume, ForgetPending, DeleteRow
<1>5. f.pending => recorded \in File /\ Sound(recorded, handler["daily"], handler["audit"], u)
  BY <1>1, RecordSound
<1>6. /\ forgotten \in File /\ Sound(forgotten, handler["daily"], handler["audit"], u)
      /\ unlinked \in File /\ Sound(unlinked, handler["daily"], handler["audit"], u)
  BY <1>1, ForgetSound
<1> HIDE DEF u, f, recorded, forgotten, unlinked
<1> QED BY <1>1, <1>2, <1>3, <1>4, <1>5, <1>6, ClientGoes

(* ------------------------------- The browser ------------------------------ *)
LEMMA FileOnly ==
  ASSUME StorageInv, NEW u \in Upload, NEW f \in File, file' = [file EXCEPT ![u] = f],
         UNCHANGED <<handler, storageFaults>>,
         Sound(f, handler["daily"], handler["audit"], u)
  PROVE  StorageInv'
<1>1. file \in [Upload -> File] /\ StorageTypeOK'
  BY DEF StorageInv, StorageTypeOK
<1>2. ASSUME NEW v \in Upload PROVE Sound(file'[v], handler'["daily"], handler'["audit"], v)
  BY <1>1 DEF StorageInv
<1> QED BY <1>1, <1>2 DEF StorageInv

LEMMA Prepares ==
  ASSUME StorageInv, NEW u \in Upload, Prepare(u)
  PROVE  StorageInv'
<1> DEFINE f == file[u]
           g == [f EXCEPT !.issued = TRUE, !.pending = TRUE]
<1>1. f \in File /\ file \in [Upload -> File] /\ Sound(f, handler["daily"], handler["audit"], u)
  BY DEF StorageInv, StorageTypeOK
<1>2. ~f.issued /\ file' = [file EXCEPT ![u] = g] /\ UNCHANGED <<handler, storageFaults>>
  BY <1>1 DEF Prepare
<1>3. g \in File /\ g.issued /\ g.age = f.age /\ g.kept = f.kept /\ g.object = f.object
      /\ g.lostBy = f.lostBy /\ g.pending /\ g.row = f.row /\ g.late = f.late
  BY <1>1 DEF File
<1> HIDE DEF f, g
<1>4. Sound(g, handler["daily"], handler["audit"], u)
  BY <1>1, <1>2, <1>3 DEF Sound, Consumed, Aged
<1> QED BY <1>2, <1>3, <1>4, FileOnly

LEMMA Puts ==
  ASSUME StorageInv, NEW u \in Upload, NEW size \in {"WHOLE", "SHORT"}, PutObject(u, size)
  PROVE  StorageInv'
<1> DEFINE f == file[u]
           g == [f EXCEPT !.object = size, !.kept = 0]
<1>1. f \in File /\ file \in [Upload -> File] /\ Sound(f, handler["daily"], handler["audit"], u)
  BY DEF StorageInv, StorageTypeOK
<1>2. f.age < TokenLife /\ file' = [file EXCEPT ![u] = g] /\ UNCHANGED <<handler, storageFaults>>
  BY <1>1 DEF PutObject, TokenValid
<1>3. g \in File /\ g.issued = f.issued /\ g.age = f.age /\ g.kept = 0 /\ f.age \in 0..Oldest
      /\ g.lostBy = f.lostBy /\ g.pending = f.pending /\ g.row = f.row /\ g.late = f.late
  <2>1. 0 \in 0..Oldest
    BY Numbers
  <2> QED BY <1>1, <2>1 DEF File
<1> HIDE DEF f, g
<1>4. ~Seen(handler["audit"], u) /\ ~Cleared(handler["audit"], u)
  <2>1. ~(f.age >= Grace)
    BY <1>2, <1>3, Numbers
  <2> QED BY <1>1, <2>1 DEF Sound, Aged, Seen, Cleared
<1>5. Sound(g, handler["daily"], handler["audit"], u)
  <2>1. g.kept <= g.age
    BY <1>3, Numbers
  <2> QED BY <1>1, <1>3, <1>4, <2>1 DEF Sound, Consumed, Aged
<1> QED BY <1>2, <1>3, <1>5, FileOnly

(* ------------------------------- The cleanup ------------------------------ *)
LEMMA DailyGoes ==
  ASSUME StorageInv, NEW u \in Upload, NEW f \in File, file' = [file EXCEPT ![u] = f],
         NEW h \in Handler, handler' = [handler EXCEPT !["daily"] = h], h.up = u,
         storageFaults' \in 0..MaxStorageFaults, Sound(f, h, handler["audit"], u)
  PROVE  StorageInv'
BY Jobs, OneStep

LEMMA DailyLoads ==
  ASSUME StorageInv, NEW u \in Upload, DailyLoad(u)
  PROVE  StorageInv'
<1> DEFINE h == [NoHandler(u) EXCEPT !.kind = "DAILY", !.at = "claim"]
<1>1. h \in Handler /\ h.up = u /\ h.at = "claim"
  BY DEF NoHandler, Handler
<1>2. handler' = [handler EXCEPT !["daily"] = h] /\ UNCHANGED <<file, storageFaults>>
  BY DEF DailyLoad, HandlerBegin
<1>3. file \in [Upload -> File] /\ Sound(file[u], handler["daily"], handler["audit"], u)
      /\ storageFaults \in 0..MaxStorageFaults
  BY DEF StorageInv, StorageTypeOK
<1> HIDE DEF h
<1>4. Sound(file[u], h, handler["audit"], u)
  <2>1. ~Held(h, u)
    BY <1>1 DEF Held
  <2> QED BY <1>3, <2>1, LetGo
<1>5. file[u] \in File /\ file' = [file EXCEPT ![u] = file[u]]
  BY <1>2, <1>3
<1> QED BY <1>1, <1>2, <1>3, <1>4, <1>5, DailyGoes

LEMMA DailyClaims ==
  ASSUME StorageInv, ClaimPending
  PROVE  StorageInv'
<1> DEFINE d == handler["daily"]  u == d.up  f == file[u]  g == [f EXCEPT !.pending = FALSE]
           h == Advanced(d, "final")
<1>1. d \in Handler /\ u \in Upload /\ f \in File /\ file \in [Upload -> File]
      /\ Sound(f, d, handler["audit"], u)
  BY Jobs, Goes
<1>2. storageFaults' \in 0..MaxStorageFaults
  BY FaultTyped DEF ClaimPending
<1>3. CASE Expired(u)
  <2>1. f.pending /\ file' = [file EXCEPT ![u] = g] /\ HandlerGoto("daily", "final")
    BY <1>1, <1>3 DEF ClaimPending, Expired
  <2>2. h \in Handler /\ handler' = [handler EXCEPT !["daily"] = h]
    BY <2>1, Jobs, Goes
  <2>3. h.up = u
    BY <1>1 DEF Advanced, Handler
  <2>4. g \in File /\ g.issued = f.issued /\ g.age = f.age /\ g.kept = f.kept /\ g.object = f.object
        /\ g.lostBy = f.lostBy /\ ~g.pending /\ g.row = f.row /\ g.late = f.late
    BY <1>1 DEF File
  <2> HIDE DEF d, u, f, g, h
  <2>5. ~f.row /\ f.lostBy # "AUDIT" /\ f.issued
    BY <1>1, <2>1 DEF Sound, Consumed
  <2>6. Sound(g, h, handler["audit"], u)
    BY <1>1, <2>4, <2>5 DEF Sound, Consumed, Aged
  <2> QED BY <1>1, <1>2, <2>1, <2>2, <2>3, <2>4, <2>6, DailyGoes
<1>4. CASE ~Expired(u)
  <2>1. HandlerDone("daily") /\ UNCHANGED file
    BY <1>4 DEF ClaimPending
  <2>2. handler' = [handler EXCEPT !["daily"] = NoHandler(u)] /\ NoHandler(u) \in Handler
        /\ NoHandler(u).up = u
    BY <1>1, <2>1, Jobs, Goes
  <2>3. file' = [file EXCEPT ![u] = f]
    BY <1>1, <2>1
  <2> HIDE DEF d, u, f
  <2>4. Sound(f, NoHandler(u), handler["audit"], u)
    BY <1>1, Idle, LetGo
  <2> QED BY <1>1, <1>2, <2>2, <2>3, <2>4, DailyGoes
<1> QED BY <1>3, <1>4

LEMMA DailyChecks ==
  ASSUME StorageInv, HasFinalAttachment
  PROVE  StorageInv'
<1> DEFINE d == handler["daily"]  u == d.up  f == file[u]  h == Advanced(d, "remove")
<1>1. d \in Handler /\ u \in Upload /\ f \in File /\ file \in [Upload -> File]
      /\ Sound(f, d, handler["audit"], u)
  BY Jobs, Goes
<1>2. storageFaults' \in 0..MaxStorageFaults /\ file' = [file EXCEPT ![u] = f]
  BY <1>1, FaultTyped DEF HasFinalAttachment
<1>3. d.kind = "DAILY" /\ d.at = "final"
  BY DEF HasFinalAttachment, HandlerAt
<1>4. CASE HandlerGoto("daily", "remove")
  <2>1. h \in Handler /\ handler' = [handler EXCEPT !["daily"] = h]
    BY <1>4, Jobs, Goes
  <2>2. h.up = u /\ h.kind = "DAILY" /\ h.at = "remove"
    BY <1>1, <1>3 DEF Advanced, Handler
  <2> HIDE DEF d, f, h
  <2>3. Held(h, u) => Held(d, u)
    BY <1>3 DEF Held
  <2> HIDE DEF u
  <2>4. Sound(f, h, handler["audit"], u)
    BY <1>1, <2>3, LetGo
  <2> QED BY <1>1, <1>2, <2>1, <2>2, <2>4, DailyGoes
<1>5. CASE HandlerDone("daily")
  <2>1. handler' = [handler EXCEPT !["daily"] = NoHandler(u)] /\ NoHandler(u) \in Handler
        /\ NoHandler(u).up = u
    BY <1>1, <1>5, Jobs, Goes
  <2> HIDE DEF d, u, f
  <2>2. Sound(f, NoHandler(u), handler["audit"], u)
    BY <1>1, Idle, LetGo
  <2> QED BY <1>1, <1>2, <2>1, <2>2, DailyGoes
<1> QED BY <1>4, <1>5 DEF HasFinalAttachment

(* The cleanup holds what it removes: there is no final row.                   *)
LEMMA DailyRemoves ==
  ASSUME StorageInv, DailyRemove
  PROVE  StorageInv'
<1> DEFINE d == handler["daily"]  u == d.up  f == file[u]  a == handler["audit"]
           removed == ObjectRemoved(f, "DAILY")
<1>1. d \in Handler /\ u \in Upload /\ f \in File /\ file \in [Upload -> File] /\ Sound(f, d, a, u)
  BY Jobs, Goes
<1>2. storageFaults' \in 0..MaxStorageFaults
  BY FaultTyped DEF DailyRemove
<1>3. Held(d, u)
  BY DEF DailyRemove, HandlerAt, Held
<1>4. handler' = [handler EXCEPT !["daily"] = NoHandler(u)] /\ NoHandler(u) \in Handler
      /\ NoHandler(u).up = u
  BY <1>1, Jobs, Goes DEF DailyRemove
<1>5. CASE file' = [file EXCEPT ![u] = removed]
  <2> HIDE DEF d, u, f, a
  <2>1. removed \in File /\ Sound(removed, d, a, u)
    BY <1>1, <1>3, RemovedSound
  <2> HIDE DEF removed
  <2>2. Sound(removed, NoHandler(u), a, u)
    BY <2>1, Idle, LetGo
  <2> QED BY <1>1, <1>2, <1>4, <1>5, <2>1, <2>2, DailyGoes DEF a
<1>6. ASSUME NEW restored \in BOOLEAN,
             file' = [file EXCEPT ![u] = [f EXCEPT !.pending = f.pending \/ restored]]
      PROVE  StorageInv'
  <2> DEFINE g == [f EXCEPT !.pending = f.pending \/ restored]
  <2>1. g \in File /\ g.issued = f.issued /\ g.age = f.age /\ g.kept = f.kept /\ g.object = f.object
        /\ g.lostBy = f.lostBy /\ g.row = f.row /\ g.late = f.late
    BY <1>1 DEF File
  <2>2. file' = [file EXCEPT ![u] = g]
    BY <1>6
  <2> HIDE DEF d, u, f, a, g
  <2>3. f.issued /\ ~f.row /\ f.lostBy # "AUDIT"
    BY <1>1, <1>3 DEF Sound, Consumed
  <2>4. ~Held(NoHandler(u), u)
    BY Idle
  <2>5. Sound(g, NoHandler(u), a, u)
    BY <1>1, <2>1, <2>3, <2>4 DEF Sound, Consumed, Aged
  <2> QED BY <1>1, <1>2, <1>4, <2>1, <2>2, <2>5, DailyGoes DEF a
<1>7. \/ file' = [file EXCEPT ![u] = removed]
      \/ \E restored \in BOOLEAN :
           file' = [file EXCEPT ![u] = [f EXCEPT !.pending = f.pending \/ restored]]
  BY <1>1 DEF DailyRemove
<1> QED BY <1>5, <1>6, <1>7

(* -------------------------------- The audit ------------------------------- *)
LEMMA AuditGoes ==
  ASSUME StorageInv, NEW u \in Upload, NEW f \in File, file' = [file EXCEPT ![u] = f],
         NEW h \in Handler, handler' = [handler EXCEPT !["audit"] = h], h.up = u, Convinced(h),
         storageFaults' \in 0..MaxStorageFaults, Sound(f, handler["daily"], h, u)
  PROVE  StorageInv'
BY Jobs, OneStep

LEMMA AuditLoads ==
  ASSUME StorageInv, NEW u \in Upload, AuditLoad(u)
  PROVE  StorageInv'
<1> DEFINE h == [NoHandler(u) EXCEPT !.kind = "AUDIT", !.at = "look",
                                     !.todo = {"row", "pending", "object"}]
<1>1. h \in Handler /\ h.up = u /\ h.at = "look" /\ ~h.again /\ h.todo = {"row", "pending", "object"}
  BY DEF NoHandler, Handler, Ref
<1>2. handler' = [handler EXCEPT !["audit"] = h] /\ UNCHANGED <<file, storageFaults>>
  BY DEF AuditLoad
<1>3. file \in [Upload -> File] /\ Sound(file[u], handler["daily"], handler["audit"], u)
      /\ storageFaults \in 0..MaxStorageFaults
  BY DEF StorageInv, StorageTypeOK
<1> HIDE DEF h
<1>4. Convinced(h) /\ ~Seen(h, u) /\ ~Cleared(h, u)
  BY <1>1 DEF Convinced, Seen, Cleared
<1>5. Sound(file[u], handler["daily"], h, u)
  BY <1>3, <1>4, LetGo
<1>6. file[u] \in File /\ file' = [file EXCEPT ![u] = file[u]]
  BY <1>2, <1>3
<1> QED BY <1>1, <1>2, <1>3, <1>4, <1>5, <1>6, AuditGoes

(* A look that spares nothing: the row is absent, or the object is old.        *)
LEMMA LookSound ==
  ASSUME NEW f \in File, NEW d, NEW a \in Handler, NEW u, Sound(f, d, a, u), Auditing(a, u),
         NEW h \in Handler, h.up = a.up, NEW t \in a.todo,
         t = "row" => ~f.row, t = "object" => f.object # "NONE" /\ f.kept >= Grace,
         \/ h.todo = a.todo \ {t} /\ h.again = a.again
         \/ h.todo = {"row", "pending"} /\ h.again /\ a.todo = {t} /\ ~a.again
  PROVE  Sound(f, d, h, u)
<1>1. f.kept \in Nat /\ f.age \in Nat
  BY Numbers DEF File
<1>2. t = "object" => f.age >= Grace
  BY <1>1, Numbers DEF Sound, Aged
<1>3. Seen(h, u) => Seen(a, u) \/ t = "object"
  BY DEF Seen
<1>4. Cleared(h, u) => Cleared(a, u) \/ t = "row"
  BY DEF Cleared
<1> QED BY <1>2, <1>3, <1>4 DEF Sound, Aged

LEMMA AuditLooks ==
  ASSUME StorageInv, NEW t \in Ref \cup {"object"}, AuditLook(t)
  PROVE  StorageInv'
<1> DEFINE a == handler["audit"]  u == a.up  f == file[u]
           less == [a EXCEPT !.todo = a.todo \ {t}]
           twice == [a EXCEPT !.todo = {"row", "pending"}, !.again = TRUE]
           ready == [a EXCEPT !.todo = {}, !.at = "remove"]
<1>1. a \in Handler /\ u \in Upload /\ f \in File /\ file \in [Upload -> File]
      /\ Sound(f, handler["daily"], a, u)
  BY Jobs, Goes
<1>2. storageFaults' \in 0..MaxStorageFaults /\ file' = [file EXCEPT ![u] = f]
  BY <1>1, FaultTyped DEF AuditLook
<1>3. a.kind = "AUDIT" /\ a.at = "look" /\ t \in a.todo
  BY DEF AuditLook, HandlerAt
<1>4. handler \in [StorageProcess -> Handler]
  BY DEF StorageInv, StorageTypeOK
<1>5. CASE Spares(u, t)
  <2>1. HandlerDone("audit")
    BY <1>5 DEF AuditLook
  <2>2. handler' = [handler EXCEPT !["audit"] = NoHandler(u)] /\ NoHandler(u) \in Handler
        /\ NoHandler(u).up = u
    BY <1>1, <2>1, Jobs, Goes
  <2> HIDE DEF a, u, f
  <2>3. Sound(f, handler["daily"], NoHandler(u), u) /\ Convinced(NoHandler(u))
    BY <1>1, Idle, LetGo
  <2> QED BY <1>1, <1>2, <2>2, <2>3, AuditGoes
<1>6. CASE ~Spares(u, t)
  <2>1. /\ t = "row" => ~f.row
        /\ t = "object" => f.object # "NONE" /\ f.kept >= Grace
    <3>1. f.kept \in Nat
      BY <1>1, Numbers DEF File
    <3>2. CASE t = "row"
      BY <1>6, <3>2 DEF Spares
    <3>3. CASE t = "object"
      <4>1. ~(f.object = "NONE" \/ f.kept < Grace)
        BY <1>6, <3>3 DEF Spares
      <4> HIDE DEF f
      <4> QED BY <3>1, <3>3, <4>1, Numbers
    <3> QED BY <3>2, <3>3
  <2>2. \/ handler' = [handler EXCEPT !["audit"] = less] /\ a.todo # {t}
        \/ handler' = [handler EXCEPT !["audit"] = twice] /\ a.todo = {t} /\ ~a.again
        \/ handler' = [handler EXCEPT !["audit"] = ready] /\ a.todo = {t} /\ a.again
    BY <1>4, <1>6, Jobs DEF AuditLook
  <2>3. less \in Handler /\ less.up = u /\ less.todo = a.todo \ {t} /\ less.again = a.again
        /\ less.at = "look"
    BY <1>1, <1>3 DEF Handler
  <2>4. twice \in Handler /\ twice.up = u /\ twice.todo = {"row", "pending"} /\ twice.again
        /\ twice.at = "look"
    BY <1>1, <1>3 DEF Handler, Ref
  <2>5. ready \in Handler /\ ready.up = u /\ ready.todo = {} /\ ready.again = a.again
    BY <1>1 DEF Handler
  <2> HIDE DEF f, less, twice, ready
  <2>6. Auditing(a, u)
    BY <1>3 DEF Auditing
  <2>7. CASE handler' = [handler EXCEPT !["audit"] = less]
    <3>1. Sound(f, handler["daily"], less, u)
      BY <1>1, <1>3, <2>1, <2>3, <2>6, LookSound
    <3>2. Convinced(less)
      BY <2>3 DEF Convinced
    <3> HIDE DEF a, u
    <3> QED BY <1>1, <1>2, <2>3, <2>7, <3>1, <3>2, AuditGoes
  <2>8. CASE handler' = [handler EXCEPT !["audit"] = twice] /\ a.todo = {t} /\ ~a.again
    <3>1. Sound(f, handler["daily"], twice, u)
      BY <1>1, <1>3, <2>1, <2>4, <2>6, <2>8, LookSound
    <3>2. Convinced(twice)
      BY <2>4 DEF Convinced
    <3> HIDE DEF a, u
    <3> QED BY <1>1, <1>2, <2>4, <2>8, <3>1, <3>2, AuditGoes
  <2>9. CASE handler' = [handler EXCEPT !["audit"] = ready] /\ a.todo = {t} /\ a.again
    <3>1. ready.todo = a.todo \ {t}
      BY <2>5, <2>9
    <3>2. Sound(f, handler["daily"], ready, u)
      BY <1>1, <1>3, <2>1, <2>5, <2>6, <3>1, LookSound
    <3>3. Convinced(ready)
      BY <2>5, <2>9 DEF Convinced
    <3> HIDE DEF a, u
    <3> QED BY <1>1, <1>2, <2>5, <2>9, <3>2, <3>3, AuditGoes
  <2> QED BY <2>2, <2>7, <2>8, <2>9
<1> QED BY <1>5, <1>6

(* What the audit removes both looks have cleared.                             *)
LEMMA AuditRemoves ==
  ASSUME StorageInv, AuditRemove
  PROVE  StorageInv'
<1> DEFINE a == handler["audit"]  u == a.up  f == file[u]  removed == ObjectRemoved(f, "AUDIT")
<1>1. a \in Handler /\ u \in Upload /\ f \in File /\ file \in [Upload -> File]
      /\ Sound(f, handler["daily"], a, u)
  BY Jobs, Goes
<1>2. storageFaults' \in 0..MaxStorageFaults
  BY FaultTyped DEF AuditRemove
<1>3. Cleared(a, u)
  BY DEF AuditRemove, HandlerAt, StorageInv, Convinced, Cleared, Auditing
<1>4. handler' = [handler EXCEPT !["audit"] = NoHandler(u)] /\ NoHandler(u) \in Handler
      /\ NoHandler(u).up = u
  BY <1>1, Jobs, Goes DEF AuditRemove
<1>5. file' = [file EXCEPT ![u] = removed] \/ file' = [file EXCEPT ![u] = f]
  BY <1>1 DEF AuditRemove
<1> HIDE DEF a, u, f
<1>6. removed \in File /\ Sound(removed, handler["daily"], a, u)
  BY <1>1, <1>3, RemovedSound
<1> HIDE DEF removed
<1>7. /\ Sound(removed, handler["daily"], NoHandler(u), u) /\ Sound(f, handler["daily"], NoHandler(u), u)
      /\ Convinced(NoHandler(u))
  BY <1>1, <1>6, Idle, LetGo
<1> QED BY <1>1, <1>2, <1>4, <1>5, <1>6, <1>7, AuditGoes

(* --------------------------- Time and crashes ----------------------------- *)
LEMMA OlderTyped == \A n \in 0..Oldest : Older(n) \in 0..Oldest /\ n <= Older(n)
                                         /\ \A m \in 0..Oldest : m <= n => Older(m) <= Older(n)
BY Numbers DEF Older

LEMMA Ages ==
  ASSUME StorageInv, UploadsAge
  PROVE  StorageInv'
<1>1. file \in [Upload -> File] /\ UNCHANGED <<handler, storageFaults>>
  BY DEF StorageInv, StorageTypeOK, UploadsAge
<1>2. ASSUME NEW u \in Upload
      PROVE  file'[u] \in File /\ Sound(file'[u], handler'["daily"], handler'["audit"], u)
  <2> DEFINE f == file[u]
             g == [f EXCEPT !.age = Older(f.age), !.kept = IF f.object = "NONE" THEN 0 ELSE Older(f.kept)]
  <2>1. f \in File /\ Sound(f, handler'["daily"], handler'["audit"], u)
    BY <1>1 DEF StorageInv
  <2>2. CASE ~f.issued
    BY <1>1, <2>1, <2>2 DEF UploadsAge
  <2>3. CASE f.issued
    <3>1. file'[u] = g
      BY <1>1, <2>3 DEF UploadsAge
    <3>2. f.age \in 0..Oldest /\ f.kept \in 0..Oldest /\ 0 \in 0..Oldest
      BY <2>1, Numbers DEF File
    <3>3. Older(f.age) \in 0..Oldest /\ Older(f.kept) \in 0..Oldest
      BY <3>2, OlderTyped
    <3>4. g \in File /\ g.issued = f.issued /\ g.age = Older(f.age) /\ g.object = f.object
          /\ g.lostBy = f.lostBy /\ g.pending = f.pending /\ g.row = f.row /\ g.late = f.late
          /\ (f.object # "NONE" => g.kept = Older(f.kept))
      <4>1. CASE f.object = "NONE"
        BY <2>1, <3>2, <3>3, <4>1 DEF File
      <4>2. CASE f.object # "NONE"
        BY <2>1, <3>2, <3>3, <4>2 DEF File
      <4> QED BY <4>1, <4>2
    <3> HIDE DEF f, g
    <3>5. /\ f.object # "NONE" => g.kept <= g.age
          /\ f.age >= Grace => g.age >= Grace
          /\ f.object # "NONE" /\ f.kept >= Grace => g.kept >= Grace
      <4>1. f.age <= Older(f.age) /\ f.kept <= Older(f.kept)
            /\ (f.kept <= f.age => Older(f.kept) <= Older(f.age))
        BY <3>2, OlderTyped
      <4>2. f.object # "NONE" => f.kept <= f.age
        BY <2>1 DEF Sound, Aged
      <4> QED BY <3>2, <3>3, <3>4, <4>1, <4>2, Numbers
    <3>6. Sound(g, handler'["daily"], handler'["audit"], u)
      BY <2>1, <3>4, <3>5 DEF Sound, Consumed, Aged
    <3> QED BY <3>1, <3>4, <3>6
  <2> QED BY <2>2, <2>3
<1>3. DOMAIN file' = Upload /\ file' = [v \in Upload |-> file'[v]]
  BY DEF UploadsAge
<1>4. file' \in [Upload -> File]
  BY <1>2, <1>3
<1> QED BY <1>1, <1>2, <1>4 DEF StorageInv, StorageTypeOK

LEMMA Dies ==
  ASSUME StorageInv, NEW p \in StorageProcess, HandlerDies(p)
  PROVE  StorageInv'
<1> DEFINE u == handler[p].up  f == file[u]  h == NoHandler(u)
<1>1. u \in Upload /\ f \in File /\ file \in [Upload -> File] /\ h \in Handler /\ h.up = u
      /\ Sound(f, handler["daily"], handler["audit"], u)
  BY Goes
<1>2. storageFaults' \in 0..MaxStorageFaults /\ file' = [file EXCEPT ![u] = f]
      /\ handler' = [handler EXCEPT ![p] = h]
  BY <1>1, FaultTyped, Goes DEF HandlerDies
<1>3. Convinced(h) /\ ~Held(h, u) /\ ~Seen(h, u) /\ ~Cleared(h, u)
  BY Idle
<1> HIDE DEF u, f, h
<1>4. Sound(f, IF p = "daily" THEN h ELSE handler["daily"], IF p = "audit" THEN h ELSE handler["audit"], u)
  BY <1>1, <1>3, LetGo
<1> QED BY <1>1, <1>2, <1>3, <1>4, OneStep

(* -------------------------------- The theorem ----------------------------- *)
LEMMA StorageStep == StorageInv /\ [StorageNext]_storageVars => StorageInv'
<1> SUFFICES ASSUME StorageInv, [StorageNext]_storageVars PROVE StorageInv'
  OBVIOUS
<1>1. CASE UNCHANGED storageVars
  BY <1>1 DEF storageVars, StorageInv, StorageTypeOK
<1>2. ASSUME NEW u \in Upload,
             \/ Prepare(u) \/ DailyLoad(u) \/ AuditLoad(u)
             \/ \E size \in {"WHOLE", "SHORT"} : PutObject(u, size)
             \/ \E c \in Client : Complete(c, u) \/ Abort(c, u) \/ DeleteFile(c, u)
      PROVE  StorageInv'
  BY <1>2, Prepares, DailyLoads, AuditLoads, Puts, ClientBegins
<1>3. ASSUME NEW c \in Client, ClientStep(c) PROVE StorageInv'
  BY <1>3, ClientReads, ClientRemoves, ClientRows DEF ClientStep
<1>4. CASE DailyStep
  BY <1>4, DailyClaims, DailyChecks, DailyRemoves DEF DailyStep
<1>5. CASE AuditStep
  BY <1>5, AuditLooks, AuditRemoves DEF AuditStep
<1>6. CASE UploadsAge \/ \E p \in StorageProcess : HandlerDies(p)
  BY <1>6, Ages, Dies
<1> QED BY <1>1, <1>2, <1>3, <1>4, <1>5, <1>6 DEF StorageNext

(* cleanupPendingUpload and runStorageAudit never take the object of a         *)
(* recorded attachment, however requests and jobs interleave, stall and die;   *)
(* the audit only one whose completion had stalled past the grace.             *)
THEOREM KeptAttached == StorageSafety => []AttachedKept
<1>1. StorageInv => AttachedKept
  BY DEF StorageInv, Sound, Consumed, AttachedKept
<1> QED BY <1>1, StorageInitInv, StorageStep, PTL DEF StorageSafety

(* ----------------------------- The tokens --------------------------------- *)
(* A session has one live token at most, and a token one successor.            *)
RowsFit ==
  /\ \A n \in Token : ~Minted(n) => token[n] = NoToken
  /\ \A n \in Token : Minted(n) =>
       /\ SessionOf(n) \in Session /\ session[SessionOf(n)] # "NONE"
       /\ token[n].parent # 0 => Minted(token[n].parent) /\ token[token[n].parent].revoked
  /\ OneSuccessor

(* What a request on the server is about, wherever it stands.                  *)
AtServer(c) == c.at \in {"received", "find", "session", "rotate", "look", "end", "leave"}
Deciding(c) == c.at \in {"find", "session", "rotate", "look", "end", "leave"}
CallFits(c, place) ==
  /\ c.at \in {"free", "reply"} => c.heard
  /\ c.at # "free" => c.kind # "NONE"
  /\ c.at # "free" /\ c.heard => place = IF c.kind = "REFRESH" THEN "sent" ELSE "leaving"
  /\ place \in {"queued", "handoff", "peer"} => c.at = "free"
  /\ place \in {"sent", "leaving"} => c.at # "free" /\ c.heard
  /\ (Deciding(c) \/ (c.kind = "LOGOUT" /\ c.at = "received")) => c.tok # 0
  /\ c.at = "leave" => c.kind = "LOGOUT"
  /\ Deciding(c) /\ c.at # "leave" => c.kind = "REFRESH"
  /\ c.at = "reply" /\ c.reply = "OK" /\ c.kind = "REFRESH" => c.new # 0
  /\ ~c.heard => refreshFaults > 0
CallKnows(c) ==
  /\ c.tok <= minted /\ c.new <= minted
  /\ c.at = "end" => \A n \in c.seen : Minted(n) /\ SessionOf(n) = SessionOf(c.tok)

(* ------------------------------ The lock ---------------------------------- *)
HoldsLock(t) == tab[t].at \in {"handoff", "sent", "peer"} /\ tab[t].via # "none"
LockFits ==
  /\ ~WebLocks => lockQueue = <<>>
  /\ \A i \in DOMAIN lockQueue :
       tab[lockQueue[i]].at \in Refreshing /\ tab[lockQueue[i]].via # "none"
  /\ \A t \in Tab : tab[t].at = "resend" => tab[t].via = "none"
  /\ WebLocks => \A t \in Tab : HoldsLock(t) => lockQueue # <<>> /\ Head(lockQueue) = t

(* ------------------- No false alarm while nothing is lost ------------------ *)
(* A token that is not live although its session is has been exchanged.        *)
Good(n) == LiveToken(n) \/ session[SessionOf(n)] # "VALID"
Exchanges(c) == c.kind = "REFRESH" /\ c.at = "reply" /\ c.reply = "OK"
CallCalm(c) ==
  /\ c.kind = "REFRESH" /\ c.at \in {"received", "find", "session", "rotate"} /\ c.tok # 0 => Good(c.tok)
  /\ c.at \in {"look", "end"} => session[SessionOf(c.tok)] # "VALID"
  /\ Exchanges(c) => Good(c.new)
CalmSession ==
  /\ ~struck
  /\ cookie # 0 /\ (\A t \in Tab : ~Exchanges(call[t])) => Good(cookie)
  /\ \A t \in Tab : CallCalm(call[t]) /\ tab[t].via # "none"

SessionInv ==
  /\ SessionTypeOK /\ RowsFit /\ LockFits /\ cookie <= minted
  /\ \A t \in Tab : CallFits(call[t], tab[t].at) /\ CallKnows(call[t])
  /\ WebLocks /\ refreshFaults = 0 => CalmSession

LEMMA SessionTyped ==
  ASSUME SessionInv
  PROVE  /\ token \in [Token -> TokenRow] /\ minted \in 0 .. MaxToken
         /\ session \in [Session -> {"NONE", "VALID", "INVALID"}] /\ cookie \in 0 .. MaxToken
         /\ call \in [Tab -> Call] /\ tab \in [Tab -> TabState] /\ lockQueue \in Seq(Tab)
         /\ news \in [Tab -> {"NONE", "SENT", "HERE"}] /\ clock \in Time /\ struck \in BOOLEAN
         /\ refreshFaults \in 0 .. MaxRefreshFaults /\ refreshFaults \in Nat /\ minted \in Nat
         /\ \A t \in Tab : call[t] \in Call /\ tab[t] \in TabState
         /\ \A n \in Token : token[n] \in TokenRow
BY SessionBounds DEF SessionInv, SessionTypeOK

LEMMA ByLock ==
  ASSUME SessionInv, WebLocks, refreshFaults = 0 PROVE \A t \in Tab : tab[t].via # "none"
BY DEF SessionInv, CalmSession

LEMMA NoneTyped ==
  /\ NoCall \in Call /\ NoCall.kind = "NONE" /\ NoCall.at = "free" /\ NoCall.tok = 0 /\ NoCall.new = 0
  /\ NoCall.heard = TRUE
  /\ NoToken \in TokenRow /\ NoToken.session = 0 /\ NoToken.parent = 0 /\ NoToken.revoked = FALSE
  /\ IdleTab \in TabState /\ IdleTab.at = "idle" /\ IdleTab.via # "none"
BY SessionBounds DEF NoCall, NoToken, IdleTab, Call, TokenRow, TabState, Time, Token

LEMMA MintedToken ==
  /\ SessionInv => \A n : Minted(n) => n \in Token
  /\ SessionInv => \A n \in 0 .. MaxToken : n # 0 /\ n <= minted => n \in Token /\ Minted(n)
  /\ SessionInv => 0 \in 0 .. MaxToken /\ 0 <= minted /\ minted <= minted /\ minted \in minted .. MaxToken
                   /\ refreshFaults \in refreshFaults .. MaxRefreshFaults
<1> SUFFICES ASSUME SessionInv
             PROVE  /\ \A n : Minted(n) => n \in Token
                    /\ \A n \in 0 .. MaxToken : n # 0 /\ n <= minted => n \in Token /\ Minted(n)
                    /\ 0 \in 0 .. MaxToken /\ 0 <= minted /\ minted <= minted
                    /\ minted \in minted .. MaxToken /\ refreshFaults \in refreshFaults .. MaxRefreshFaults
  OBVIOUS
<1>1. minted \in 0 .. MaxToken /\ minted \in Nat /\ MaxToken \in Nat
      /\ refreshFaults \in 0 .. MaxRefreshFaults /\ MaxRefreshFaults \in Nat
  BY SessionTyped, SessionBounds
<1>2. \A n : n \in 1 .. minted => n \in 1 .. MaxToken
  BY <1>1
<1>3. \A n \in 0 .. MaxToken : n # 0 /\ n <= minted => n \in 1 .. MaxToken /\ n \in 1 .. minted
  BY <1>1
<1>4. 0 \in 0 .. MaxToken /\ 0 <= minted /\ minted <= minted
      /\ minted \in minted .. MaxToken /\ refreshFaults \in refreshFaults .. MaxRefreshFaults
  BY <1>1
<1> QED BY <1>2, <1>3, <1>4 DEF Minted, Token

LEMMA SessionInitInv == SessionInit => SessionInv
<1> SUFFICES ASSUME SessionInit PROVE SessionInv
  OBVIOUS
<1> DEFINE first == [NoToken EXCEPT !.session = 1]
<1>0. 1 \in 0 .. MaxSession /\ 1 \in 0 .. MaxToken /\ 0 \in Time /\ 0 \in 0 .. MaxRefreshFaults
  BY SessionBounds DEF Time
<1>1. first \in TokenRow /\ first.session = 1 /\ first.parent = 0 /\ first.revoked = FALSE
  BY <1>0, NoneTyped DEF TokenRow
<1> HIDE DEF first
<1>2. 1 \in Token /\ 1 \in Session /\ \A n \in Token : Minted(n) <=> n = 1
  BY SessionBounds DEF SessionInit, Token, Session, Minted
<1>3. \A n \in Token : token[n] = IF n = 1 THEN first ELSE NoToken
  BY DEF SessionInit, first
<1>4. token \in [Token -> TokenRow]
  BY <1>1, NoneTyped DEF SessionInit, first
<1>5. session[1] = "VALID" /\ session \in [Session -> {"NONE", "VALID", "INVALID"}]
  BY <1>2 DEF SessionInit
<1>6. SessionTypeOK
  <2>1. lockQueue \in Seq(Tab) /\ \A i, j \in DOMAIN lockQueue : lockQueue[i] = lockQueue[j] => i = j
    BY DEF SessionInit
  <2>2. /\ call \in [Tab -> Call] /\ tab \in [Tab -> TabState]
        /\ news \in [Tab -> {"NONE", "SENT", "HERE"}]
    BY NoneTyped DEF SessionInit
  <2>3. cookie \in 0 .. MaxToken /\ minted \in 0 .. MaxToken /\ clock \in Time
        /\ refreshFaults \in 0 .. MaxRefreshFaults /\ struck \in BOOLEAN
    BY <1>0 DEF SessionInit
  <2> QED BY <1>4, <1>5, <2>1, <2>2, <2>3 DEF SessionTypeOK
<1>7. RowsFit
  BY <1>1, <1>2, <1>3, <1>5 DEF RowsFit, OneSuccessor, SessionOf
<1>8. LockFits
  BY NoneTyped DEF LockFits, SessionInit, HoldsLock
<1>9. \A t \in Tab : CallFits(call[t], tab[t].at) /\ CallKnows(call[t])
  <2> TAKE t \in Tab
  <2>1. call[t] = NoCall /\ tab[t] = IdleTab /\ minted = 1
    BY DEF SessionInit
  <2> QED BY <2>1, NoneTyped DEF CallFits, CallKnows, Deciding
<1>10. Good(cookie)
  BY <1>1, <1>2, <1>3 DEF Good, LiveToken, SessionInit
<1>11. CalmSession
  BY <1>10, NoneTyped DEF CalmSession, CallCalm, Exchanges, SessionInit
<1> QED BY <1>6, <1>7, <1>8, <1>9, <1>11, SessionBounds DEF SessionInv, SessionInit

(* ------------------------- Steps of one tab or call ------------------------ *)
LockTyped(q) == q \in Seq(Tab) /\ \A i, j \in DOMAIN q : q[i] = q[j] => i = j

LEMMA TabMoves ==
  ASSUME SessionInv, NEW t \in Tab, NEW c \in Call, NEW p \in TabState,
         call' = [call EXCEPT ![t] = c], tab' = [tab EXCEPT ![t] = p],
         UNCHANGED <<server, struck>>, clock' \in Time, news' \in [Tab -> {"NONE", "SENT", "HERE"}],
         cookie' \in 0 .. minted, LockTyped(lockQueue'), LockFits',
         refreshFaults' \in refreshFaults .. MaxRefreshFaults,
         CallFits(c, p.at)', CallKnows(c),
         WebLocks /\ refreshFaults' = 0 => CallCalm(c) /\ p.via # "none",
         WebLocks /\ refreshFaults' = 0 /\ cookie' # 0 /\ (\A u \in Tab : ~Exchanges(call'[u])) => Good(cookie')
  PROVE  SessionInv'
<1>1. SessionTypeOK'
  <2>1. refreshFaults' \in 0 .. MaxRefreshFaults /\ cookie' \in 0 .. MaxToken
    BY SessionTyped, SessionBounds
  <2>2. call' \in [Tab -> Call] /\ tab' \in [Tab -> TabState]
    BY SessionTyped
  <2>3. UNCHANGED <<token, minted, session, struck>>
    BY DEF server
  <2> QED BY <2>1, <2>2, <2>3, SessionTyped DEF SessionTypeOK, LockTyped
<1>2. RowsFit'
  BY DEF SessionInv, RowsFit, OneSuccessor, Minted, SessionOf, LiveToken, server
<1>3. ASSUME NEW u \in Tab PROVE CallFits(call[u], tab[u].at)' /\ CallKnows(call[u])'
  <2>1. CASE u = t
    <3>1. call'[u] = c /\ tab'[u] = p
      BY <2>1, SessionTyped
    <3> QED BY <3>1 DEF CallFits, CallKnows, Minted, SessionOf, server
  <2>2. CASE u # t
    <3>1. call'[u] = call[u] /\ tab'[u] = tab[u] /\ CallFits(call[u], tab[u].at) /\ CallKnows(call[u])
      BY <2>2, SessionTyped DEF SessionInv
    <3>2. refreshFaults > 0 => refreshFaults' > 0
      BY SessionTyped
    <3> QED BY <3>1, <3>2 DEF CallFits, CallKnows, Minted, SessionOf, server
  <2> QED BY <2>1, <2>2
<1>4. ASSUME WebLocks, refreshFaults' = 0 PROVE CalmSession'
  <2>1. refreshFaults = 0 /\ CalmSession
    BY <1>4, SessionTyped DEF SessionInv
  <2>2. \A u \in Tab : call'[u] = IF u = t THEN c ELSE call[u]
    BY SessionTyped
  <2>3. \A u \in Tab : CallCalm(call'[u]) /\ tab'[u].via # "none"
    BY <1>4, <2>1, <2>2, SessionTyped DEF CalmSession
  <2>4. \A u \in Tab : CallCalm(call[u])'
    BY <2>3 DEF CallCalm, Good, LiveToken, Minted, SessionOf, server
  <2>5. cookie' # 0 /\ (\A u \in Tab : ~Exchanges(call'[u])) => Good(cookie)'
    BY <1>4 DEF Good, LiveToken, Minted, SessionOf, server
  <2>6. \A u \in Tab : Exchanges(call[u])' <=> Exchanges(call'[u])
    BY DEF Exchanges
  <2> QED BY <2>1, <2>3, <2>4, <2>5, <2>6 DEF CalmSession
<1>5. cookie' <= minted'
  BY SessionTyped DEF server
<1> QED BY <1>1, <1>2, <1>3, <1>4, <1>5 DEF SessionInv

(* A handler of the server goes on, or answers.                                *)
LEMMA CallMoves ==
  ASSUME SessionInv, NEW t \in Tab, NEW c \in Call, call' = [call EXCEPT ![t] = c],
         UNCHANGED <<server, browser, clock, struck>>, refreshFaults' \in refreshFaults .. MaxRefreshFaults,
         ~Exchanges(call[t]), CallFits(c, tab[t].at)', CallKnows(c),
         WebLocks /\ refreshFaults' = 0 => CallCalm(c)
  PROVE  SessionInv'
<1>1. tab[t] \in TabState /\ tab' = [tab EXCEPT ![t] = tab[t]]
  BY SessionTyped DEF browser
<1>2. LockTyped(lockQueue') /\ LockFits' /\ cookie' \in 0 .. minted
      /\ news' \in [Tab -> {"NONE", "SENT", "HERE"}] /\ clock' \in Time
  BY SessionTyped DEF browser, SessionInv, SessionTypeOK, LockTyped, LockFits, HoldsLock
<1>3. tab'[t] = tab[t]
  BY DEF browser
<1>4. CallFits(c, tab[t].at)'
  OBVIOUS
<1>5. ASSUME WebLocks, refreshFaults' = 0, cookie' # 0, \A u \in Tab : ~Exchanges(call'[u])
      PROVE  Good(cookie')
  <2>1. refreshFaults = 0 /\ CalmSession /\ cookie' = cookie
    BY <1>5, SessionTyped DEF SessionInv, browser
  <2>2. \A u \in Tab : u # t => call'[u] = call[u]
    BY SessionTyped
  <2>3. \A u \in Tab : ~Exchanges(call[u])
    BY <1>5, <2>2
  <2> QED BY <1>5, <2>1, <2>3 DEF CalmSession
<1>6. WebLocks /\ refreshFaults' = 0 => tab[t].via # "none"
  BY ByLock, SessionTyped
<1> QED BY <1>1, <1>2, <1>3, <1>4, <1>5, <1>6, TabMoves

(* ------------------------------ The server --------------------------------- *)
Result == {"NONE", "OK", "CONFLICT", "DENIED", "ERROR"}

LEMMA Answers ==
  ASSUME SessionInv, NEW t \in Tab, AtServer(call[t]), NEW r \in Result, NEW n \in 0 .. MaxToken,
         Answer(t, r, n), tab' = tab, refreshFaults' \in refreshFaults .. MaxRefreshFaults,
         r = "OK" /\ call[t].kind = "REFRESH" => n # 0
  PROVE  \E c \in Call :
           /\ call' = [call EXCEPT ![t] = c] /\ CallFits(c, tab[t].at)'
           /\ c.tok \in {0, call[t].tok} /\ c.new \in {0, n} /\ c.at \in {"free", "reply"}
           /\ Exchanges(c) => r = "OK" /\ call[t].kind = "REFRESH" /\ c.new = n
           /\ refreshFaults' = 0 /\ r = "OK" /\ call[t].kind = "REFRESH" => Exchanges(c)
<1>1. call[t] \in Call /\ CallFits(call[t], tab[t].at) /\ call[t].at \notin {"free", "reply"}
      /\ tab[t] \in TabState
  BY SessionTyped DEF SessionInv, AtServer
<1> DEFINE answer == [NoCall EXCEPT !.kind = call[t].kind, !.tok = call[t].tok,
                                    !.at = "reply", !.reply = r, !.new = n]
<1>2. answer \in Call /\ answer.kind = call[t].kind /\ answer.tok = call[t].tok
      /\ answer.at = "reply" /\ answer.reply = r /\ answer.new = n /\ answer.heard = TRUE
  BY <1>1, NoneTyped DEF Call, Result
<1>3. call' = [call EXCEPT ![t] = IF call[t].heard THEN answer ELSE NoCall]
  BY DEF Answer
<1> HIDE DEF answer
<1>4. PICK heard \in Call :
        /\ heard.kind = call[t].kind /\ heard.tok = call[t].tok /\ heard.at = "reply"
        /\ heard.reply = r /\ heard.new = n /\ heard.heard = TRUE
        /\ call' = [call EXCEPT ![t] = IF call[t].heard THEN heard ELSE NoCall]
  BY <1>2, <1>3
<1>5. CASE call[t].heard
  <2>1. call' = [call EXCEPT ![t] = heard]
    BY <1>4, <1>5
  <2>2. CallFits(heard, tab[t].at)'
    BY <1>1, <1>4, <1>5 DEF CallFits, Deciding
  <2> QED BY <1>4, <2>1, <2>2 DEF Exchanges
<1>6. CASE ~call[t].heard
  <2>1. call' = [call EXCEPT ![t] = NoCall]
    BY <1>4, <1>6
  <2>2. CallFits(NoCall, tab[t].at)'
    BY <1>1, <1>6, NoneTyped DEF CallFits, Deciding
  <2>3. refreshFaults' # 0
    BY <1>1, <1>6, SessionTyped DEF CallFits
  <2> QED BY <2>1, <2>2, <2>3, NoneTyped DEF Exchanges
<1> QED BY <1>5, <1>6

(* A refusal, or an answer to a logout that changes nothing.                   *)
LEMMA Replies ==
  ASSUME SessionInv, NEW t \in Tab, AtServer(call[t]), NEW r \in Result, Reply(t, r),
         r = "OK" => call[t].kind = "LOGOUT",
         UNCHANGED <<server, browser, clock, struck>>,
         refreshFaults' \in refreshFaults .. MaxRefreshFaults
  PROVE  SessionInv'
<1>1. 0 \in 0 .. MaxToken /\ tab' = tab /\ Answer(t, r, 0) /\ (r = "OK" => call[t].kind # "REFRESH")
  BY SessionBounds DEF Reply, browser
<1>2. PICK c \in Call :
           /\ call' = [call EXCEPT ![t] = c] /\ CallFits(c, tab[t].at)'
           /\ c.tok \in {0, call[t].tok} /\ c.new \in {0, 0} /\ c.at \in {"free", "reply"}
           /\ Exchanges(c) => r = "OK" /\ call[t].kind = "REFRESH" /\ c.new = 0
  BY <1>1, Answers
<1>3. CallKnows(c) /\ CallCalm(c) /\ ~Exchanges(call[t])
  BY <1>1, <1>2, SessionTyped DEF CallKnows, CallCalm, SessionInv, Exchanges, AtServer
<1> QED BY <1>2, <1>3, CallMoves

(* The handler goes on to its next statement.                                  *)
LEMMA GoesTo ==
  ASSUME SessionInv, NEW t \in Tab, NEW c \in Call, call' = [call EXCEPT ![t] = c],
         AtServer(call[t]), AtServer(c), c.kind = call[t].kind, c.tok = call[t].tok, c.tok # 0,
         c.heard = call[t].heard, c.new = call[t].new,
         c.at = "leave" <=> c.kind = "LOGOUT", c.at # "received",
         c.at = "end" => \A n \in c.seen : Minted(n) /\ SessionOf(n) = SessionOf(c.tok),
         WebLocks /\ refreshFaults = 0 => CallCalm(c),
         UNCHANGED <<server, browser, clock, refreshFaults, struck>>
  PROVE  SessionInv'
<1>1. CallFits(call[t], tab[t].at) /\ CallKnows(call[t]) /\ tab' = tab
      /\ refreshFaults' \in refreshFaults .. MaxRefreshFaults
  BY SessionTyped DEF SessionInv, browser
<1>2. c.kind \in {"NONE", "REFRESH", "LOGOUT"}
  BY DEF Call
<1>3. CallFits(c, tab[t].at)' /\ CallKnows(c) /\ ~Exchanges(call[t])
  BY <1>1, <1>2 DEF CallFits, CallKnows, AtServer, Deciding, Exchanges
<1> QED BY <1>1, <1>3, CallMoves

LEMMA ReadClockStep == ASSUME SessionInv, NEW t \in Tab, ReadClock(t) PROVE SessionInv'
<1>1. call[t] \in Call /\ call[t].kind = "REFRESH" /\ call[t].at = "received" /\ AtServer(call[t])
      /\ clock \in Time
      /\ UNCHANGED <<server, browser, clock, refreshFaults, struck>>
  BY SessionTyped DEF ReadClock, CallAt, AtServer
<1>2. CASE call[t].tok = 0
  BY <1>1, <1>2, SessionTyped, Replies DEF ReadClock, Result
<1>3. CASE call[t].tok # 0
  <2> DEFINE c == [call[t] EXCEPT !.at = "find", !.now = clock]
  <2>1. c \in Call /\ c.kind = "REFRESH" /\ c.at = "find" /\ c.tok = call[t].tok /\ c.heard = call[t].heard
        /\ c.new = call[t].new
    BY <1>1 DEF Call
  <2>2. call' = [call EXCEPT ![t] = c]
    BY <1>1, <1>3 DEF ReadClock
  <2> HIDE DEF c
  <2>3. WebLocks /\ refreshFaults = 0 => CallCalm(c)
    BY <1>1, <1>3, <2>1 DEF SessionInv, CalmSession, CallCalm, Exchanges
  <2> QED BY <1>1, <1>3, <2>1, <2>2, <2>3, GoesTo DEF AtServer
<1> QED BY <1>2, <1>3

(* The next statement without another change.                                  *)
LEMMA NextStatement ==
  ASSUME SessionInv, NEW t \in Tab, Deciding(call[t]) \/ (call[t].kind = "LOGOUT" /\ call[t].at = "received"),
         NEW step \in {"session", "rotate", "look", "leave"}, CallGoto(t, step),
         step = "leave" <=> call[t].kind = "LOGOUT",
         step \in {"session", "rotate"} => call[t].at \in {"find", "session"},
         step = "look" => (WebLocks /\ refreshFaults = 0 => session[SessionOf(call[t].tok)] # "VALID"),
         UNCHANGED <<server, browser, clock, refreshFaults, struck>>
  PROVE  SessionInv'
<1> DEFINE c == [call[t] EXCEPT !.at = step]
<1>1. call[t] \in Call /\ call[t].tok # 0 /\ AtServer(call[t])
  BY SessionTyped DEF SessionInv, CallFits, AtServer, Deciding
<1>2. c \in Call /\ c.kind = call[t].kind /\ c.at = step /\ c.tok = call[t].tok /\ c.heard = call[t].heard
      /\ c.new = call[t].new
  BY <1>1 DEF Call
<1>3. call' = [call EXCEPT ![t] = c]
  BY DEF CallGoto
<1> HIDE DEF c
<1>4. WebLocks /\ refreshFaults = 0 => CallCalm(c)
  BY <1>1, <1>2 DEF SessionInv, CalmSession, CallCalm, Exchanges
<1> QED BY <1>1, <1>2, <1>3, <1>4, GoesTo DEF AtServer

LEMMA FindStep == ASSUME SessionInv, NEW t \in Tab, FindToken(t) PROVE SessionInv'
<1>1. call[t].kind = "REFRESH" /\ call[t].at = "find" /\ AtServer(call[t]) /\ Deciding(call[t])
      /\ UNCHANGED <<server, browser, clock, refreshFaults, struck>>
      /\ refreshFaults' \in refreshFaults .. MaxRefreshFaults
  BY SessionTyped DEF FindToken, CallAt, AtServer, Deciding
<1>2. CASE Reply(t, "CONFLICT")
  BY <1>1, <1>2, Replies DEF Result
<1>3. CASE token[call[t].tok].revoked /\ CallGoto(t, "look")
  <2>1. WebLocks /\ refreshFaults = 0 => session[SessionOf(call[t].tok)] # "VALID"
    BY <1>1, <1>3 DEF SessionInv, CalmSession, CallCalm, CallFits, Deciding, Good, LiveToken
  <2> QED BY <1>1, <1>3, <2>1, NextStatement
<1>4. CASE CallGoto(t, "session")
  BY <1>1, <1>4, NextStatement
<1> QED BY <1>2, <1>3, <1>4 DEF FindToken

LEMMA CheckStep == ASSUME SessionInv, NEW t \in Tab, CheckSession(t) PROVE SessionInv'
<1>1. call[t].kind = "REFRESH" /\ call[t].at = "session" /\ AtServer(call[t]) /\ Deciding(call[t])
      /\ UNCHANGED <<server, browser, clock, refreshFaults, struck>>
      /\ refreshFaults' \in refreshFaults .. MaxRefreshFaults
  BY SessionTyped DEF CheckSession, CallAt, AtServer, Deciding
<1>2. CASE Reply(t, "DENIED")
  BY <1>1, <1>2, Replies DEF Result
<1>3. CASE CallGoto(t, "rotate")
  BY <1>1, <1>3, NextStatement
<1> QED BY <1>2, <1>3 DEF CheckSession

LEMMA FailStep == ASSUME SessionInv, NEW t \in Tab, RotateFails(t) PROVE SessionInv'
<1>1. call[t].kind = "REFRESH" /\ call[t].at = "rotate" /\ AtServer(call[t]) /\ Reply(t, "ERROR")
      /\ UNCHANGED <<server, browser, clock, struck>>
  BY DEF RotateFails, CallAt, AtServer
<1>2. refreshFaults' \in refreshFaults .. MaxRefreshFaults
  BY SessionTyped, SessionBounds DEF RotateFails, Lost
<1> QED BY <1>1, <1>2, Replies DEF Result

LEMMA LookStep == ASSUME SessionInv, NEW t \in Tab, ReuseLook(t) PROVE SessionInv'
<1> DEFINE seen == {n \in Token : LiveToken(n) /\ SessionOf(n) = SessionOf(call[t].tok)}
           c == [call[t] EXCEPT !.at = "end", !.seen = seen]
<1>1. call[t] \in Call /\ call[t].kind = "REFRESH" /\ call[t].at = "look" /\ AtServer(call[t])
      /\ CallFits(call[t], tab[t].at)
      /\ UNCHANGED <<server, browser, clock, refreshFaults, struck>>
  BY SessionTyped DEF ReuseLook, CallAt, AtServer, SessionInv
<1>2. call[t].tok # 0 /\ seen \in SUBSET Token /\ call' = [call EXCEPT ![t] = c]
  BY <1>1 DEF CallFits, Deciding, ReuseLook
<1>3. \A n \in seen : Minted(n) /\ SessionOf(n) = SessionOf(call[t].tok)
  BY DEF LiveToken
<1> HIDE DEF seen
<1>4. c \in Call /\ c.kind = "REFRESH" /\ c.at = "end" /\ c.tok = call[t].tok /\ c.heard = call[t].heard
      /\ c.new = call[t].new /\ c.seen = seen
  BY <1>1, <1>2 DEF Call
<1> HIDE DEF c
<1>5. WebLocks /\ refreshFaults = 0 => CallCalm(c)
  BY <1>1, <1>4 DEF SessionInv, CalmSession, CallCalm, Exchanges
<1>6. AtServer(c)
  BY <1>4 DEF AtServer
<1> QED BY <1>1, <1>2, <1>3, <1>4, <1>5, <1>6, GoesTo

LEMMA FindLogoutStep == ASSUME SessionInv, NEW t \in Tab, FindLogout(t) PROVE SessionInv'
<1>1. call[t].kind = "LOGOUT" /\ call[t].at = "received" /\ AtServer(call[t])
      /\ UNCHANGED <<server, browser, clock, refreshFaults, struck>>
      /\ refreshFaults' \in refreshFaults .. MaxRefreshFaults
  BY SessionTyped DEF FindLogout, CallAt, AtServer
<1>2. CASE Reply(t, "OK")
  BY <1>1, <1>2, Replies DEF Result
<1>3. CASE CallGoto(t, "leave")
  BY <1>1, <1>3, NextStatement
<1> QED BY <1>2, <1>3 DEF FindLogout

(* ----------------------- The server changes its rows ----------------------- *)
LEMMA CallAbout ==
  ASSUME SessionInv, NEW t \in Tab, call[t].tok # 0
  PROVE  /\ call[t].tok \in Token /\ Minted(call[t].tok)
         /\ SessionOf(call[t].tok) \in Session /\ session[SessionOf(call[t].tok)] # "NONE"
         /\ token[call[t].tok] \in TokenRow
<1>1. call[t].tok \in 0 .. MaxToken /\ call[t].tok <= minted
  BY SessionTyped DEF Call, SessionInv, CallKnows
<1>2. call[t].tok \in Token /\ Minted(call[t].tok)
  BY <1>1, SessionTyped, SessionBounds DEF Token, Minted
<1> QED BY <1>2, SessionTyped DEF SessionInv, RowsFit

(* With Web Locks and nothing lost, one refresh is under way at a time.        *)
LEMMA Alone ==
  ASSUME SessionInv, WebLocks, refreshFaults = 0, NEW t \in Tab, NEW u \in Tab,
         call[t].kind = "REFRESH", call[t].at # "free", call[u].kind = "REFRESH", call[u].at # "free"
  PROVE  u = t
<1>1. ASSUME NEW v \in Tab, call[v].kind = "REFRESH", call[v].at # "free" PROVE Head(lockQueue) = v
  <2>1. tab[v].at = "sent"
    BY <1>1 DEF SessionInv, CallFits
  <2> QED BY <2>1, ByLock DEF SessionInv, LockFits, HoldsLock
<1> QED BY <1>1

(* A handler that changes rows and answers.                                    *)
LEMMA RowsMove ==
  ASSUME SessionInv, NEW t \in Tab, NEW c \in Call, call' = [call EXCEPT ![t] = c],
         UNCHANGED <<browser, clock, refreshFaults>>,
         token' \in [Token -> TokenRow], minted' \in minted .. MaxToken,
         session' \in [Session -> {"NONE", "VALID", "INVALID"}], struck' \in BOOLEAN, RowsFit',
         \A n \in Token : Minted(n) => SessionOf(n)' = SessionOf(n),
         CallFits(c, tab[t].at)', c.tok <= minted', c.new <= minted', c.at # "end",
         WebLocks /\ refreshFaults = 0 => CalmSession'
  PROVE  SessionInv'
<1>0. UNCHANGED <<cookie, tab, lockQueue, news>>
  BY DEF browser
<1>1. SessionTypeOK'
  <2>1. minted' \in 0 .. MaxToken /\ call' \in [Tab -> Call]
    BY SessionTyped
  <2> QED BY <1>0, <2>1, SessionTyped DEF SessionInv, SessionTypeOK
<1>2. LockFits' /\ cookie' <= minted'
  BY <1>0, SessionTyped DEF SessionInv, LockFits, HoldsLock
<1>3. ASSUME NEW n \in Token, Minted(n) PROVE Minted(n)' /\ SessionOf(n)' = SessionOf(n)
  BY <1>3, SessionTyped DEF Minted, Token
<1>4. ASSUME NEW u \in Tab PROVE CallFits(call[u], tab[u].at)' /\ CallKnows(call[u])'
  <2>1. CASE u = t
    <3>1. call'[u] = c /\ tab'[u] = tab[t]
      BY <1>0, <2>1, SessionTyped
    <3>2. CallFits(call[u], tab[u].at)'
      BY <1>0, <3>1 DEF CallFits, Deciding
    <3> QED BY <3>1, <3>2 DEF CallKnows
  <2>2. CASE u # t
    <3>1. call'[u] = call[u] /\ call[u] \in Call /\ CallFits(call[u], tab[u].at) /\ CallKnows(call[u])
      BY <2>2, SessionTyped DEF SessionInv
    <3>2. CallFits(call[u], tab[u].at)'
      BY <1>0, <3>1 DEF CallFits
    <3>3. call[u].tok <= minted' /\ call[u].new <= minted'
      BY <3>1, SessionTyped DEF CallKnows, Call
    <3>4. ASSUME call[u].at = "end", NEW n \in call[u].seen
          PROVE  Minted(n)' /\ SessionOf(n)' = SessionOf(call[u].tok)'
      <4>1. n \in Token /\ call[u].tok # 0
        BY <3>1, <3>4 DEF Call, CallFits, Deciding
      <4> QED BY <1>3, <3>1, <3>4, <4>1, CallAbout DEF CallKnows
    <3>5. CallKnows(call[u])'
      BY <3>1, <3>3, <3>4 DEF CallKnows, SessionOf
    <3> QED BY <3>2, <3>5
  <2> QED BY <2>1, <2>2
<1> QED BY <1>0, <1>1, <1>2, <1>4 DEF SessionInv

(* The transaction of a rotation on the rows.                                  *)
LEMMA ExchangeRows ==
  ASSUME SessionInv, NEW n \in Token, NEW now \in Time, LiveToken(n), session[SessionOf(n)] = "VALID",
         minted < MaxToken, Exchanged(n, now), session' = session
  PROVE  /\ token' \in [Token -> TokenRow] /\ minted' \in minted .. MaxToken /\ RowsFit'
         /\ minted' = minted + 1 /\ minted + 1 \in Token /\ LiveToken(minted)'
         /\ \A m \in Token : Minted(m) => SessionOf(m)' = SessionOf(m)
<1> DEFINE spent == [token[n] EXCEPT !.revoked = TRUE, !.at = now]
           heir == [NoToken EXCEPT !.session = SessionOf(n), !.parent = n]
<1>1. /\ minted \in Nat /\ minted' = minted + 1 /\ minted + 1 \in Token /\ n \in 1 .. minted
      /\ n # minted + 1 /\ minted' \in minted .. MaxToken /\ token[n] \in TokenRow
  BY SessionTyped, SessionBounds DEF Exchanged, Token, LiveToken, Minted
<1>2. SessionOf(n) \in Session /\ token[n].session = SessionOf(n) /\ n \in 0 .. MaxToken
      /\ SessionOf(n) \in 0 .. MaxSession
  BY <1>1, SessionBounds DEF SessionInv, RowsFit, LiveToken, SessionOf, Session, Token
<1>3. /\ spent \in TokenRow /\ spent.session = SessionOf(n) /\ spent.parent = token[n].parent
      /\ spent.revoked = TRUE
  BY <1>1, <1>2 DEF TokenRow
<1>4. heir \in TokenRow /\ heir.session = SessionOf(n) /\ heir.parent = n /\ heir.revoked = FALSE
  BY <1>2, NoneTyped DEF TokenRow
<1>5. token' = [token EXCEPT ![n] = spent, ![minted + 1] = heir]
  BY DEF Exchanged
<1> HIDE DEF spent, heir
<1>6. token' \in [Token -> TokenRow] /\ \A m \in Token : token'[m] =
        IF m = minted + 1 THEN heir ELSE (IF m = n THEN spent ELSE token[m])
  BY <1>1, <1>3, <1>4, <1>5, SessionTyped
<1>7. \A m \in Token : Minted(m)' <=> (Minted(m) \/ m = minted + 1)
  BY <1>1 DEF Minted, Token
<1>8. \A m \in Token : Minted(m) => m # minted + 1
  BY <1>1 DEF Minted, Token
<1>9. ASSUME NEW m \in Token, Minted(m)
      PROVE  token'[m].session = token[m].session /\ token'[m].parent = token[m].parent
             /\ (token[m].revoked => token'[m].revoked) /\ (m # n => token'[m] = token[m])
  BY <1>3, <1>6, <1>8, <1>9, <1>2
<1>10. RowsFit'
  <2>1. \A m \in Token : ~Minted(m)' => token'[m] = NoToken
    BY <1>6, <1>7 DEF SessionInv, RowsFit, LiveToken
  <2>2. ASSUME NEW m \in Token, Minted(m)'
        PROVE  /\ token'[m].session \in Session /\ session'[token'[m].session] # "NONE"
               /\ token'[m].parent # 0 => token'[m].parent \in 1 .. minted' /\ token'[token'[m].parent].revoked
    <3>1. CASE m = minted + 1
      BY <1>1, <1>2, <1>3, <1>4, <1>6, <1>7, <3>1 DEF LiveToken
    <3>2. CASE Minted(m)
      <4>0. minted' = minted + 1 /\ minted \in Nat
        BY <1>1
      <4>1. /\ token[m].session \in Session /\ session[token[m].session] # "NONE"
            /\ token[m].parent # 0 => Minted(token[m].parent) /\ token[token[m].parent].revoked
        BY <3>2 DEF SessionInv, RowsFit, SessionOf
      <4>2. Minted(token[m].parent) => token[m].parent \in Token
        BY MintedToken
      <4>3. token'[m].parent # 0 => token[m].parent \in 1 .. minted
        BY <1>9, <3>2, <4>1 DEF Minted
      <4>4. token'[m].parent = token[m].parent /\ token'[m].session = token[m].session
        BY <1>9, <3>2
      <4>5. token[m].parent # 0 => token'[token[m].parent].revoked
        BY <1>9, <4>1, <4>2
      <4>6. token[m].parent # 0 => token[m].parent \in 1 .. minted'
        BY <4>0, <4>3, <4>4
      <4> QED BY <4>1, <4>4, <4>5, <4>6
    <3> QED BY <1>7, <2>2, <3>1, <3>2
  <2>3. ASSUME NEW m \in Token, NEW k \in Token, Minted(m), Minted(k), m # k
        PROVE  /\ token[m].parent # 0 => token[m].parent # token[k].parent
               /\ ~token[m].revoked /\ ~token[k].revoked => token[m].session # token[k].session
    BY <2>3 DEF SessionInv, RowsFit, OneSuccessor, LiveToken, SessionOf
  <2>4. ASSUME NEW m \in Token, Minted(m) PROVE token[m].parent # n
    BY <2>4 DEF SessionInv, RowsFit, LiveToken, Token
  <2>5. ASSUME NEW m \in Token, Minted(m), ~token'[m].revoked
        PROVE  token'[m].session # SessionOf(n)
    <3>1. m # n /\ token'[m] = token[m]
      BY <1>3, <1>6, <1>8, <1>9, <2>5
    <3> QED BY <2>3, <2>5, <3>1 DEF LiveToken, SessionOf
  <2>6. ASSUME NEW m \in Token, NEW k \in Token, Minted(m)', Minted(k)', m # k
        PROVE  /\ token'[m].parent # 0 => token'[m].parent # token'[k].parent
               /\ ~token'[m].revoked /\ ~token'[k].revoked => token'[m].session # token'[k].session
    <3>1. CASE Minted(m) /\ Minted(k)
      BY <1>9, <2>3, <2>6, <3>1
    <3>2. CASE m = minted + 1
      BY <1>4, <1>6, <1>7, <1>9, <2>4, <2>5, <2>6, <3>2
    <3>3. CASE k = minted + 1
      BY <1>4, <1>6, <1>7, <1>9, <2>4, <2>5, <2>6, <3>3
    <3> QED BY <1>7, <2>6, <3>1, <3>2, <3>3
  <2>7. OneSuccessor'
    BY <2>6 DEF OneSuccessor, LiveToken, SessionOf
  <2> QED BY <2>1, <2>2, <2>7 DEF RowsFit, SessionOf, Minted
<1>11. LiveToken(minted)'
  <2>1. token'[minted + 1].revoked = FALSE /\ minted' = minted + 1 /\ minted' \in 1 .. minted'
    BY <1>1, <1>4, <1>6
  <2> QED BY <1>1, <2>1 DEF LiveToken, Minted
<1> QED BY <1>1, <1>6, <1>9, <1>10, <1>11 DEF SessionOf

LEMMA RotateStep == ASSUME SessionInv, NEW t \in Tab, Rotate(t) PROVE SessionInv'
<1> DEFINE n == call[t].tok
<1>1. call[t].kind = "REFRESH" /\ call[t].at = "rotate" /\ AtServer(call[t]) /\ Deciding(call[t])
      /\ UNCHANGED <<browser, clock, refreshFaults, struck>> /\ tab' = tab
      /\ refreshFaults' \in refreshFaults .. MaxRefreshFaults
  BY SessionTyped DEF Rotate, CallAt, AtServer, Deciding, browser
<1>2. CASE Reply(t, "CONFLICT") /\ UNCHANGED server
  BY <1>1, <1>2, Replies DEF Result
<1>3. CASE Reply(t, "DENIED") /\ UNCHANGED server
  BY <1>1, <1>3, Replies DEF Result
<1>4. CASE /\ ~token[n].revoked /\ session[SessionOf(n)] = "VALID" /\ minted < MaxToken
           /\ Exchanged(n, call[t].now) /\ Answer(t, "OK", minted + 1) /\ UNCHANGED session
  <2>1. n # 0 /\ call[t].now \in Time
    BY <1>1, SessionTyped DEF SessionInv, CallFits, Call
  <2>2. n \in Token /\ LiveToken(n)
    BY <1>4, <2>1, CallAbout DEF LiveToken
  <2>3. /\ token' \in [Token -> TokenRow] /\ minted' \in minted .. MaxToken /\ RowsFit'
        /\ minted' = minted + 1 /\ minted + 1 \in Token /\ LiveToken(minted)'
        /\ \A m \in Token : Minted(m) => SessionOf(m)' = SessionOf(m)
    BY <1>4, <2>1, <2>2, ExchangeRows
  <2>4. minted + 1 \in 0 .. MaxToken /\ minted + 1 # 0 /\ minted \in Nat
    BY <2>3, SessionTyped DEF Token
  <2>5. PICK c \in Call :
           /\ call' = [call EXCEPT ![t] = c] /\ CallFits(c, tab[t].at)'
           /\ c.tok \in {0, n} /\ c.new \in {0, minted + 1} /\ c.at \in {"free", "reply"}
           /\ Exchanges(c) => c.new = minted + 1
           /\ refreshFaults' = 0 => Exchanges(c)
    BY <1>1, <1>4, <2>4, Answers DEF Result
  <2>6. c.tok <= minted' /\ c.new <= minted' /\ c.at # "end"
    BY <2>2, <2>3, <2>4, <2>5 DEF LiveToken, Minted
  <2>7. ASSUME WebLocks, refreshFaults = 0 PROVE CalmSession'
    <3>1. CalmSession /\ refreshFaults' = 0
      BY <1>1, <2>7 DEF SessionInv
    <3>2. Exchanges(c) /\ c.new = minted' /\ c.at = "reply"
      BY <2>3, <2>5, <3>1 DEF Exchanges
    <3>3. ASSUME NEW u \in Tab PROVE CallCalm(call[u])'
      <4>1. CASE u = t
        <5>1. call'[u] = c
          BY <2>5, <4>1, SessionTyped
        <5>2. Good(call[u].new)'
          BY <2>3, <3>2, <5>1 DEF Good
        <5> QED BY <3>2, <5>1, <5>2 DEF CallCalm
      <4>2. CASE u # t
        <5>1. call'[u] = call[u] /\ CallFits(call[u], tab[u].at)
          BY <2>5, <4>2, SessionTyped DEF SessionInv
        <5>2. ~(call[u].kind = "REFRESH" /\ call[u].at # "free")
          BY <1>1, <2>7, <4>2, Alone
        <5> QED BY <5>1, <5>2 DEF CallCalm, Exchanges, CallFits, Deciding
      <4> QED BY <4>1, <4>2
    <3>4. Exchanges(call[t])'
      <4>1. call'[t] = c
        BY <2>5, SessionTyped
      <4> QED BY <3>2, <4>1 DEF Exchanges
    <3> QED BY <1>1, <3>1, <3>3, <3>4 DEF CalmSession
  <2> QED BY <1>1, <1>4, <2>3, <2>5, <2>6, <2>7, SessionTyped, RowsMove
<1> QED BY <1>1, <1>2, <1>3, <1>4 DEF Rotate

(* A handler that ends a session and revokes its tokens.                       *)
LEMMA SessionEnds ==
  ASSUME SessionInv, NEW t \in Tab, AtServer(call[t]), NEW r \in Result, Reply(t, r),
         r = "OK" => call[t].kind = "LOGOUT",
         call[t].tok # 0, NEW gone \in SUBSET Token, NEW now \in Time,
         \A n \in gone : Minted(n) /\ SessionOf(n) = SessionOf(call[t].tok),
         token' = [n \in Token |-> IF n \in gone THEN [token[n] EXCEPT !.revoked = TRUE, !.at = now]
                                                  ELSE token[n]],
         session' = [session EXCEPT ![SessionOf(call[t].tok)] = "INVALID"],
         UNCHANGED <<minted, browser, clock, refreshFaults>>, struck' \in BOOLEAN,
         WebLocks /\ refreshFaults = 0 => struck' = struck
  PROVE  SessionInv'
<1> DEFINE s == SessionOf(call[t].tok)
           Struck(n) == [token[n] EXCEPT !.revoked = TRUE, !.at = now]
<1>1. s \in Session /\ session' = [session EXCEPT ![s] = "INVALID"] /\ tab' = tab /\ UNCHANGED minted
  BY CallAbout DEF browser
<1>2. ASSUME NEW n \in Token
      PROVE  Struck(n) \in TokenRow /\ Struck(n).session = token[n].session
             /\ Struck(n).parent = token[n].parent /\ Struck(n).revoked = TRUE
  BY SessionTyped DEF TokenRow
<1>3. \A n \in Token : token'[n] = IF n \in gone THEN Struck(n) ELSE token[n]
  OBVIOUS
<1> HIDE DEF Struck
<1>4. ASSUME NEW n \in Token
      PROVE  /\ token'[n] \in TokenRow /\ token'[n].session = token[n].session
             /\ token'[n].parent = token[n].parent /\ (token[n].revoked => token'[n].revoked)
             /\ (token'[n].revoked => token[n].revoked \/ n \in gone)
             /\ (n \notin gone => token'[n] = token[n])
  BY <1>2, <1>3, SessionTyped
<1>5. token' \in [Token -> TokenRow]
  BY <1>4
<1>6. /\ session'[s] = "INVALID" /\ \A x \in Session : x # s => session'[x] = session[x]
      /\ \A x \in Session : session[x] # "NONE" => session'[x] # "NONE"
      /\ \A x \in Session : session[x] # "VALID" => session'[x] # "VALID"
  BY <1>1, SessionTyped
<1>7. session' \in [Session -> {"NONE", "VALID", "INVALID"}]
  BY <1>1, SessionTyped
<1>8. RowsFit'
  <2>1. ASSUME NEW n \in Token, ~Minted(n) PROVE token'[n] = NoToken
    BY <1>4, <2>1 DEF SessionInv, RowsFit
  <2>2. ASSUME NEW n \in Token, Minted(n)
        PROVE  /\ token'[n].session \in Session /\ session'[token'[n].session] # "NONE"
               /\ token'[n].parent # 0 => Minted(token'[n].parent) /\ token'[token'[n].parent].revoked
    <3>1. /\ token[n].session \in Session /\ session[token[n].session] # "NONE"
          /\ token[n].parent # 0 => Minted(token[n].parent) /\ token[token[n].parent].revoked
      BY <2>2 DEF SessionInv, RowsFit, SessionOf
    <3>2. Minted(token[n].parent) => token[n].parent \in Token
      BY MintedToken
    <3>3. token'[n].parent = token[n].parent /\ token'[n].session = token[n].session
      BY <1>4
    <3>4. token[n].parent # 0 => token'[token[n].parent].revoked
      BY <1>4, <3>1, <3>2
    <3>5. session'[token[n].session] # "NONE"
      BY <1>6, <3>1
    <3> QED BY <3>1, <3>3, <3>4, <3>5
  <2>3. ASSUME NEW m \in Token, NEW k \in Token, Minted(m), Minted(k), m # k
        PROVE  /\ token'[m].parent # 0 => token'[m].parent # token'[k].parent
               /\ ~token'[m].revoked /\ ~token'[k].revoked => token'[m].session # token'[k].session
    <3>1. /\ token[m].parent # 0 => token[m].parent # token[k].parent
          /\ ~token[m].revoked /\ ~token[k].revoked => token[m].session # token[k].session
      BY <2>3 DEF SessionInv, RowsFit, OneSuccessor, LiveToken, SessionOf
    <3> QED BY <1>4, <3>1
  <2>4. OneSuccessor'
    BY <1>1, <2>3 DEF OneSuccessor, LiveToken, SessionOf, Minted
  <2> QED BY <1>1, <2>1, <2>2, <2>4 DEF RowsFit, SessionOf, Minted
<1>9. ASSUME NEW n \in Token, Minted(n), Good(n) PROVE Good(n)'
  <2>1. token[n].session \in Session /\ token'[n].session = token[n].session
    BY <1>4, <1>9 DEF SessionInv, RowsFit, SessionOf
  <2>2. CASE n \in gone
    <3>1. token'[n].session = s
      BY <2>1, <2>2 DEF SessionOf
    <3>2. session'[s] = "INVALID"
      BY <1>1, <1>6
    <3> QED BY <3>1, <3>2 DEF Good, SessionOf
  <2>3. CASE n \notin gone
    BY <1>1, <1>4, <1>6, <1>9, <2>1, <2>3 DEF Good, SessionOf, LiveToken, Minted
  <2> QED BY <2>2, <2>3
<1>10. 0 \in 0 .. MaxToken /\ Answer(t, r, 0) /\ refreshFaults' \in refreshFaults .. MaxRefreshFaults
       /\ ~(r = "OK" /\ call[t].kind = "REFRESH")
  BY MintedToken DEF Reply
<1>11. PICK c \in Call :
           /\ call' = [call EXCEPT ![t] = c] /\ CallFits(c, tab[t].at)'
           /\ c.tok \in {0, call[t].tok} /\ c.new \in {0, 0} /\ c.at \in {"free", "reply"}
           /\ Exchanges(c) => r = "OK" /\ call[t].kind = "REFRESH"
  BY <1>1, <1>10, Answers
<1>12. c.tok <= minted' /\ c.new <= minted' /\ c.at # "end" /\ minted' \in minted .. MaxToken
  BY <1>1, <1>11, MintedToken DEF SessionInv, CallKnows
<1>13. ASSUME WebLocks, refreshFaults = 0 PROVE CalmSession'
  <2>1. CalmSession /\ struck' = struck /\ cookie' = cookie
    BY <1>13 DEF SessionInv, browser
  <2>2. \A u \in Tab : call'[u] = IF u = t THEN c ELSE call[u]
    BY <1>11, SessionTyped
  <2>3. ~Exchanges(call[t]) /\ ~Exchanges(c)
    BY <1>10, <1>11 DEF AtServer, Exchanges
  <2>4. ASSUME NEW u \in Tab PROVE CallCalm(call[u])'
    <3>1. CASE u = t
      <4>1. call'[u] = c
        BY <2>2, <3>1
      <4> QED BY <1>11, <2>3, <4>1 DEF CallCalm, Exchanges
    <3>2. CASE u # t
      <4>1. /\ call'[u] = call[u] /\ CallCalm(call[u]) /\ CallFits(call[u], tab[u].at)
            /\ CallKnows(call[u]) /\ call[u] \in Call
        BY <2>1, <2>2, <3>2, SessionTyped DEF CalmSession, SessionInv
      <4>2. call[u].tok # 0 => call[u].tok \in Token /\ Minted(call[u].tok)
        BY CallAbout
      <4>3. call[u].new # 0 => call[u].new \in Token /\ Minted(call[u].new)
        BY <4>1, MintedToken DEF Call, CallKnows
      <4>4. call[u].tok # 0 /\ Good(call[u].tok) => Good(call[u].tok)'
        BY <1>9, <4>1, <4>2 DEF Good, LiveToken, SessionOf, Minted
      <4>5. call[u].new # 0 /\ Good(call[u].new) => Good(call[u].new)'
        BY <1>9, <4>1, <4>3 DEF Good, LiveToken, SessionOf, Minted
      <4>6. call[u].at \in {"look", "end"} => session'[token'[call[u].tok].session] # "VALID"
        <5>1. ASSUME call[u].at \in {"look", "end"} PROVE session'[token'[call[u].tok].session] # "VALID"
          <6>1. call[u].tok \in Token /\ token[call[u].tok].session \in Session
            BY <4>1, <4>2, <5>1, CallAbout DEF CallFits, Deciding, SessionOf
          <6>2. session[token[call[u].tok].session] # "VALID"
            BY <4>1, <5>1 DEF CallCalm, SessionOf
          <6>3. token'[call[u].tok].session = token[call[u].tok].session
            BY <1>4, <6>1
          <6> QED BY <1>6, <6>1, <6>2, <6>3
        <5> QED BY <5>1
      <4>7. Exchanges(call[u]) => call[u].new # 0
        BY <4>1 DEF Exchanges, CallFits
      <4> QED BY <4>1, <4>4, <4>5, <4>6, <4>7 DEF CallCalm, Exchanges, SessionOf
    <3> QED BY <3>1, <3>2
  <2>5. ASSUME cookie' # 0, \A u \in Tab : ~Exchanges(call'[u]) PROVE Good(cookie)'
    <3>1. \A u \in Tab : ~Exchanges(call[u])
      BY <2>2, <2>3, <2>5
    <3>2. cookie \in Token /\ Minted(cookie)
      BY <2>1, <2>5, SessionTyped, MintedToken DEF SessionInv
    <3> QED BY <1>9, <2>1, <2>5, <3>1, <3>2 DEF CalmSession, Good, LiveToken, SessionOf, Minted
  <2>6. \A u \in Tab : Exchanges(call[u])' <=> Exchanges(call'[u])
    BY DEF Exchanges
  <2>7. \A u \in Tab : tab'[u].via # "none"
    BY <1>1, <2>1 DEF CalmSession
  <2> QED BY <2>1, <2>4, <2>5, <2>6, <2>7 DEF CalmSession
<1>14. \A n \in Token : Minted(n) => SessionOf(n)' = SessionOf(n)
  BY <1>4 DEF SessionOf
<1> QED BY <1>5, <1>7, <1>8, <1>4, <1>11, <1>12, <1>13, <1>14, RowsMove

LEMMA ReuseEndStep == ASSUME SessionInv, NEW t \in Tab, ReuseEnd(t) PROVE SessionInv'
<1> DEFINE n == call[t].tok
           gone == {m \in call[t].seen : LiveToken(m)}
<1>1. /\ call[t] \in Call /\ call[t].kind = "REFRESH" /\ call[t].at = "end" /\ AtServer(call[t])
      /\ CallFits(call[t], tab[t].at) /\ CallKnows(call[t]) /\ Reply(t, "DENIED")
      /\ UNCHANGED <<minted, browser, clock, refreshFaults>>
  BY SessionTyped DEF ReuseEnd, CallAt, AtServer, SessionInv
<1>2. n # 0 /\ call[t].now \in Time /\ gone \in SUBSET Token
  BY <1>1 DEF CallFits, Deciding, Call
<1>3. \A m \in gone : Minted(m) /\ SessionOf(m) = SessionOf(n)
  BY <1>1 DEF CallKnows
<1>4. token' = [m \in Token |-> IF m \in gone THEN [token[m] EXCEPT !.revoked = TRUE, !.at = call[t].now]
                                              ELSE token[m]]
  BY DEF ReuseEnd
<1>5. session' = [session EXCEPT ![SessionOf(n)] = "INVALID"]
      /\ struck' = (struck \/ session[SessionOf(n)] = "VALID")
  BY DEF ReuseEnd
<1>6. struck' \in BOOLEAN
  BY <1>5
<1>7. ASSUME WebLocks, refreshFaults = 0 PROVE struck' = struck
  <2>1. session[SessionOf(n)] # "VALID" /\ ~struck
    BY <1>1, <1>7 DEF SessionInv, CalmSession, CallCalm
  <2> QED BY <1>5, <2>1, SessionTyped
<1> HIDE DEF gone
<1> QED BY <1>1, <1>2, <1>3, <1>4, <1>5, <1>6, <1>7, SessionEnds DEF Result

LEMMA EndSessionStep == ASSUME SessionInv, NEW t \in Tab, EndSession(t) PROVE SessionInv'
<1> DEFINE n == call[t].tok
<1>1. /\ call[t].kind = "LOGOUT" /\ call[t].at = "leave" /\ AtServer(call[t])
      /\ CallFits(call[t], tab[t].at) /\ Reply(t, "OK")
      /\ UNCHANGED <<minted, browser, clock, refreshFaults>> /\ struck' = struck /\ struck' \in BOOLEAN
  BY SessionTyped DEF EndSession, CallAt, AtServer, SessionInv
<1>2. n # 0 /\ n \in Token /\ Minted(n) /\ clock \in Time /\ {n} \in SUBSET Token
  BY <1>1, CallAbout, SessionTyped DEF CallFits, Deciding
<1>3. token' = [m \in Token |-> IF m \in {n} THEN [token[m] EXCEPT !.revoked = TRUE, !.at = clock]
                                             ELSE token[m]]
  <2> DEFINE spent == [token[n] EXCEPT !.revoked = TRUE, !.at = clock]
  <2>1. token' = [token EXCEPT ![n] = spent]
    BY DEF EndSession
  <2>2. \A m \in {n} : [token[m] EXCEPT !.revoked = TRUE, !.at = clock] = spent
    OBVIOUS
  <2> HIDE DEF spent
  <2> QED BY <2>1, <2>2, SessionTyped
<1>4. session' = [session EXCEPT ![SessionOf(n)] = "INVALID"]
  BY DEF EndSession
<1>5. \A m \in {n} : Minted(m) /\ SessionOf(m) = SessionOf(n)
  BY <1>2
<1> QED BY <1>1, <1>2, <1>3, <1>4, <1>5, SessionEnds DEF Result

LEMMA LoginStep == ASSUME SessionInv, NEW t \in Tab, Login(t) PROVE SessionInv'
<1>1. /\ minted < MaxToken /\ minted' = minted + 1 /\ cookie' = minted + 1 /\ minted \in Nat
      /\ UNCHANGED <<call, tab, lockQueue, news, clock, refreshFaults, struck>>
      /\ minted + 1 \in Token /\ minted' \in 0 .. MaxToken /\ cookie' \in 0 .. MaxToken
      /\ cookie' <= minted'
  BY SessionTyped, SessionBounds DEF Login, Token
<1>2. PICK s \in Session :
        /\ session[s] = "NONE" /\ session' = [session EXCEPT ![s] = "VALID"]
        /\ token' = [token EXCEPT ![minted + 1] = [NoToken EXCEPT !.session = s]]
  BY DEF Login
<1> DEFINE first == [NoToken EXCEPT !.session = s]
<1>3. s \in 0 .. MaxSession
  BY <1>2, SessionBounds DEF Session
<1>4. first \in TokenRow /\ first.session = s /\ first.parent = 0 /\ first.revoked = FALSE
  BY <1>3, NoneTyped DEF TokenRow
<1> HIDE DEF first
<1>5. token' = [token EXCEPT ![minted + 1] = first]
  BY <1>2 DEF first
<1>6. /\ token' \in [Token -> TokenRow] /\ token'[minted + 1] = first
      /\ \A n \in Token : n # minted + 1 => token'[n] = token[n]
  BY <1>1, <1>4, <1>5, SessionTyped
<1>7. /\ session' \in [Session -> {"NONE", "VALID", "INVALID"}] /\ session'[s] = "VALID"
      /\ \A x \in Session : session[x] # "NONE" => session'[x] = session[x]
  BY <1>2, SessionTyped
<1>8. \A n : n \in 1 .. minted' <=> (n \in 1 .. minted \/ n = minted + 1)
  BY <1>1
<1>9. ASSUME NEW n, Minted(n)
      PROVE  /\ n \in Token /\ token'[n] = token[n] /\ token[n].session \in Session
             /\ session[token[n].session] # "NONE" /\ token[n].session # s
             /\ session'[token[n].session] = session[token[n].session]
             /\ token[n].parent # 0 => Minted(token[n].parent) /\ token[token[n].parent].revoked
  <2>1. n \in Token /\ n # minted + 1
    BY <1>1, <1>9, MintedToken DEF Minted
  <2>2. /\ token[n].session \in Session /\ session[token[n].session] # "NONE"
        /\ token[n].parent # 0 => Minted(token[n].parent) /\ token[token[n].parent].revoked
    BY <1>9, <2>1 DEF SessionInv, RowsFit, SessionOf
  <2> QED BY <1>2, <1>6, <1>7, <2>1, <2>2
<1>10. SessionTypeOK'
  BY <1>1, <1>6, <1>7, SessionTyped DEF SessionInv, SessionTypeOK
<1>11. RowsFit'
  <2>1. ASSUME NEW n \in Token, n \notin 1 .. minted' PROVE token'[n] = NoToken
    BY <1>6, <1>8, <2>1 DEF SessionInv, RowsFit, Minted
  <2>2. ASSUME NEW n \in Token, n \in 1 .. minted'
        PROVE  /\ token'[n].session \in Session /\ session'[token'[n].session] # "NONE"
               /\ token'[n].parent # 0 => token'[n].parent \in 1 .. minted' /\ token'[token'[n].parent].revoked
    <3>1. CASE n = minted + 1
      BY <1>2, <1>4, <1>6, <1>7, <3>1
    <3>2. CASE Minted(n)
      <4>1. token'[n] = token[n] /\ token[n].session \in Session /\ session'[token[n].session] # "NONE"
        BY <1>9, <3>2
      <4>2. token[n].parent # 0 => Minted(token[n].parent) /\ token[token[n].parent].revoked
        BY <1>9, <3>2
      <4>3. Minted(token[n].parent) => token'[token[n].parent] = token[token[n].parent]
        BY <1>9
      <4> QED BY <1>8, <4>1, <4>2, <4>3 DEF Minted
    <3> QED BY <1>8, <2>2, <3>1, <3>2 DEF Minted
  <2>3. ASSUME NEW m \in Token, NEW k \in Token, m \in 1 .. minted', k \in 1 .. minted', m # k
        PROVE  /\ token'[m].parent # 0 => token'[m].parent # token'[k].parent
               /\ ~token'[m].revoked /\ ~token'[k].revoked => token'[m].session # token'[k].session
    <3>1. CASE Minted(m) /\ Minted(k)
      <4>1. /\ token[m].parent # 0 => token[m].parent # token[k].parent
            /\ ~token[m].revoked /\ ~token[k].revoked => token[m].session # token[k].session
        BY <2>3, <3>1 DEF SessionInv, RowsFit, OneSuccessor, LiveToken, SessionOf
      <4> QED BY <1>9, <3>1, <4>1
    <3>2. CASE m = minted + 1 /\ Minted(k)
      <4>1. token'[k].session # s /\ token'[m] = first
        BY <1>6, <1>9, <3>2
      <4> QED BY <1>4, <4>1
    <3>3. CASE k = minted + 1 /\ Minted(m)
      <4>1. token'[m].session # s /\ token'[k] = first
        BY <1>6, <1>9, <3>3
      <4> QED BY <1>4, <4>1
    <3> QED BY <1>8, <2>3, <3>1, <3>2, <3>3 DEF Minted
  <2>4. OneSuccessor'
    BY <2>3 DEF OneSuccessor, LiveToken, SessionOf, Minted
  <2> QED BY <2>1, <2>2, <2>4 DEF RowsFit, SessionOf, Minted
<1>12. LockFits'
  BY <1>1 DEF SessionInv, LockFits, HoldsLock
<1>13. ASSUME NEW n, Minted(n)
       PROVE  Minted(n)' /\ SessionOf(n)' = SessionOf(n) /\ (Good(n) => Good(n)')
  BY <1>8, <1>9, <1>13 DEF Minted, SessionOf, Good, LiveToken
<1>14. ASSUME NEW u \in Tab PROVE CallFits(call[u], tab[u].at)' /\ CallKnows(call[u])'
  <2>1. CallFits(call[u], tab[u].at) /\ CallKnows(call[u]) /\ call[u] \in Call
    BY SessionTyped DEF SessionInv
  <2>2. CallFits(call[u], tab[u].at)'
    BY <1>1, <2>1 DEF CallFits, Deciding
  <2>3. call[u].tok <= minted' /\ call[u].new <= minted'
    BY <1>1, <2>1 DEF CallKnows, Call
  <2>4. ASSUME call[u].at = "end", NEW n \in call[u].seen
        PROVE  Minted(n)' /\ SessionOf(n)' = SessionOf(call[u].tok)'
    <3>1. call[u].tok # 0
      BY <2>1, <2>4 DEF CallFits, Deciding
    <3>2. Minted(n) /\ Minted(call[u].tok) /\ SessionOf(n) = SessionOf(call[u].tok)
      BY <2>1, <2>4, <3>1, CallAbout DEF CallKnows
    <3>3. SessionOf(call[u].tok)' = SessionOf(call[u].tok)
      BY <1>1, <1>13, <3>2 DEF SessionOf
    <3> QED BY <1>13, <3>2, <3>3
  <2> QED BY <1>1, <2>2, <2>3, <2>4 DEF CallKnows, SessionOf
<1>15. Good(cookie)'
  BY <1>1, <1>4, <1>6, <1>8 DEF Good, LiveToken, Minted
<1>16. ASSUME WebLocks, refreshFaults = 0 PROVE CalmSession'
  <2>1. CalmSession
    BY <1>16 DEF SessionInv
  <2>2. ASSUME NEW u \in Tab PROVE CallCalm(call[u])'
    <3>1. CallCalm(call[u]) /\ CallFits(call[u], tab[u].at) /\ CallKnows(call[u]) /\ call[u] \in Call
      BY <2>1, SessionTyped DEF CalmSession, SessionInv
    <3>2. call[u].tok # 0 => Minted(call[u].tok)
      BY CallAbout
    <3>3. call[u].new # 0 => Minted(call[u].new)
      BY <3>1, MintedToken DEF Call, CallKnows
    <3>4. call[u].tok # 0 /\ Good(call[u].tok) => Good(call[u].tok)'
      BY <1>1, <1>13, <3>2 DEF Good, LiveToken, SessionOf, Minted
    <3>5. call[u].new # 0 /\ Good(call[u].new) => Good(call[u].new)'
      BY <1>1, <1>13, <3>3 DEF Good, LiveToken, SessionOf, Minted
    <3>6. call[u].at \in {"look", "end"} => session'[token'[call[u].tok].session] # "VALID"
      <4>1. ASSUME call[u].at \in {"look", "end"} PROVE session'[token'[call[u].tok].session] # "VALID"
        <5>1. Minted(call[u].tok) /\ session[token[call[u].tok].session] # "VALID"
          BY <3>1, <3>2, <4>1 DEF CallFits, Deciding, CallCalm, SessionOf
        <5> QED BY <1>9, <5>1
      <4> QED BY <4>1
    <3>7. Exchanges(call[u]) => call[u].new # 0
      BY <3>1 DEF Exchanges, CallFits
    <3> QED BY <1>1, <3>1, <3>4, <3>5, <3>6, <3>7 DEF CallCalm, Exchanges, SessionOf
  <2> QED BY <1>1, <1>15, <2>1, <2>2 DEF CalmSession
<1> QED BY <1>1, <1>10, <1>11, <1>12, <1>14, <1>16 DEF SessionInv

(* ------------------------------ The lock queue ----------------------------- *)
LEMMA LockKept ==
  ASSUME SessionInv, NEW t \in Tab, NEW p \in TabState, tab' = [tab EXCEPT ![t] = p], lockQueue' = lockQueue,
         tab[t].at \in Refreshing => p.at \in Refreshing /\ p.via = tab[t].via, p.at # "resend",
         WebLocks /\ p.at \in {"handoff", "sent", "peer"} /\ p.via # "none" =>
           lockQueue # <<>> /\ Head(lockQueue) = t
  PROVE  LockTyped(lockQueue') /\ LockFits'
<1>1. LockTyped(lockQueue')
  BY DEF SessionInv, SessionTypeOK, LockTyped
<1>2. \A u \in Tab : tab'[u] = IF u = t THEN p ELSE tab[u]
  BY SessionTyped
<1>3. ASSUME NEW i \in DOMAIN lockQueue
      PROVE  tab'[lockQueue[i]].at \in Refreshing /\ tab'[lockQueue[i]].via # "none"
  <2>1. /\ lockQueue[i] \in Tab
        /\ tab[lockQueue[i]].at \in Refreshing /\ tab[lockQueue[i]].via # "none"
    BY SessionTyped DEF SessionInv, LockFits
  <2> QED BY <1>2, <2>1
<1>4. ASSUME WebLocks, NEW u \in Tab, HoldsLock(u)' PROVE lockQueue # <<>> /\ Head(lockQueue) = u
  BY <1>2, <1>4 DEF SessionInv, LockFits, HoldsLock
<1> QED BY <1>1, <1>3, <1>4 DEF SessionInv, LockFits

LEMMA LockReleased ==
  ASSUME SessionInv, NEW t \in Tab, tab[t].at \in {"handoff", "sent", "peer", "leaving"},
         NEW p \in TabState, tab' = [tab EXCEPT ![t] = p],
         p.at = "idle" \/ (p.at = "resend" /\ p.via = "none"), lockQueue' = Released(lockQueue, t)
  PROVE  LockTyped(lockQueue') /\ LockFits'
<1>1. lockQueue \in Seq(Tab) /\ \A i, j \in DOMAIN lockQueue : lockQueue[i] = lockQueue[j] => i = j
  BY DEF SessionInv, SessionTypeOK
<1>2. \A u \in Tab : tab'[u] = IF u = t THEN p ELSE tab[u]
  BY SessionTyped
<1>3. CASE lockQueue # <<>> /\ Head(lockQueue) = t
  <2>1. lockQueue' = Tail(lockQueue)
    BY <1>3 DEF Released
  <2>2. /\ Tail(lockQueue) \in Seq(Tab) /\ Len(lockQueue) \in Nat /\ Len(lockQueue) > 0
        /\ lockQueue[1] = t /\ DOMAIN lockQueue = 1 .. Len(lockQueue)
        /\ DOMAIN Tail(lockQueue) = 1 .. (Len(lockQueue) - 1)
        /\ \A i \in 1 .. (Len(lockQueue) - 1) : Tail(lockQueue)[i] = lockQueue[i + 1]
    <3>1. /\ Tail(lockQueue) \in Seq(Tab) /\ Len(Tail(lockQueue)) = Len(lockQueue) - 1
          /\ \A i \in 1 .. Len(Tail(lockQueue)) : Tail(lockQueue)[i] = lockQueue[i + 1]
      BY <1>1, <1>3, HeadTailProperties
    <3>2. /\ Len(lockQueue) \in Nat /\ Len(lockQueue) > 0 /\ DOMAIN lockQueue = 1 .. Len(lockQueue)
          /\ lockQueue[1] = t
      BY <1>1, <1>3
    <3>3. DOMAIN Tail(lockQueue) = 1 .. Len(Tail(lockQueue))
      BY <3>1
    <3> QED BY <3>1, <3>2, <3>3
  <2>3. ASSUME NEW i \in DOMAIN lockQueue'
        PROVE  i + 1 \in DOMAIN lockQueue /\ lockQueue'[i] = lockQueue[i + 1] /\ i \in Int
               /\ i + 1 # 1 /\ 1 \in DOMAIN lockQueue
    BY <2>1, <2>2, <2>3
  <2>4. LockTyped(lockQueue')
    <3>1. ASSUME NEW i \in DOMAIN lockQueue', NEW j \in DOMAIN lockQueue', lockQueue'[i] = lockQueue'[j]
          PROVE  i = j
      <4>1. i + 1 \in DOMAIN lockQueue /\ lockQueue'[i] = lockQueue[i + 1] /\ i \in Int
        BY <2>3
      <4>2. j + 1 \in DOMAIN lockQueue /\ lockQueue'[j] = lockQueue[j + 1] /\ j \in Int
        BY <2>3
      <4>3. i + 1 = j + 1
        BY <1>1, <3>1, <4>1, <4>2
      <4> QED BY <4>1, <4>2, <4>3
    <3>2. lockQueue' \in Seq(Tab)
      BY <2>1, <2>2
    <3>3. \A i, j \in DOMAIN lockQueue' : lockQueue'[i] = lockQueue'[j] => i = j
      BY <3>1
    <3> QED BY <3>2, <3>3 DEF LockTyped
  <2>5. ASSUME NEW i \in DOMAIN lockQueue'
        PROVE  tab'[lockQueue'[i]].at \in Refreshing /\ tab'[lockQueue'[i]].via # "none"
    <3>1. /\ lockQueue[i + 1] \in Tab
          /\ tab[lockQueue[i + 1]].at \in Refreshing /\ tab[lockQueue[i + 1]].via # "none"
      BY <1>1, <2>3, <2>5 DEF SessionInv, LockFits
    <3>2. lockQueue[i + 1] # t
      <4>1. i + 1 \in DOMAIN lockQueue /\ 1 \in DOMAIN lockQueue /\ i + 1 # 1
        BY <2>3, <2>5
      <4> QED BY <1>1, <2>2, <4>1
    <3>3. lockQueue'[i] = lockQueue[i + 1]
      BY <2>3, <2>5
    <3> QED BY <1>2, <3>1, <3>2, <3>3
  <2>6. WebLocks /\ \A u \in Tab : ~HoldsLock(u)'
    <3>1. WebLocks
      BY <1>3 DEF SessionInv, LockFits
    <3>2. ASSUME NEW u \in Tab PROVE ~HoldsLock(u)'
      BY <1>2, <1>3, <3>1 DEF SessionInv, LockFits, HoldsLock
    <3> QED BY <3>1, <3>2
  <2>7. \A u \in Tab : tab'[u].at = "resend" => tab'[u].via = "none"
    BY <1>2 DEF SessionInv, LockFits
  <2> QED BY <2>4, <2>5, <2>6, <2>7 DEF LockFits
<1>4. CASE ~(lockQueue # <<>> /\ Head(lockQueue) = t)
  <2>1. lockQueue' = lockQueue
    BY <1>4 DEF Released
  <2>2. ASSUME NEW i \in DOMAIN lockQueue PROVE lockQueue[i] # t
    <3>1. WebLocks
      BY <1>1, <2>2 DEF SessionInv, LockFits
    <3>2. tab[t].at = "leaving" \/ tab[t].via = "none"
      BY <1>4, <3>1 DEF SessionInv, LockFits, HoldsLock
    <3> QED BY <1>1, <3>2 DEF SessionInv, LockFits, Refreshing
  <2>3. ASSUME NEW i \in DOMAIN lockQueue
        PROVE  tab'[lockQueue[i]].at \in Refreshing /\ tab'[lockQueue[i]].via # "none"
    <3>1. /\ lockQueue[i] \in Tab
          /\ tab[lockQueue[i]].at \in Refreshing /\ tab[lockQueue[i]].via # "none"
      BY <1>1 DEF SessionInv, LockFits
    <3> QED BY <1>2, <2>2, <3>1
  <2>4. ASSUME WebLocks, NEW u \in Tab, HoldsLock(u)' PROVE lockQueue # <<>> /\ Head(lockQueue) = u
    BY <1>2, <2>4 DEF SessionInv, LockFits, HoldsLock
  <2>5. \A u \in Tab : tab'[u].at = "resend" => tab'[u].via = "none"
    BY <1>2 DEF SessionInv, LockFits
  <2> QED BY <1>1, <2>1, <2>3, <2>4, <2>5 DEF SessionInv, LockFits, LockTyped
<1> QED BY <1>3, <1>4

LEMMA LockSettled ==
  ASSUME SessionInv, NEW t \in Tab, tab[t].at \in {"handoff", "sent", "peer", "leaving"}, Settle(t)
  PROVE  LockTyped(lockQueue') /\ LockFits'
BY LockReleased, NoneTyped DEF Settle

LEMMA LockJoined ==
  ASSUME SessionInv, NEW t \in Tab, NEW p \in TabState, tab[t].at = "idle", WebLocks,
         tab' = [tab EXCEPT ![t] = p], lockQueue' = Append(lockQueue, t),
         p.at \in {"queued", "sent"}, p.at = "sent" => lockQueue = <<>>, p.via # "none"
  PROVE  LockTyped(lockQueue') /\ LockFits'
<1>1. lockQueue \in Seq(Tab) /\ \A i, j \in DOMAIN lockQueue : lockQueue[i] = lockQueue[j] => i = j
  BY DEF SessionInv, SessionTypeOK
<1>2. \A u \in Tab : tab'[u] = IF u = t THEN p ELSE tab[u]
  BY SessionTyped
<1>3. /\ lockQueue' \in Seq(Tab) /\ lockQueue' # <<>> /\ Len(lockQueue) \in Nat
      /\ DOMAIN lockQueue = 1 .. Len(lockQueue) /\ DOMAIN lockQueue' = 1 .. (Len(lockQueue) + 1)
      /\ lockQueue'[Len(lockQueue) + 1] = t
      /\ \A i \in DOMAIN lockQueue : lockQueue'[i] = lockQueue[i]
  BY <1>1, AppendProperties
<1>4. ASSUME NEW i \in DOMAIN lockQueue'
      PROVE  (i \in DOMAIN lockQueue /\ lockQueue'[i] = lockQueue[i]) \/ i = Len(lockQueue) + 1
  BY <1>3, <1>4
<1>5. ASSUME NEW i \in DOMAIN lockQueue
      PROVE  /\ lockQueue[i] \in Tab /\ lockQueue[i] # t
             /\ tab[lockQueue[i]].at \in Refreshing /\ tab[lockQueue[i]].via # "none"
  BY <1>1, SessionTyped DEF SessionInv, LockFits, Refreshing
<1>6. LockTyped(lockQueue')
  BY <1>1, <1>3, <1>4, <1>5 DEF LockTyped
<1>7. ASSUME NEW i \in DOMAIN lockQueue'
      PROVE  tab'[lockQueue'[i]].at \in Refreshing /\ tab'[lockQueue'[i]].via # "none"
  BY <1>2, <1>3, <1>4, <1>5, <1>7 DEF Refreshing
<1>8. ASSUME NEW u \in Tab, HoldsLock(u)' PROVE Head(lockQueue') = u
  <2>1. CASE lockQueue = <<>>
    <3>1. Head(lockQueue') = t
      BY <1>3, <2>1
    <3>2. u = t
      BY <1>2, <1>8, <2>1 DEF SessionInv, LockFits, HoldsLock
    <3> QED BY <3>1, <3>2
  <2>2. CASE lockQueue # <<>>
    <3>1. Head(lockQueue') = Head(lockQueue)
      BY <1>1, <1>3, <2>2
    <3>2. u # t
      BY <1>2, <1>8, <2>2 DEF HoldsLock
    <3> QED BY <1>2, <1>8, <3>1, <3>2 DEF SessionInv, LockFits, HoldsLock
  <2> QED BY <2>1, <2>2
<1>9. \A u \in Tab : tab'[u].at = "resend" => tab'[u].via = "none"
  BY <1>2 DEF SessionInv, LockFits
<1> QED BY <1>3, <1>6, <1>7, <1>8, <1>9 DEF LockFits

(* --------------------------- The tabs' own steps --------------------------- *)
(* With Web Locks and nothing lost, no exchange is under way while another tab *)
(* holds the lock, or nobody does: the cookie is good then.                    *)
LEMMA CookieGood ==
  ASSUME SessionInv, WebLocks, refreshFaults = 0, cookie # 0, NEW t \in Tab,
         lockQueue = <<>> \/ tab[t].at \in {"handoff", "peer"}
  PROVE  Good(cookie)
<1>1. ASSUME NEW u \in Tab, Exchanges(call[u]) PROVE FALSE
  <2>1. call[u].heard /\ tab[u].at = "sent"
    BY <1>1 DEF SessionInv, CallFits, Exchanges
  <2>2. lockQueue # <<>> /\ Head(lockQueue) = u
    BY <2>1, ByLock DEF SessionInv, LockFits, HoldsLock
  <2>3. tab[t].at \in {"handoff", "peer"} => Head(lockQueue) = t
    BY ByLock DEF SessionInv, LockFits, HoldsLock
  <2> QED BY <2>1, <2>2, <2>3
<1> QED BY <1>1 DEF SessionInv, CalmSession

LEMMA Sent ==
  ASSUME SessionInv, NEW kind \in {"REFRESH", "LOGOUT"}, kind = "LOGOUT" => cookie # 0
  PROVE  /\ NewCall(kind) \in Call /\ NewCall(kind).kind = kind /\ NewCall(kind).at = "received"
         /\ NewCall(kind).tok = cookie /\ NewCall(kind).new = 0 /\ NewCall(kind).heard = TRUE
  BY SessionTyped, NoneTyped DEF NewCall, Call

(* A request leaves.                                                           *)
LEMMA RequestLeaves ==
  ASSUME SessionInv, NEW t \in Tab, call[t].at = "free", NEW kind \in {"REFRESH", "LOGOUT"},
         kind = "LOGOUT" => cookie # 0,
         call' = [call EXCEPT ![t] = NewCall(kind)], NEW p \in TabState, tab' = [tab EXCEPT ![t] = p],
         p.at = IF kind = "REFRESH" THEN "sent" ELSE "leaving",
         WebLocks /\ refreshFaults = 0 => p.via # "none",
         LockTyped(lockQueue'), LockFits', news' \in [Tab -> {"NONE", "SENT", "HERE"}],
         kind = "REFRESH" /\ WebLocks /\ refreshFaults = 0 /\ cookie # 0 => Good(cookie),
         UNCHANGED <<server, cookie, clock, refreshFaults, struck>>
  PROVE  SessionInv'
<1>1. PICK c : c = NewCall(kind)
  OBVIOUS
<1>2. c \in Call /\ c.kind = kind /\ c.at = "received" /\ c.tok = cookie /\ c.new = 0 /\ c.heard = TRUE
  BY <1>1, Sent
<1>3. CallFits(c, p.at)' /\ CallKnows(c)
  BY <1>2, MintedToken DEF CallFits, CallKnows, Deciding, SessionInv
<1>4. WebLocks /\ refreshFaults' = 0 => CallCalm(c)
  BY <1>2 DEF CallCalm, Exchanges
<1>5. ASSUME WebLocks, refreshFaults' = 0, cookie' # 0, \A u \in Tab : ~Exchanges(call'[u])
      PROVE  Good(cookie')
  <2>1. \A u \in Tab : u # t => call'[u] = call[u]
    BY SessionTyped
  <2>2. \A u \in Tab : ~Exchanges(call[u])
    BY <1>5, <2>1 DEF Exchanges
  <2> QED BY <1>5, <2>2 DEF SessionInv, CalmSession
<1>6. cookie' \in 0 .. minted /\ refreshFaults' \in refreshFaults .. MaxRefreshFaults /\ clock' \in Time
  BY SessionTyped, MintedToken DEF SessionInv
<1> QED BY <1>1, <1>2, <1>3, <1>4, <1>5, <1>6, TabMoves

(* The request of a tab is over, or it had none: nothing of it is left.        *)
LEMMA Ends ==
  ASSUME SessionInv, NEW t \in Tab, NEW p \in TabState, p.at \notin {"sent", "leaving"},
         call' = [call EXCEPT ![t] = NoCall], tab' = [tab EXCEPT ![t] = p],
         LockTyped(lockQueue'), LockFits', news' \in [Tab -> {"NONE", "SENT", "HERE"}],
         refreshFaults' \in refreshFaults .. MaxRefreshFaults, cookie' \in 0 .. minted,
         WebLocks /\ refreshFaults' = 0 => p.via # "none",
         WebLocks /\ refreshFaults' = 0 =>
           (cookie' = 0 \/ (cookie' = cookie /\ ~Exchanges(call[t])) \/ Good(cookie')),
         UNCHANGED <<server, clock, struck>>
  PROVE  SessionInv'
<1>1. CallFits(NoCall, p.at)' /\ CallKnows(NoCall) /\ NoCall \in Call /\ CallCalm(NoCall)
  BY NoneTyped, MintedToken DEF CallFits, CallKnows, Deciding, CallCalm, Exchanges
<1>2. ASSUME WebLocks, refreshFaults' = 0, cookie' # 0, \A u \in Tab : ~Exchanges(call'[u])
      PROVE  Good(cookie')
  <2>1. \A u \in Tab : u # t => call'[u] = call[u]
    BY SessionTyped
  <2>2. ~Exchanges(call[t]) => \A u \in Tab : ~Exchanges(call[u])
    BY <1>2, <2>1
  <2>3. refreshFaults = 0
    BY <1>2, SessionTyped
  <2>4. CASE cookie' = cookie /\ ~Exchanges(call[t])
    BY <1>2, <2>2, <2>3, <2>4 DEF SessionInv, CalmSession
  <2> QED BY <1>2, <2>4
<1>3. clock' \in Time
  BY SessionTyped
<1> QED BY <1>1, <1>2, <1>3, TabMoves

(* A step of a tab that has no request on the server.                          *)
LEMMA TabOnly ==
  ASSUME SessionInv, NEW t \in Tab, NEW p \in TabState, call' = call, tab' = [tab EXCEPT ![t] = p],
         call[t].at = "free", p.at \in {"idle", "queued", "handoff", "peer"},
         WebLocks /\ refreshFaults = 0 => p.via # "none",
         LockTyped(lockQueue'), LockFits', news' \in [Tab -> {"NONE", "SENT", "HERE"}],
         UNCHANGED <<server, cookie, clock, refreshFaults, struck>>
  PROVE  SessionInv'
<1>1. PICK c : c = call[t]
  OBVIOUS
<1>2. c \in Call /\ call' = [call EXCEPT ![t] = c] /\ CallFits(c, tab[t].at) /\ CallKnows(c) /\ c.at = "free"
  BY <1>1, SessionTyped DEF SessionInv
<1>3. CallFits(c, p.at)'
  BY <1>2 DEF CallFits, Deciding
<1>4. WebLocks /\ refreshFaults' = 0 => CallCalm(c) /\ p.via # "none"
  BY <1>1 DEF SessionInv, CalmSession
<1>5. WebLocks /\ refreshFaults' = 0 /\ cookie' # 0 /\ (\A u \in Tab : ~Exchanges(call'[u])) => Good(cookie')
  BY DEF SessionInv, CalmSession
<1>6. cookie' \in 0 .. minted /\ refreshFaults' \in refreshFaults .. MaxRefreshFaults /\ clock' \in Time
  BY SessionTyped, MintedToken DEF SessionInv
<1> QED BY <1>2, <1>3, <1>4, <1>5, <1>6, TabMoves

LEMMA StartRefreshStep == ASSUME SessionInv, NEW t \in Tab, StartRefresh(t) PROVE SessionInv'
<1>1. /\ tab[t].at = "idle" /\ call[t].at = "free"
      /\ UNCHANGED <<server, cookie, clock, refreshFaults, struck>>
      /\ lockQueue' = IF WebLocks THEN Append(lockQueue, t) ELSE lockQueue
  BY DEF StartRefresh
<1>2. /\ news' \in [Tab -> {"NONE", "SENT", "HERE"}] /\ tab[t] \in TabState
      /\ \A w \in {"lock", "queue", "none"} : [at |-> "sent", retry |-> TRUE, via |-> w] \in TabState
  BY SessionTyped DEF StartRefresh, Send, Started, TabState
<1>3. CASE lockQueue = <<>>
  <2> DEFINE p == [at |-> "sent", retry |-> TRUE, via |-> IF WebLocks THEN "lock" ELSE "none"]
  <2>1. /\ call' = [call EXCEPT ![t] = NewCall("REFRESH")] /\ tab' = [tab EXCEPT ![t] = p]
        /\ p.at = "sent" /\ p \in TabState /\ (p.via = "none" <=> ~WebLocks)
    BY <1>2, <1>3 DEF StartRefresh, Send
  <2> HIDE DEF p
  <2>2. LockTyped(lockQueue') /\ LockFits'
    <3>1. CASE WebLocks
      BY <1>1, <1>3, <2>1, <3>1, LockJoined
    <3>2. CASE ~WebLocks
      BY <1>1, <1>3, <2>1, <3>2, LockKept DEF Refreshing
    <3> QED BY <3>1, <3>2
  <2>3. WebLocks /\ refreshFaults = 0 /\ cookie # 0 => Good(cookie)
    BY <1>3, CookieGood
  <2> QED BY <1>1, <1>2, <2>1, <2>2, <2>3, RequestLeaves
<1>4. CASE lockQueue # <<>>
  <2> DEFINE p == [tab[t] EXCEPT !.at = "queued", !.via = "queue"]
  <2>1. /\ call' = call /\ tab' = [tab EXCEPT ![t] = p] /\ p \in TabState
        /\ p.at = "queued" /\ p.via # "none"
    BY <1>2, <1>4 DEF StartRefresh, TabState
  <2> HIDE DEF p
  <2>2. WebLocks
    BY <1>4 DEF SessionInv, LockFits
  <2>3. LockTyped(lockQueue') /\ LockFits'
    BY <1>1, <2>1, <2>2, LockJoined
  <2>4. p.at # "sent" /\ p.at # "leaving" /\ p.at \in {"queued", "handoff", "peer", "idle"}
    BY <2>1
  <2> QED BY <1>1, <1>2, <2>1, <2>3, <2>4, TabOnly
<1> QED BY <1>3, <1>4

LEMMA GrantStep == ASSUME SessionInv, NEW t \in Tab, LockGranted(t) PROVE SessionInv'
<1> DEFINE p == [tab[t] EXCEPT !.at = "handoff"]
<1>1. /\ tab[t].at = "queued" /\ lockQueue # <<>> /\ Head(lockQueue) = t /\ tab[t] \in TabState
      /\ UNCHANGED <<server, cookie, call, lockQueue, news, clock, refreshFaults, struck>>
  BY SessionTyped DEF LockGranted
<1>2. p \in TabState /\ p.at = "handoff" /\ p.via = tab[t].via /\ tab' = [tab EXCEPT ![t] = p]
  BY <1>1 DEF LockGranted, TabState
<1> HIDE DEF p
<1>3. call[t].at = "free" /\ news' \in [Tab -> {"NONE", "SENT", "HERE"}]
  BY <1>1, SessionTyped DEF SessionInv, CallFits
<1>4. LockTyped(lockQueue') /\ LockFits'
  BY <1>1, <1>2, LockKept DEF Refreshing
<1> QED BY <1>1, <1>2, <1>3, <1>4, ByLock, TabOnly

LEMMA ArrivedStep == ASSUME SessionInv, NEW t \in Tab, PeerArrived(t) PROVE SessionInv'
<1>1. /\ tab[t].at \in {"handoff", "peer"} /\ Settle(t)
      /\ UNCHANGED <<server, cookie, call, clock, refreshFaults, struck>>
  BY DEF PeerArrived
<1>2. news' \in [Tab -> {"NONE", "SENT", "HERE"}] /\ call[t].at = "free"
  BY <1>1, SessionTyped DEF PeerArrived, Started, SessionInv, CallFits
<1>3. LockTyped(lockQueue') /\ LockFits'
  BY <1>1, LockSettled
<1>4. tab' = [tab EXCEPT ![t] = IdleTab] /\ IdleTab \in TabState /\ IdleTab.at = "idle"
      /\ IdleTab.via # "none"
  BY <1>1, NoneTyped DEF Settle
<1> QED BY <1>1, <1>2, <1>3, <1>4, TabOnly

LEMMA TimeoutStep == ASSUME SessionInv, NEW t \in Tab, PeerTimeout(t) PROVE SessionInv'
<1>1. tab[t].at \in {"handoff", "peer"} /\ UNCHANGED <<server, cookie, clock, refreshFaults, struck>>
      /\ tab[t] \in TabState
  BY SessionTyped DEF PeerTimeout
<1>2. call[t].at = "free"
  BY <1>1 DEF SessionInv, CallFits
<1>3. CASE tab[t].at = "handoff" \/ tab[t].retry
  <2> DEFINE p == [at |-> "sent", retry |-> tab[t].at = "handoff", via |-> tab[t].via]
  <2>1. /\ call' = [call EXCEPT ![t] = NewCall("REFRESH")] /\ tab' = [tab EXCEPT ![t] = p]
        /\ Started(t) /\ lockQueue' = lockQueue
    BY <1>3 DEF PeerTimeout, Send
  <2>2. p.at = "sent" /\ p.via = tab[t].via /\ p \in TabState
    BY <1>1 DEF TabState
  <2> HIDE DEF p
  <2>3. news' \in [Tab -> {"NONE", "SENT", "HERE"}]
    BY <2>1, SessionTyped DEF Started
  <2>4. WebLocks /\ p.via # "none" => lockQueue # <<>> /\ Head(lockQueue) = t
    BY <1>1, <2>2 DEF SessionInv, LockFits, HoldsLock
  <2>5. LockTyped(lockQueue') /\ LockFits'
    BY <2>1, <2>2, <2>4, LockKept DEF Refreshing
  <2>6. WebLocks /\ refreshFaults = 0 /\ cookie # 0 => Good(cookie)
    BY <1>1, CookieGood
  <2> QED BY <1>1, <1>2, <2>1, <2>2, <2>3, <2>5, <2>6, ByLock, RequestLeaves
<1>4. CASE ~(tab[t].at = "handoff" \/ tab[t].retry)
  <2>1. Settle(t) /\ UNCHANGED <<call, news>>
    BY <1>4 DEF PeerTimeout
  <2>2. LockTyped(lockQueue') /\ LockFits'
    BY <1>1, <2>1, LockSettled
  <2>3. tab' = [tab EXCEPT ![t] = IdleTab] /\ IdleTab \in TabState /\ IdleTab.at = "idle"
        /\ IdleTab.via # "none"
    BY <2>1, NoneTyped DEF Settle
  <2>4. news' \in [Tab -> {"NONE", "SENT", "HERE"}]
    BY <2>1, SessionTyped
  <2> QED BY <1>1, <1>2, <2>1, <2>2, <2>3, <2>4, TabOnly
<1> QED BY <1>3, <1>4

(* A step that leaves the tabs, their requests and the lock alone.             *)
LEMMA Unmoved ==
  ASSUME SessionInv, UNCHANGED <<server, cookie, call, tab, lockQueue, struck>>,
         news' \in [Tab -> {"NONE", "SENT", "HERE"}], clock' \in Time,
         refreshFaults' \in refreshFaults .. MaxRefreshFaults
  PROVE  SessionInv'
<1>1. UNCHANGED <<token, minted, session, cookie, call, tab, lockQueue, struck>>
      /\ refreshFaults' \in 0 .. MaxRefreshFaults /\ (refreshFaults > 0 => refreshFaults' > 0)
      /\ (refreshFaults' = 0 => refreshFaults = 0)
  BY SessionTyped DEF server
<1>2. SessionTypeOK'
  BY <1>1 DEF SessionInv, SessionTypeOK
<1>3. RowsFit' /\ LockFits' /\ cookie' <= minted'
  BY <1>1 DEF SessionInv, RowsFit, OneSuccessor, Minted, SessionOf, LiveToken, LockFits, HoldsLock
<1>4. ASSUME NEW u \in Tab PROVE CallFits(call[u], tab[u].at)' /\ CallKnows(call[u])'
  BY <1>1 DEF SessionInv, CallFits, Deciding, CallKnows, Minted, SessionOf
<1>5. ASSUME WebLocks, refreshFaults' = 0 PROVE CalmSession'
  BY <1>1, <1>5 DEF SessionInv, CalmSession, CallCalm, Exchanges, Good, LiveToken, Minted, SessionOf
<1> QED BY <1>2, <1>3, <1>4, <1>5 DEF SessionInv

LEMMA LostFault == ASSUME SessionInv, Lost
  PROVE refreshFaults' \in refreshFaults .. MaxRefreshFaults /\ refreshFaults' # 0 /\ refreshFaults' > 0
BY SessionTyped, SessionBounds DEF Lost

LEMMA NewsStep ==
  ASSUME SessionInv, NEW t \in Tab, ReceiveNews(t) \/ LoseNews(t) PROVE SessionInv'
<1>1. UNCHANGED <<server, cookie, call, tab, lockQueue, clock, struck>>
  BY DEF ReceiveNews, LoseNews
<1>2. news' \in [Tab -> {"NONE", "SENT", "HERE"}] /\ clock' \in Time
  BY <1>1, SessionTyped DEF ReceiveNews, LoseNews
<1>3. refreshFaults' \in refreshFaults .. MaxRefreshFaults
  BY MintedToken, LostFault DEF ReceiveNews, LoseNews
<1> QED BY <1>1, <1>2, <1>3, Unmoved

LEMMA SessionTickStep == ASSUME SessionInv, SessionTick PROVE SessionInv'
<1>1. UNCHANGED <<server, cookie, call, tab, lockQueue, news, refreshFaults, struck>>
  BY DEF SessionTick, browser
<1>2. clock' \in Time
  BY SessionTyped, SessionBounds DEF SessionTick, Time
<1> QED BY <1>1, <1>2, SessionTyped, MintedToken, Unmoved

LEMMA StartLogoutStep == ASSUME SessionInv, NEW t \in Tab, StartLogout(t) PROVE SessionInv'
<1> DEFINE p == [tab[t] EXCEPT !.at = "leaving"]
<1>1. /\ tab[t].at = "idle" /\ call[t].at = "free" /\ cookie # 0 /\ tab[t] \in TabState
      /\ call' = [call EXCEPT ![t] = NewCall("LOGOUT")] /\ news' \in [Tab -> {"NONE", "SENT", "HERE"}]
      /\ UNCHANGED <<server, cookie, lockQueue, clock, refreshFaults, struck>>
  BY SessionTyped DEF StartLogout
<1>2. p \in TabState /\ p.at = "leaving" /\ p.via = tab[t].via /\ tab' = [tab EXCEPT ![t] = p]
  BY <1>1 DEF StartLogout, TabState
<1> HIDE DEF p
<1>3. LockTyped(lockQueue') /\ LockFits'
  BY <1>1, <1>2, LockKept DEF Refreshing
<1> QED BY <1>1, <1>2, <1>3, ByLock, RequestLeaves

LEMMA HeardReply ==
  ASSUME SessionInv, NEW t \in Tab, call[t].at = "reply"
  PROVE  tab[t].at = IF call[t].kind = "REFRESH" THEN "sent" ELSE "leaving"
BY DEF SessionInv, CallFits

LEMMA DeliverOKStep == ASSUME SessionInv, NEW t \in Tab, DeliverOK(t) PROVE SessionInv'
<1>1. /\ call[t].kind = "REFRESH" /\ call[t].at = "reply" /\ call[t].reply = "OK" /\ cookie' = call[t].new
      /\ Settle(t) /\ call' = [call EXCEPT ![t] = NoCall] /\ Exchanges(call[t])
      /\ UNCHANGED <<server, clock, refreshFaults, struck>>
  BY DEF DeliverOK, CallAt, Free, Exchanges
<1>2. news' \in [Tab -> {"NONE", "SENT", "HERE"}]
  BY SessionTyped DEF DeliverOK
<1>3. tab[t].at = "sent" /\ LockTyped(lockQueue') /\ LockFits'
  BY <1>1, HeardReply, LockSettled
<1>4. cookie' \in 0 .. minted
  BY <1>1, SessionTyped DEF SessionInv, CallKnows, Call
<1>5. WebLocks /\ refreshFaults' = 0 => Good(cookie')
  BY <1>1 DEF SessionInv, CalmSession, CallCalm
<1>6. tab' = [tab EXCEPT ![t] = IdleTab] /\ IdleTab \in TabState /\ IdleTab.at = "idle"
      /\ IdleTab.via # "none"
  BY <1>1, NoneTyped DEF Settle
<1> QED BY <1>1, <1>2, <1>3, <1>4, <1>5, <1>6, MintedToken, Ends

LEMMA ConflictStep == ASSUME SessionInv, NEW t \in Tab, DeliverConflict(t) PROVE SessionInv'
<1> DEFINE p == [tab[t] EXCEPT !.at = "peer"]
<1>1. /\ call[t].kind = "REFRESH" /\ call[t].at = "reply" /\ ~Exchanges(call[t])
      /\ call' = [call EXCEPT ![t] = NoCall] /\ tab[t] \in TabState
      /\ UNCHANGED <<server, cookie, lockQueue, news, clock, refreshFaults, struck>>
  BY SessionTyped DEF DeliverConflict, CallAt, Free, Exchanges
<1>2. p \in TabState /\ p.at = "peer" /\ p.via = tab[t].via /\ tab' = [tab EXCEPT ![t] = p]
  BY <1>1 DEF DeliverConflict, TabState
<1> HIDE DEF p
<1>3. /\ tab[t].at = "sent"
      /\ WebLocks /\ tab[t].via # "none" => lockQueue # <<>> /\ Head(lockQueue) = t
  BY <1>1, HeardReply DEF SessionInv, LockFits, HoldsLock
<1>4. LockTyped(lockQueue') /\ LockFits'
  BY <1>1, <1>2, <1>3, LockKept DEF Refreshing
<1>5. cookie' \in 0 .. minted /\ news' \in [Tab -> {"NONE", "SENT", "HERE"}]
  BY <1>1, SessionTyped DEF SessionInv
<1> QED BY <1>1, <1>2, <1>4, <1>5, MintedToken, ByLock, Ends

LEMMA CallRefused ==
  ASSUME SessionInv, NEW t \in Tab, DeliverFailure(t) \/ DeliverLogout(t) PROVE SessionInv'
<1>1. /\ call[t].at = "reply" /\ ~Exchanges(call[t]) /\ cookie' \in {0, cookie} /\ Settle(t)
      /\ call' = [call EXCEPT ![t] = NoCall]
      /\ UNCHANGED <<server, news, clock, refreshFaults, struck>>
  BY DEF DeliverFailure, DeliverLogout, CallAt, Free, Exchanges
<1>2. tab[t].at \in {"sent", "leaving"}
  BY <1>1, HeardReply
<1>3. LockTyped(lockQueue') /\ LockFits'
  BY <1>1, <1>2, LockSettled
<1>4. cookie' \in 0 .. minted /\ news' \in [Tab -> {"NONE", "SENT", "HERE"}]
  BY <1>1, SessionTyped DEF SessionInv
<1>5. tab' = [tab EXCEPT ![t] = IdleTab] /\ IdleTab \in TabState /\ IdleTab.at = "idle"
      /\ IdleTab.via # "none"
  BY <1>1, NoneTyped DEF Settle
<1> QED BY <1>1, <1>3, <1>4, <1>5, MintedToken, Ends

(* A connection that breaks leaves the tab idle, or about to send again.       *)
LEMMA ConnectionBreaks ==
  ASSUME SessionInv, NEW t \in Tab, tab[t].at \in {"sent", "leaving"}, Unheard(t),
         NEW p \in TabState, tab' = [tab EXCEPT ![t] = p],
         p.at = "idle" \/ (p.at = "resend" /\ p.via = "none"), lockQueue' = Released(lockQueue, t),
         UNCHANGED <<server, cookie, news, clock, struck>>
  PROVE  SessionInv'
<1>1. /\ call[t].heard /\ Lost /\ call[t] \in Call
      /\ CallFits(call[t], tab[t].at) /\ CallKnows(call[t])
  BY SessionTyped DEF Unheard, SessionInv
<1>2. LockTyped(lockQueue') /\ LockFits'
  BY LockReleased
<1>3. refreshFaults' \in refreshFaults .. MaxRefreshFaults /\ refreshFaults' # 0 /\ refreshFaults' > 0
  BY <1>1, LostFault
<1>4. cookie' \in 0 .. minted /\ news' \in [Tab -> {"NONE", "SENT", "HERE"}] /\ clock' \in Time
  BY SessionTyped DEF SessionInv
<1>5. CASE call[t].at = "reply"
  <2>1. call' = [call EXCEPT ![t] = NoCall]
    BY <1>5 DEF Unheard
  <2> QED BY <1>1, <1>2, <1>3, <1>4, <2>1, Ends
<1>6. CASE call[t].at # "reply"
  <2> DEFINE unheard == [call[t] EXCEPT !.heard = FALSE]
  <2>1. /\ unheard \in Call /\ unheard.kind = call[t].kind /\ unheard.at = call[t].at
        /\ unheard.tok = call[t].tok /\ unheard.new = call[t].new /\ unheard.seen = call[t].seen
        /\ unheard.reply = call[t].reply /\ unheard.heard = FALSE
        /\ call' = [call EXCEPT ![t] = unheard]
    BY <1>1, <1>6 DEF Unheard, Call
  <2> HIDE DEF unheard
  <2>2. PICK c \in Call : /\ c.kind = call[t].kind /\ c.at = call[t].at /\ c.tok = call[t].tok
                          /\ c.new = call[t].new /\ c.seen = call[t].seen /\ c.reply = call[t].reply
                          /\ c.heard = FALSE /\ call' = [call EXCEPT ![t] = c]
    BY <2>1
  <2>3. CallFits(c, p.at)'
    BY <1>1, <1>3, <1>6, <2>2 DEF CallFits, Deciding
  <2>4. CallKnows(c)
    BY <1>1, <2>2 DEF CallKnows
  <2> QED BY <1>1, <1>2, <1>3, <1>4, <2>2, <2>3, <2>4, TabMoves
<1> QED BY <1>5, <1>6

LEMMA DisconnectStep ==
  ASSUME SessionInv, NEW t \in Tab, Disconnect(t) \/ CatchError(t) PROVE SessionInv'
<1>1. CASE Disconnect(t)
  BY <1>1, ConnectionBreaks, NoneTyped DEF Disconnect, Settle
<1>2. CASE CatchError(t)
  <2>1. [at |-> "resend", retry |-> TRUE, via |-> "none"] \in TabState
    BY DEF TabState
  <2> QED BY <1>2, <2>1, ConnectionBreaks DEF CatchError
<1> QED BY <1>1, <1>2

(* The request without the lock leaves.                                        *)
LEMMA ResendStep == ASSUME SessionInv, NEW t \in Tab, Resend(t) PROVE SessionInv'
<1> DEFINE p == [tab[t] EXCEPT !.at = "sent"]
<1>1. /\ tab[t].at = "resend" /\ call[t].at = "free" /\ tab[t] \in TabState
      /\ call' = [call EXCEPT ![t] = NewCall("REFRESH")] /\ news' \in [Tab -> {"NONE", "SENT", "HERE"}]
      /\ UNCHANGED <<server, cookie, lockQueue, clock, refreshFaults, struck>>
  BY SessionTyped DEF Resend
<1>2. p \in TabState /\ p.at = "sent" /\ p.via = tab[t].via /\ tab' = [tab EXCEPT ![t] = p]
  BY <1>1 DEF Resend, TabState
<1> HIDE DEF p
<1>3. tab[t].via = "none"
  BY <1>1 DEF SessionInv, LockFits
<1>4. LockTyped(lockQueue') /\ LockFits'
  BY <1>1, <1>2, <1>3, LockKept DEF Refreshing
<1>5. ~(WebLocks /\ refreshFaults = 0)
  BY <1>3, ByLock
<1> QED BY <1>1, <1>2, <1>4, <1>5, RequestLeaves

(* ------------------------------- The theorems ------------------------------ *)
LEMMA SessionStep == SessionInv /\ [SessionNext]_sessionVars => SessionInv'
<1> SUFFICES ASSUME SessionInv, [SessionNext]_sessionVars PROVE SessionInv'
  OBVIOUS
<1>1. CASE UNCHANGED sessionVars
  <2>1. UNCHANGED <<server, cookie, call, tab, lockQueue, news, clock, refreshFaults, struck>>
    BY <1>1 DEF sessionVars, server
  <2> QED BY <2>1, SessionTyped, MintedToken, Unmoved
<1>2. ASSUME NEW t \in Tab, ServerStep(t) PROVE SessionInv'
  BY <1>2, ReadClockStep, FindStep, CheckStep, RotateStep, FailStep, LookStep, ReuseEndStep,
     FindLogoutStep, EndSessionStep DEF ServerStep
<1>3. ASSUME NEW t \in Tab, TabStep(t) PROVE SessionInv'
  BY <1>3, GrantStep, ArrivedStep, TimeoutStep, ResendStep, DeliverOKStep, ConflictStep, CallRefused DEF TabStep
<1>4. ASSUME NEW t \in Tab,
             \/ StartRefresh(t) \/ ReceiveNews(t) \/ LoseNews(t)
             \/ StartLogout(t) \/ Login(t) \/ Disconnect(t) \/ CatchError(t)
      PROVE  SessionInv'
  BY <1>4, StartRefreshStep, NewsStep, StartLogoutStep, LoginStep, DisconnectStep
<1>5. CASE SessionTick
  BY <1>5, SessionTickStep
<1> QED BY <1>1, <1>2, <1>3, <1>4, <1>5 DEF SessionNext

LEMMA SessionInvariant == SessionSafety => []SessionInv
BY SessionInitInv, SessionStep, PTL DEF SessionSafety

(* token/refresh: every row, request and tab keeps its shape.                  *)
THEOREM SessionsTyped == SessionSafety => []SessionTypeOK
<1>1. SessionInv => SessionTypeOK
  BY DEF SessionInv
<1> QED BY <1>1, SessionInvariant, PTL

(* rotateRefreshTokenAtomically: a token is exchanged once, and a session has  *)
(* one live token at most, for any number of tabs, tokens, logins and faults.  *)
THEOREM OneLiveToken == SessionSafety => []OneSuccessor
<1>1. SessionInv => OneSuccessor
  BY DEF SessionInv, RowsFit
<1> QED BY <1>1, SessionInvariant, PTL

(* authRefreshClient: with Web Locks, the tabs of a browser that loses nothing *)
(* are not taken for thieves of their own session.                             *)
THEOREM NoStrikeUnlessLost == SessionSafety => []NoFalseAlarm
<1>1. SessionInv => NoFalseAlarm
  BY SessionTyped, SessionBounds DEF SessionInv, CalmSession, NoFalseAlarm
<1> QED BY <1>1, SessionInvariant, PTL

NewOnlyValid ==
  \A n \in Token : Minted(n)' /\ ~Minted(n) => session'[token'[n].session] = "VALID"

LEMMA NoneMinted == ASSUME minted' = minted PROVE NewOnlyValid
BY DEF NewOnlyValid, Minted

LEMMA RotateMints == ASSUME SessionInv, NEW t \in Tab, Rotate(t) PROVE NewOnlyValid
<1> DEFINE n == call[t].tok
<1>1. CASE UNCHANGED server
  BY <1>1, NoneMinted DEF server
<1>2. CASE /\ ~token[n].revoked /\ session[SessionOf(n)] = "VALID" /\ minted < MaxToken
           /\ Exchanged(n, call[t].now) /\ UNCHANGED session
  <2>1. call[t].at = "rotate" /\ minted \in Nat
    BY SessionTyped DEF Rotate, CallAt
  <2>2. n \in Token /\ Minted(n) /\ token[n] \in TokenRow
    BY <2>1, CallAbout DEF SessionInv, CallFits, Deciding
  <2>3. ASSUME NEW m \in Token, Minted(m)', ~Minted(m) PROVE m = minted + 1 /\ m # n
    BY <1>2, <2>1, <2>2, <2>3 DEF Exchanged, Minted, Token
  <2> DEFINE heir == [NoToken EXCEPT !.session = SessionOf(n), !.parent = n]
             spent == [token[n] EXCEPT !.revoked = TRUE, !.at = call[t].now]
  <2>4. heir.session = SessionOf(n) /\ token' = [token EXCEPT ![n] = spent, ![minted + 1] = heir]
    BY <1>2, NoneTyped DEF Exchanged, TokenRow
  <2> HIDE DEF heir, spent
  <2>5. ASSUME NEW m \in Token, Minted(m)', ~Minted(m) PROVE token'[m].session = SessionOf(n)
    BY <2>3, <2>4, <2>5, SessionTyped
  <2> QED BY <1>2, <2>5 DEF NewOnlyValid
<1> QED BY <1>1, <1>2 DEF Rotate

LEMMA LoginMints == ASSUME SessionInv, NEW t \in Tab, Login(t) PROVE NewOnlyValid
<1>1. PICK s \in Session :
        /\ session' = [session EXCEPT ![s] = "VALID"]
        /\ token' = [token EXCEPT ![minted + 1] = [NoToken EXCEPT !.session = s]]
  BY DEF Login
<1> DEFINE first == [NoToken EXCEPT !.session = s]
<1>2. first.session = s /\ token' = [token EXCEPT ![minted + 1] = first]
  BY <1>1, NoneTyped DEF TokenRow
<1> HIDE DEF first
<1>3. ASSUME NEW m \in Token, Minted(m)', ~Minted(m) PROVE token'[m].session = s
  <2>1. m = minted + 1
    BY <1>3, SessionTyped DEF Login, Minted, Token
  <2> QED BY <1>2, <2>1, SessionTyped
<1>4. session'[s] = "VALID"
  BY <1>1, SessionTyped
<1> QED BY <1>3, <1>4 DEF NewOnlyValid

LEMMA MintsOnlyValid == SessionInv /\ [SessionNext]_sessionVars => NewOnlyValid
<1> SUFFICES ASSUME SessionInv, [SessionNext]_sessionVars PROVE NewOnlyValid
  OBVIOUS
<1>1. CASE UNCHANGED sessionVars
  BY <1>1, NoneMinted DEF sessionVars
<1>2. ASSUME NEW t \in Tab, ServerStep(t) PROVE NewOnlyValid
  <2>1. CASE Rotate(t)
    BY <2>1, RotateMints
  <2>2. CASE ~Rotate(t)
    <3>1. minted' = minted
      BY <1>2, <2>2 DEF ServerStep, ReadClock, FindToken, CheckSession, RotateFails, ReuseLook,
         ReuseEnd, FindLogout, EndSession, server
    <3> QED BY <3>1, NoneMinted
  <2> QED BY <2>1, <2>2
<1>3. ASSUME NEW t \in Tab, TabStep(t) PROVE NewOnlyValid
  <2>1. minted' = minted
    BY <1>3 DEF TabStep, LockGranted, PeerArrived, PeerTimeout, Resend, DeliverOK, DeliverConflict,
       DeliverFailure, DeliverLogout, server
  <2> QED BY <2>1, NoneMinted
<1>4. ASSUME NEW t \in Tab,
             \/ StartRefresh(t) \/ ReceiveNews(t) \/ LoseNews(t)
             \/ StartLogout(t) \/ Disconnect(t) \/ CatchError(t)
      PROVE  NewOnlyValid
  <2>1. minted' = minted
    BY <1>4 DEF StartRefresh, ReceiveNews, LoseNews, StartLogout, Disconnect, CatchError, server
  <2> QED BY <2>1, NoneMinted
<1>5. ASSUME NEW t \in Tab, Login(t) PROVE NewOnlyValid
  BY <1>5, LoginMints
<1>6. CASE SessionTick
  BY <1>6, NoneMinted DEF SessionTick, server
<1> QED BY <1>1, <1>2, <1>3, <1>4, <1>5, <1>6 DEF SessionNext

(* Rotation against logout and reuse detection: a token is only created for a  *)
(* session that is valid in the same transaction.                              *)
THEOREM TokensForValidSessions == SessionSafety => EndedSessionGetsNoToken
<1>1. SessionInv /\ [SessionNext]_sessionVars =>
        (\A n \in Token : Minted(n)' /\ ~Minted(n) => session'[token'[n].session] = "VALID")
  BY MintsOnlyValid DEF NewOnlyValid
<1> QED BY <1>1, SessionInvariant, PTL DEF SessionSafety, EndedSessionGetsNoToken

(* ----------------------------- The exclusion ------------------------------ *)
(* A row that is worked on and fresh is RUNNING, its execution's own, and no   *)
(* zombie to anybody.                                                          *)
RowsOwned ==
  /\ \A p, q \in Runner : p # q /\ Executing(p) /\ Executing(q) => runner[p].row # runner[q].row
  /\ \A p \in Runner : FreshJob(p) => job[runner[p].row].status = "RUNNING"
  /\ \A p, q \in Runner : FreshJob(p) /\ runner[q].at = "mark" => runner[q].row # runner[p].row
(* Whoever has looked and found nothing fresh has raced all who work or start. *)
StartersRaced ==
  \A p, q \in Runner :
    /\ p # q /\ Starting(p) /\ Starting(q) => {p, q} \in raced
    /\ Starting(p) /\ FreshJob(q) => {p, q} \in raced

BatchInv == BatchTypeOK /\ RowsOwned /\ StartersRaced /\ AloneUnlessRaced

LEMMA BatchTyped ==
  ASSUME BatchInv
  PROVE  /\ job \in [JobRow -> JobInfo] /\ runner \in [Runner -> RunnerState]
         /\ attempt \in [Payer -> Attempt] /\ raced \subseteq SUBSET Runner
         /\ batchFaults \in 0 .. MaxBatchFaults
         /\ \A p \in Runner : runner[p] \in RunnerState /\ runner[p].row \in JobRow
         /\ \A j \in JobRow : job[j] \in JobInfo /\ job[j].age \in Nat /\ job[j].age <= StaleJob
<1>1. job \in [JobRow -> JobInfo] /\ runner \in [Runner -> RunnerState] /\ StaleJob \in Nat
  BY BatchAssumption DEF BatchInv, BatchTypeOK
<1>2. \A p \in Runner : runner[p] \in RunnerState /\ runner[p].row \in JobRow
  BY <1>1 DEF RunnerState
<1>3. \A j \in JobRow : job[j] \in JobInfo /\ job[j].age \in 0 .. StaleJob
  BY <1>1 DEF JobInfo
<1> QED BY <1>1, <1>2, <1>3 DEF BatchInv, BatchTypeOK

LEMMA RowsTyped ==
  /\ NoJob \in JobInfo /\ NoJob.age = 0 /\ NoJob.status = "CLOSED"
  /\ NoAttempt \in Attempt
  /\ [status |-> "RUNNING", age |-> 0] \in JobInfo
  /\ [status |-> "PENDING", age |-> 0, alive |-> TRUE] \in Attempt
BY BatchAssumption DEF NoJob, NoAttempt, JobInfo, Attempt

LEMMA BatchInitInv == BatchInit => BatchInv
<1> SUFFICES ASSUME BatchInit PROVE BatchInv
  OBVIOUS
<1> DEFINE first == [at |-> "idle", row |-> CHOOSE j \in JobRow : TRUE, todo |-> {}]
<1>1. (CHOOSE j \in JobRow : TRUE) \in JobRow
  BY BatchAssumption
<1>2. first \in RunnerState /\ first.at = "idle"
  BY <1>1 DEF RunnerState
<1>3. runner = [p \in Runner |-> first]
  BY DEF BatchInit
<1> HIDE DEF first
<1>4. BatchTypeOK
  <2>1. job \in [JobRow -> JobInfo] /\ attempt \in [Payer -> Attempt]
    BY RowsTyped DEF BatchInit
  <2>2. runner \in [Runner -> RunnerState]
    BY <1>2, <1>3
  <2>3. raced \subseteq SUBSET Runner /\ batchFaults \in 0 .. MaxBatchFaults
    BY BatchAssumption DEF BatchInit
  <2> QED BY <2>1, <2>2, <2>3 DEF BatchTypeOK
<1>5. \A p \in Runner : runner[p].at = "idle"
  BY <1>2, <1>3
<1> QED BY <1>4, <1>5 DEF BatchInv, RowsOwned, StartersRaced, AloneUnlessRaced, FreshJob, Executing, Starting

(* ------------------------- Steps of one execution -------------------------- *)
(* An execution that keeps its row and its part in the exclusion.              *)
LEMMA SamePart ==
  ASSUME BatchInv, NEW p \in Runner, NEW r \in RunnerState, runner' = [runner EXCEPT ![p] = r],
         job' = job, r.row = runner[p].row,
         r.at \in {"idle", "look"} \/ (Executing(p) /\ r.at \in {"load", "items", "close"}),
         attempt' \in [Payer -> Attempt], batchFaults' \in 0 .. MaxBatchFaults,
         raced' = raced \/ (r.at = "idle" /\ Forgotten(p))
  PROVE  BatchInv'
<1>1. \A q \in Runner : runner'[q] = IF q = p THEN r ELSE runner[q]
  BY BatchTyped
<1>2. \A q \in Runner : /\ Executing(q)' => Executing(q) /\ runner'[q].row = runner[q].row
                        /\ Starting(q)' => Starting(q) /\ q # p
                        /\ FreshJob(q)' => FreshJob(q)
                        /\ runner'[q].at = "mark" => runner[q].at = "mark" /\ runner'[q].row = runner[q].row
  BY <1>1 DEF Executing, Starting, FreshJob
<1>3. \A q \in Runner : (Starting(q)' \/ FreshJob(q)') /\ r.at = "idle" => q # p
  BY <1>1 DEF Executing, Starting, FreshJob
<1>4. BatchTypeOK'
  BY <1>1, BatchTyped DEF BatchTypeOK, Forgotten
<1>5. RowsOwned'
  BY <1>2 DEF BatchInv, RowsOwned
<1>6. \A q, s \in Runner : {q, s} \in raced /\ (r.at = "idle" => q # p /\ s # p) => {q, s} \in raced'
  BY DEF Forgotten
<1>7. StartersRaced' /\ AloneUnlessRaced'
  BY <1>2, <1>3, <1>6 DEF BatchInv, StartersRaced, AloneUnlessRaced
<1> QED BY <1>4, <1>5, <1>7 DEF BatchInv

LEMMA FindRunningStep == ASSUME BatchInv, NEW p \in Runner, LookForRunning(p) PROVE BatchInv'
<1>1. /\ runner[p].at = "look" /\ UNCHANGED <<job, attempt, batchFaults>> /\ runner[p] \in RunnerState
  BY BatchTyped DEF LookForRunning
<1>2. CASE runner' = [runner EXCEPT ![p].at = "idle"]
  <2> DEFINE r == [runner[p] EXCEPT !.at = "idle"]
  <2>1. r \in RunnerState /\ r.at = "idle" /\ r.row = runner[p].row /\ runner' = [runner EXCEPT ![p] = r]
    BY <1>1, <1>2 DEF RunnerState
  <2> HIDE DEF r
  <2>2. runner'[p].at = "idle"
    BY <2>1, BatchTyped
  <2>3. raced' = raced
    BY <2>2 DEF LookForRunning
  <2> QED BY <1>1, <2>1, <2>3, BatchTyped, SamePart
<1>3. CASE /\ \A q \in Runner : ~FreshJob(q)
           /\ \E r \in RunnerState : /\ r.at \in {"mark", "create"} /\ runner' = [runner EXCEPT ![p] = r]
  <2>1. PICK r \in RunnerState : r.at \in {"mark", "create"} /\ runner' = [runner EXCEPT ![p] = r]
    BY <1>3
  <2>2. \A q \in Runner : runner'[q] = IF q = p THEN r ELSE runner[q]
    BY <2>1, BatchTyped
  <2>3. raced' = raced \cup {{p, q} : q \in {q \in Runner : Starting(q)}}
    BY <2>1, <2>2 DEF LookForRunning
  <2>4. /\ \A q \in Runner : ~FreshJob(q)'
        /\ \A q \in Runner : Executing(q)' => Executing(q) /\ runner'[q].row = runner[q].row
        /\ \A q \in Runner : Starting(q)' => q = p \/ Starting(q)
    BY <1>1, <1>3, <2>1, <2>2 DEF Executing, Starting, FreshJob
  <2>5. BatchTypeOK'
    BY <1>1, <2>1, <2>3, BatchTyped DEF BatchTypeOK
  <2>6. RowsOwned'
    BY <2>4 DEF BatchInv, RowsOwned
  <2>7. ASSUME NEW q \in Runner, NEW s \in Runner, q # s, Starting(q)', Starting(s)'
        PROVE  {q, s} \in raced'
    <3>1. CASE q = p
      BY <2>3, <2>4, <2>7, <3>1
    <3>2. CASE s = p
      <4>1. {q, s} = {p, q}
        BY <3>2
      <4> QED BY <2>3, <2>4, <2>7, <3>2, <4>1
    <3>3. CASE q # p /\ s # p
      BY <2>3, <2>4, <2>7, <3>3 DEF BatchInv, StartersRaced
    <3> QED BY <3>1, <3>2, <3>3
  <2> QED BY <2>4, <2>5, <2>6, <2>7 DEF BatchInv, StartersRaced, AloneUnlessRaced
<1>4. CASE Running = {} /\ RunnerGoto(p, "create")
  <2>1. \A q \in Runner : ~FreshJob(q)
    BY <1>4, BatchTyped DEF BatchInv, RowsOwned, Running
  <2> DEFINE r == [runner[p] EXCEPT !.at = "create"]
  <2>2. r \in RunnerState /\ r.at = "create" /\ runner' = [runner EXCEPT ![p] = r]
    BY <1>1, <1>4 DEF RunnerState, RunnerGoto
  <2> HIDE DEF r
  <2> QED BY <1>3, <2>1, <2>2
<1>5. ASSUME NEW j \in Latest, job[j].age = StaleJob,
             runner' = [runner EXCEPT ![p].at = "mark", ![p].row = j]
      PROVE  BatchInv'
  <2>1. j \in JobRow /\ \A k \in JobRow : job[k].status = "RUNNING" => job[j].age <= job[k].age
    BY <1>5 DEF Latest, Running
  <2>2. ASSUME NEW q \in Runner, FreshJob(q) PROVE FALSE
    <3>1. runner[q].row \in JobRow /\ job[runner[q].row].status = "RUNNING"
          /\ job[runner[q].row].age < StaleJob
      BY <2>2, BatchTyped DEF BatchInv, RowsOwned, FreshJob
    <3>2. job[runner[q].row].age \in Nat /\ StaleJob \in Nat
      BY <3>1, BatchTyped, BatchAssumption
    <3> QED BY <1>5, <2>1, <3>1, <3>2
  <2> DEFINE r == [runner[p] EXCEPT !.at = "mark", !.row = j]
  <2>3. r \in RunnerState /\ r.at = "mark" /\ runner' = [runner EXCEPT ![p] = r]
    BY <1>1, <1>5, <2>1 DEF RunnerState
  <2> HIDE DEF r
  <2> QED BY <1>3, <2>2, <2>3
<1> QED BY <1>2, <1>4, <1>5 DEF LookForRunning, RunnerGoto

LEMMA MarkStep == ASSUME BatchInv, NEW p \in Runner, MarkZombieFailed(p) PROVE BatchInv'
<1> DEFINE j == runner[p].row
           r == [runner[p] EXCEPT !.at = "create"]
           failed == [job[j] EXCEPT !.status = "FAILED"]
<1>1. /\ runner[p].at = "mark" /\ UNCHANGED <<attempt, raced, batchFaults>> /\ runner[p] \in RunnerState
      /\ j \in JobRow /\ job[j] \in JobInfo
  BY BatchTyped DEF MarkZombieFailed
<1>2. r \in RunnerState /\ r.at = "create" /\ r.row = j /\ runner' = [runner EXCEPT ![p] = r]
  BY <1>1 DEF RunnerState, RunnerGoto, MarkZombieFailed
<1>3. failed \in JobInfo /\ failed.age = job[j].age /\ job' = [job EXCEPT ![j] = failed]
  BY <1>1 DEF JobInfo, MarkZombieFailed
<1> HIDE DEF r, failed
<1>4. \A q \in Runner : runner'[q] = IF q = p THEN r ELSE runner[q]
  BY <1>2, BatchTyped
<1>5. \A k \in JobRow : job'[k].age = job[k].age /\ (k # j => job'[k] = job[k])
  BY <1>3, BatchTyped
<1>6. \A q \in Runner : /\ Executing(q)' => Executing(q) /\ q # p /\ runner'[q].row = runner[q].row
                        /\ Starting(q)' => Starting(q)
                        /\ runner'[q].at = "mark" => runner[q].at = "mark" /\ runner'[q].row = runner[q].row
  BY <1>1, <1>2, <1>4 DEF Executing, Starting
<1>7. ASSUME NEW q \in Runner, FreshJob(q)' PROVE FreshJob(q) /\ runner[q].row # j
  <2>1. FreshJob(q)
    BY <1>5, <1>6, <1>7, BatchTyped DEF FreshJob
  <2> QED BY <1>1, <2>1 DEF BatchInv, RowsOwned
<1>8. BatchTypeOK'
  BY <1>1, <1>2, <1>3, BatchTyped DEF BatchTypeOK
<1>9. RowsOwned'
  <2>1. ASSUME NEW q \in Runner, FreshJob(q)' PROVE job'[runner'[q].row].status = "RUNNING"
    <3>1. runner[q].row \in JobRow /\ job[runner[q].row].status = "RUNNING" /\ runner'[q].row = runner[q].row
      BY <1>6, <1>7, <2>1, BatchTyped DEF BatchInv, RowsOwned, FreshJob
    <3> QED BY <1>5, <1>7, <2>1, <3>1
  <2> QED BY <1>6, <1>7, <2>1 DEF BatchInv, RowsOwned, FreshJob
<1>10. StartersRaced' /\ AloneUnlessRaced'
  BY <1>1, <1>6, <1>7 DEF BatchInv, StartersRaced, AloneUnlessRaced
<1> QED BY <1>8, <1>9, <1>10 DEF BatchInv

LEMMA CreateStep == ASSUME BatchInv, NEW p \in Runner, CreateRunning(p) PROVE BatchInv'
<1>1. PICK j \in JobRow :
       /\ SlotFree(j) /\ \A q \in Runner : runner[q].at = "mark" => runner[q].row # j
       /\ job' = [job EXCEPT ![j] = [status |-> "RUNNING", age |-> 0]]
       /\ runner' = [runner EXCEPT ![p] = [at |-> "load", row |-> j, todo |-> {}]]
  BY DEF CreateRunning
<1>2. runner[p].at = "create" /\ UNCHANGED <<attempt, raced, batchFaults>>
  BY DEF CreateRunning
<1> DEFINE r == [at |-> "load", row |-> j, todo |-> {}]
           new == [status |-> "RUNNING", age |-> 0]
<1>3. r \in RunnerState /\ r.at = "load" /\ r.row = j /\ new \in JobInfo /\ new.status = "RUNNING"
  BY <1>1, RowsTyped DEF RunnerState
<1>4. runner' = [runner EXCEPT ![p] = r] /\ job' = [job EXCEPT ![j] = new]
  BY <1>1
<1> HIDE DEF r, new
<1>5. /\ \A q \in Runner : runner'[q] = IF q = p THEN r ELSE runner[q]
      /\ \A k \in JobRow : k # j => job'[k] = job[k]
      /\ job'[j].status = "RUNNING"
  BY <1>3, <1>4, BatchTyped
<1>6. \A q \in Runner : q # p =>
        /\ Executing(q)' <=> Executing(q)
        /\ Executing(q) => runner[q].row # j
        /\ FreshJob(q)' => FreshJob(q)
        /\ Starting(q)' <=> Starting(q)
        /\ runner'[q] = runner[q]
  BY <1>1, <1>5, BatchTyped DEF Executing, Starting, SlotFree, FreshJob
<1>7. Executing(p)' /\ ~Starting(p)' /\ Starting(p) /\ runner'[p].row = j /\ runner'[p].at = "load"
  BY <1>2, <1>3, <1>5 DEF Executing, Starting
<1>8. BatchTypeOK'
  BY <1>2, <1>3, <1>4, BatchTyped DEF BatchTypeOK
<1>9. RowsOwned'
  <2>1. \A q, s \in Runner : q # s /\ Executing(q)' /\ Executing(s)' => runner'[q].row # runner'[s].row
    BY <1>6, <1>7 DEF BatchInv, RowsOwned
  <2>2. ASSUME NEW q \in Runner, FreshJob(q)' PROVE job'[runner'[q].row].status = "RUNNING"
    <3>1. CASE q = p
      BY <1>5, <1>7, <3>1
    <3>2. CASE q # p
      <4>1. FreshJob(q) /\ runner'[q].row = runner[q].row /\ runner[q].row # j /\ runner[q].row \in JobRow
        BY <1>6, <2>2, <3>2, BatchTyped DEF FreshJob
      <4> QED BY <1>5, <4>1 DEF BatchInv, RowsOwned
    <3> QED BY <3>1, <3>2
  <2>3. ASSUME NEW q \in Runner, NEW s \in Runner, FreshJob(q)', runner'[s].at = "mark"
        PROVE  runner'[s].row # runner'[q].row
    <3>1. s # p /\ runner'[s] = runner[s] /\ runner[s].row # j
      BY <1>1, <1>6, <1>7, <2>3
    <3>2. CASE q = p
      BY <1>7, <3>1, <3>2
    <3>3. CASE q # p
      BY <1>6, <2>3, <3>1, <3>3 DEF BatchInv, RowsOwned
    <3> QED BY <3>2, <3>3
  <2> QED BY <2>1, <2>2, <2>3 DEF RowsOwned
<1>10. StartersRaced'
  <2>1. ASSUME NEW q \in Runner, NEW s \in Runner, q # s, Starting(q)', Starting(s)' PROVE {q, s} \in raced'
    BY <1>2, <1>6, <1>7, <2>1 DEF BatchInv, StartersRaced
  <2>2. ASSUME NEW q \in Runner, NEW s \in Runner, Starting(q)', FreshJob(s)' PROVE {q, s} \in raced'
    <3>1. Starting(q) /\ q # p
      BY <1>6, <1>7, <2>2
    <3>2. s = p => {q, s} \in raced
      BY <1>7, <3>1 DEF BatchInv, StartersRaced
    <3>3. s # p => {q, s} \in raced
      BY <1>6, <2>2, <3>1 DEF BatchInv, StartersRaced
    <3> QED BY <1>2, <3>2, <3>3
  <2> QED BY <2>1, <2>2 DEF StartersRaced
<1>11. AloneUnlessRaced'
  <2> SUFFICES ASSUME NEW q \in Runner, NEW s \in Runner, q # s, FreshJob(q)', FreshJob(s)'
               PROVE  {q, s} \in raced
    BY <1>2 DEF AloneUnlessRaced
  <2>1. CASE q = p
    BY <1>6, <1>7, <2>1 DEF BatchInv, StartersRaced
  <2>2. CASE s = p
    <3>1. {s, q} \in raced
      BY <1>6, <1>7, <2>2 DEF BatchInv, StartersRaced
    <3>2. {s, q} = {q, s}
      OBVIOUS
    <3> QED BY <3>1, <3>2
  <2>3. CASE q # p /\ s # p
    BY <1>6, <2>3 DEF BatchInv, AloneUnlessRaced
  <2> QED BY <2>1, <2>2, <2>3
<1> QED BY <1>8, <1>9, <1>10, <1>11 DEF BatchInv

LEMMA TriggerStep == ASSUME BatchInv, NEW p \in Runner, Trigger(p) PROVE BatchInv'
<1> DEFINE r == [runner[p] EXCEPT !.at = "look"]
<1>1. UNCHANGED <<job, attempt, raced, batchFaults>> /\ runner[p] \in RunnerState
  BY BatchTyped DEF Trigger
<1>2. r \in RunnerState /\ r.at = "look" /\ r.row = runner[p].row /\ runner' = [runner EXCEPT ![p] = r]
  BY <1>1 DEF RunnerState, RunnerGoto, Trigger
<1> HIDE DEF r
<1> QED BY <1>1, <1>2, BatchTyped, SamePart

LEMMA LoadsTargets == ASSUME BatchInv, NEW p \in Runner, LoadTargets(p) PROVE BatchInv'
<1> DEFINE todo == {m \in Payer : Overdue(m)}
           r == [runner[p] EXCEPT !.at = "items", !.todo = todo]
<1>1. /\ runner[p].at = "load" /\ UNCHANGED <<job, attempt, raced, batchFaults>> /\ runner[p] \in RunnerState
      /\ runner' = [runner EXCEPT ![p] = r] /\ todo \in SUBSET Payer
  BY BatchTyped DEF LoadTargets
<1> HIDE DEF todo
<1>2. r \in RunnerState /\ r.at = "items" /\ r.row = runner[p].row
  BY <1>1 DEF RunnerState
<1> HIDE DEF r
<1>3. Executing(p)
  BY <1>1 DEF Executing
<1> QED BY <1>1, <1>2, <1>3, BatchTyped, SamePart

LEMMA BatchFaulted == ASSUME BatchInv, BatchFault PROVE batchFaults' \in 0 .. MaxBatchFaults
BY BatchTyped, BatchAssumption DEF BatchFault

LEMMA ItemStep == ASSUME BatchInv, NEW p \in Runner, NEW m \in Payer, ProcessItem(p, m) PROVE BatchInv'
<1> DEFINE r == [runner[p] EXCEPT !.todo = runner[p].todo \ {m}]
<1>1. /\ runner[p].at = "items" /\ UNCHANGED <<job, raced>> /\ runner[p] \in RunnerState
      /\ runner' = [runner EXCEPT ![p] = r]
  BY BatchTyped DEF ProcessItem
<1>2. r \in RunnerState /\ r.at = "items" /\ r.row = runner[p].row
  BY <1>1 DEF RunnerState
<1> HIDE DEF r
<1>3. Executing(p)
  BY <1>1 DEF Executing
<1>4. attempt' \in [Payer -> Attempt] /\ batchFaults' \in 0 .. MaxBatchFaults
  BY BatchTyped, RowsTyped, BatchFaulted DEF ProcessItem
<1> QED BY <1>1, <1>2, <1>3, <1>4, SamePart

LEMMA DoneStep == ASSUME BatchInv, NEW p \in Runner, ItemsDone(p) PROVE BatchInv'
<1> DEFINE r == [runner[p] EXCEPT !.at = "close"]
<1>1. /\ runner[p].at = "items" /\ UNCHANGED <<job, attempt, raced, batchFaults>> /\ runner[p] \in RunnerState
  BY BatchTyped DEF ItemsDone
<1>2. r \in RunnerState /\ r.at = "close" /\ r.row = runner[p].row /\ runner' = [runner EXCEPT ![p] = r]
  BY <1>1 DEF RunnerState, RunnerGoto, ItemsDone
<1> HIDE DEF r
<1>3. Executing(p)
  BY <1>1 DEF Executing
<1> QED BY <1>1, <1>2, <1>3, BatchTyped, SamePart

LEMMA DiesStep == ASSUME BatchInv, NEW p \in Runner, RunnerDies(p) PROVE BatchInv'
<1> DEFINE r == [runner[p] EXCEPT !.at = "idle", !.todo = {}]
<1>1. /\ UNCHANGED <<job, attempt>> /\ runner[p] \in RunnerState /\ Forgotten(p)
      /\ runner' = [runner EXCEPT ![p] = r] /\ batchFaults' \in 0 .. MaxBatchFaults
  BY BatchTyped, BatchFaulted DEF RunnerDies
<1>2. r \in RunnerState /\ r.at = "idle" /\ r.row = runner[p].row
  BY <1>1 DEF RunnerState
<1> HIDE DEF r
<1> QED BY <1>1, <1>2, BatchTyped, SamePart

(* Rows only leave the exclusion: closed by the execution that owns them.      *)
LEMMA CloseStep == ASSUME BatchInv, NEW p \in Runner, CloseJob(p) PROVE BatchInv'
<1> DEFINE r == [runner[p] EXCEPT !.at = "idle"]
           j == runner[p].row
<1>1. /\ runner[p].at = "close" /\ UNCHANGED attempt /\ runner[p] \in RunnerState /\ Forgotten(p)
      /\ batchFaults' \in 0 .. MaxBatchFaults /\ Executing(p)
  BY BatchTyped, BatchFaulted DEF CloseJob, Executing
<1>2. r \in RunnerState /\ r.at = "idle" /\ r.row = j /\ runner' = [runner EXCEPT ![p] = r]
  BY <1>1 DEF RunnerState, RunnerGoto, CloseJob
<1> HIDE DEF r
<1>3. CASE job' = job
  BY <1>1, <1>2, <1>3, BatchTyped, SamePart
<1>4. CASE job' = [job EXCEPT ![j] = NoJob]
  <2>1. \A q \in Runner : runner'[q] = IF q = p THEN r ELSE runner[q]
    BY <1>2, BatchTyped
  <2>2. \A k \in JobRow : k # j => job'[k] = job[k]
    BY <1>4
  <2>3. ASSUME NEW q \in Runner, Executing(q)'
        PROVE  /\ q # p /\ Executing(q) /\ runner'[q] = runner[q] /\ runner[q].row # j
               /\ job'[runner[q].row] = job[runner[q].row]
    <3>1. q # p /\ Executing(q) /\ runner'[q] = runner[q]
      BY <1>2, <2>1, <2>3 DEF Executing
    <3>2. runner[q].row # j
      BY <1>1, <3>1 DEF BatchInv, RowsOwned
    <3> QED BY <2>2, <3>1, <3>2, BatchTyped
  <2>4. \A q \in Runner : /\ FreshJob(q)' => FreshJob(q)
                          /\ Starting(q)' => q # p /\ Starting(q)
                          /\ runner'[q].at = "mark" => runner'[q] = runner[q]
    BY <1>2, <2>1, <2>3 DEF FreshJob, Starting
  <2>5. BatchTypeOK'
    BY <1>1, <1>2, <1>4, BatchTyped, RowsTyped DEF BatchTypeOK, Forgotten
  <2>6. RowsOwned'
    BY <2>3, <2>4 DEF BatchInv, RowsOwned, FreshJob
  <2>7. \A q, s \in Runner : q # p /\ s # p /\ {q, s} \in raced => {q, s} \in raced'
    BY <1>1 DEF Forgotten
  <2>8. \A q \in Runner : FreshJob(q)' => q # p
    BY <2>3 DEF FreshJob
  <2>9. StartersRaced' /\ AloneUnlessRaced'
    BY <2>4, <2>7, <2>8 DEF BatchInv, StartersRaced, AloneUnlessRaced
  <2> QED BY <2>5, <2>6, <2>9 DEF BatchInv
<1> QED BY <1>3, <1>4 DEF CloseJob

(* Time only makes rows older; the members' requests touch none of this.       *)
LEMMA OthersStep ==
  ASSUME BatchInv, UNCHANGED <<runner, raced>>, attempt' \in [Payer -> Attempt],
         batchFaults' \in 0 .. MaxBatchFaults, job' \in [JobRow -> JobInfo],
         \A j \in JobRow : job'[j].status = job[j].status /\ job[j].age <= job'[j].age
  PROVE  BatchInv'
<1>1. \A p \in Runner : /\ Executing(p)' <=> Executing(p)
                        /\ Starting(p)' <=> Starting(p)
                        /\ runner[p].row \in JobRow
  BY BatchTyped DEF Executing, Starting
<1>2. ASSUME NEW p \in Runner, FreshJob(p)' PROVE FreshJob(p)
  <2>1. runner[p].row \in JobRow /\ job'[runner[p].row].age < StaleJob /\ Executing(p)
    BY <1>1, <1>2 DEF FreshJob
  <2>2. job'[runner[p].row].age \in Nat /\ job[runner[p].row].age \in Nat /\ StaleJob \in Nat
    BY <2>1, BatchTyped, BatchAssumption DEF JobInfo
  <2> QED BY <2>1, <2>2 DEF FreshJob
<1>3. BatchTypeOK'
  BY BatchTyped DEF BatchTypeOK
<1>4. RowsOwned'
  BY <1>1, <1>2 DEF BatchInv, RowsOwned
<1>5. StartersRaced' /\ AloneUnlessRaced'
  BY <1>1, <1>2 DEF BatchInv, StartersRaced, AloneUnlessRaced
<1> QED BY <1>3, <1>4, <1>5 DEF BatchInv

LEMMA BatchTickStep == ASSUME BatchInv, BatchTick PROVE BatchInv'
<1> DEFINE Grown(row) == [row EXCEPT !.age = row.age + 1]
<1>1. StaleJob \in Nat /\ StalePending \in Nat
  BY BatchAssumption
<1>2. ASSUME NEW row \in JobInfo, row.age < StaleJob
      PROVE  Grown(row) \in JobInfo /\ Grown(row).age = row.age + 1 /\ Grown(row).status = row.status
  BY <1>1, <1>2 DEF JobInfo
<1>3. ASSUME NEW row \in Attempt, row.age < StalePending PROVE Grown(row) \in Attempt
  BY <1>1, <1>3 DEF Attempt
<1>4. /\ job' = [j \in JobRow |-> IF job[j].status = "RUNNING" /\ job[j].age < StaleJob
                                   THEN Grown(job[j]) ELSE job[j]]
      /\ attempt' = [m \in Payer |-> IF attempt[m].status = "PENDING" /\ attempt[m].age < StalePending
                                       THEN Grown(attempt[m]) ELSE attempt[m]]
  BY DEF BatchTick
<1> HIDE DEF Grown
<1>5. attempt' \in [Payer -> Attempt]
  BY <1>3, <1>4, BatchTyped
<1>6. ASSUME NEW j \in JobRow
      PROVE  job'[j] \in JobInfo /\ job'[j].status = job[j].status /\ job[j].age <= job'[j].age
  <2>1. job[j] \in JobInfo /\ job[j].age \in Nat
    BY BatchTyped
  <2>2. CASE job[j].status = "RUNNING" /\ job[j].age < StaleJob
    BY <1>2, <1>4, <2>1, <2>2
  <2>3. CASE ~(job[j].status = "RUNNING" /\ job[j].age < StaleJob)
    BY <1>4, <2>1, <2>3
  <2> QED BY <2>2, <2>3
<1>7. job' \in [JobRow -> JobInfo]
  BY <1>4, <1>6
<1>8. batchFaults' \in 0 .. MaxBatchFaults /\ UNCHANGED <<runner, raced>>
  BY BatchTyped, BatchFaulted DEF BatchTick
<1> QED BY <1>5, <1>6, <1>7, <1>8, OthersStep

LEMMA PayerStep ==
  ASSUME BatchInv, NEW m \in Payer, OpenAttempt(m) \/ CloseAttempt(m) \/ LoseAttempt(m)
  PROVE  BatchInv'
<1>1. UNCHANGED <<job, runner, raced, batchFaults>>
  BY DEF OpenAttempt, CloseAttempt, LoseAttempt
<1>2. attempt[m] \in Attempt
  BY BatchTyped
<1> DEFINE lost == [attempt[m] EXCEPT !.alive = FALSE]
<1>3. lost \in Attempt
  BY <1>2 DEF Attempt
<1>4. LoseAttempt(m) => attempt' = [attempt EXCEPT ![m] = lost]
  BY DEF LoseAttempt
<1> HIDE DEF lost
<1>5. attempt' \in [Payer -> Attempt]
  BY <1>3, <1>4, BatchTyped, RowsTyped DEF OpenAttempt, CloseAttempt
<1>6. \A j \in JobRow : job[j].age <= job[j].age
  BY BatchTyped
<1> QED BY <1>1, <1>5, <1>6, BatchTyped, OthersStep

LEMMA BatchStep == BatchInv /\ [BatchNext]_batchVars => BatchInv'
<1> SUFFICES ASSUME BatchInv, [BatchNext]_batchVars PROVE BatchInv'
  OBVIOUS
<1>1. CASE UNCHANGED batchVars
  <2>1. \A j \in JobRow : job[j].age <= job[j].age
    BY BatchTyped
  <2> QED BY <1>1, <2>1, BatchTyped, OthersStep DEF batchVars
<1>2. ASSUME NEW p \in Runner, Trigger(p) \/ RunnerStep(p) \/ RunnerDies(p) PROVE BatchInv'
  BY <1>2, TriggerStep, FindRunningStep, MarkStep, CreateStep, LoadsTargets, ItemStep, DoneStep,
     CloseStep, DiesStep DEF RunnerStep
<1>3. ASSUME NEW m \in Payer, OpenAttempt(m) \/ CloseAttempt(m) \/ LoseAttempt(m) PROVE BatchInv'
  BY <1>3, PayerStep
<1>4. CASE BatchTick
  BY <1>4, BatchTickStep
<1> QED BY <1>1, <1>2, <1>3, <1>4 DEF BatchNext

(* runJob, step 1: whatever cron, administrators, crashes and takeovers do,    *)
(* two executions that are not overdue work at once only if both had looked    *)
(* before either created its row.                                              *)
THEOREM JobsExclude == BatchSafety => []AloneUnlessRaced
<1>1. BatchInv => AloneUnlessRaced
  BY DEF BatchInv
<1> QED BY <1>1, BatchInitInv, BatchStep, PTL DEF BatchSafety
===============================================================================
