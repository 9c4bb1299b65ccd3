----------------------------- MODULE TransferProofs -----------------------------
(***************************************************************************)
(* Proofs about Transfer: whatever aborts, expiries, late chunks, failures *)
(* and restarts come in between, a visible file is whole, "created" is     *)
(* said of a saved file only, nothing lies on the device without an owner, *)
(* and an export is written in order; for any number of requests, chunks   *)
(* and pieces and for any limits.                                          *)
(***************************************************************************)
EXTENDS Transfer, FiniteSetTheorems, SequenceTheorems, TLAPS

\* The parts of TypeOK that change together.
CallsType ==
  /\ hub \in [Call -> {"unused", "open", "ok", "error"}]
  /\ dev \in [Call -> {"none", "sent", "found", "written", "taken", "rejected",
                       "verified", "closed", "captured", "ok", "error"}]

AnswersType ==
  /\ wanted \subseteq Transfer /\ stopped \subseteq Upload
  /\ handler \in [Transfer -> {"idle", "beginning", "sending", "committing", "aborting",
                               "reading", "writing", "closing", "done"}]
  /\ told \in [Transfer -> {"nothing", "created", "error", "complete", "short"}]

TablesType ==
  /\ uploads \subseteq Upload /\ Cardinality(uploads) <= MaxUploads
  /\ exports \subseteq Export /\ Cardinality(exports) <= MaxExports

FilesType ==
  /\ open \subseteq Upload
  /\ file \in [Upload -> {"none", "part", "left", "final", "pruned"}]
  /\ disk \in [Upload -> SUBSET Nat] /\ written \in [Upload -> SUBSET Nat]
  /\ \A u \in Upload : written[u] \subseteq disk[u] /\ disk[u] \subseteq 1..Chunks[u]

PiecesType ==
  /\ size \in [Export -> Nat] /\ \A e \in Export : size[e] \in 0..MaxPieces[e]
  /\ inFlight \in [Export -> Seq(Nat)] /\ body \in [Export -> Seq(Nat)]
  /\ \A e \in Export : Len(inFlight[e]) <= ExportWindow

Types == CallsType /\ AnswersType /\ TablesType /\ FilesType /\ PiecesType

\* What the hub knows of a call is behind what the device has done with it: a call that was
\* not sent is not handled, and what returned with success was done.
WireInv ==
  \A c \in Call : /\ hub[c] = "unused" => dev[c] = "none"
                  /\ hub[c] = "ok" => dev[c] = "ok"

\* The handlers of the hub send each call of a transfer at its stage, once.
UploadStage(u) ==
  /\ handler[u] = "idle" => hub[Begin(u)] = "unused"
  /\ handler[u] \in {"idle", "beginning", "sending"} => hub[Commit(u)] = "unused"
  /\ handler[u] \in {"idle", "beginning", "sending", "committing"} => hub[Abort(u)] = "unused"
  /\ handler[u] \in {"sending", "committing"} \/ hub[Commit(u)] # "unused" => hub[Begin(u)] = "ok"
  /\ told[u] = "created" => handler[u] = "done" /\ hub[Commit(u)] = "ok"

ExportStage(e) ==
  /\ handler[e] = "idle" => hub[Begin(e)] = "unused"
  /\ handler[e] \in {"reading", "writing", "closing"} => hub[Begin(e)] = "ok"
  /\ told[e] = "complete" => handler[e] \in {"closing", "done"} /\ hub[Begin(e)] = "ok"

StageInv == /\ \A u \in Upload : UploadStage(u)
            /\ \A e \in Export : ExportStage(e)

\* A commit has gone as far as the file it works on.
CommitSound(u) ==
  /\ dev[Commit(u)] \in {"verified", "closed", "ok"} => disk[u] = 1..Chunks[u]
  /\ dev[Commit(u)] = "closed" => u \notin open
  /\ dev[Commit(u)] = "ok" <=> file[u] \in {"final", "pruned"}

CommitInv == \A u \in Upload : CommitSound(u)

\* A chunk that is to be counted is in the file.
ChunkInv == \A u \in Upload : \A n \in 1..Chunks[u] :
              dev[Chunk(u, n)] = "written" => n \in disk[u]

\* The hub's count of a device's uploads is that of the handlers that hold a place.
Holders == {u \in Upload : handler[u] \in {"beginning", "sending", "committing", "aborting"}}
HeldCounted == held = Cardinality(Holders)

HeldInv == HeldCounted /\ held <= PerDevice

\* Pieces in order, after k others.
InOrder(q, k) == \A i \in 1..Len(q) : q[i] = k + i

\* What is in flight continues what is written; it is empty only at the end.
PiecesSound(e) ==
  /\ handler[e] \in {"idle", "beginning"} \/ hub[Begin(e)] # "ok" => body[e] = <<>> /\ inFlight[e] = <<>>
  /\ Len(body[e]) + Len(inFlight[e]) <= size[e]
  /\ \A i \in 1..Len(body[e]) : body[e][i] = i
  /\ InOrder(inFlight[e], Len(body[e]))
  /\ handler[e] \in {"reading", "writing"} /\ inFlight[e] = <<>> => Len(body[e]) = size[e]
  /\ told[e] = "complete" => Len(body[e]) = size[e]

PiecesInv == \A e \in Export : PiecesSound(e)

DeviceInv == CommitInv /\ FilesAreOwned /\ ChunkInv

\* The inductive invariant.
IInv == Types /\ WireInv /\ StageInv /\ DeviceInv /\ HeldInv /\ PiecesInv

-------------------------------------------------------------------------------
\* What the steps are made of

LEMMA Limits ==
  /\ IsFiniteSet(Upload) /\ IsFiniteSet(Export) /\ Upload \cap Export = {}
  /\ Upload \subseteq Transfer /\ Export \subseteq Transfer
  /\ PerDevice \in Nat \ {0} /\ MaxUploads \in Nat \ {0} /\ MaxExports \in Nat \ {0}
  /\ ExportWindow \in Nat \ {0} /\ Window \in Nat \ {0}
  /\ \A u \in Upload : Chunks[u] \in Nat \ {0}
  /\ \A e \in Export : MaxPieces[e] \in Nat
<1>1. IsFiniteSet(Upload) /\ IsFiniteSet(Export)
  BY ConstantsAssumption, FS_Subset DEF Transfer
<1> QED
  BY <1>1, ConstantsAssumption DEF Transfer

\* The calls of the requests, and that no two of them are the same.
LEMMA CallsOf ==
  /\ \A t \in Transfer : Begin(t) \in Call
  /\ \A u \in Upload : Commit(u) \in Call /\ Abort(u) \in Call
  /\ \A u \in Upload : \A n \in 1..Chunks[u] : Chunk(u, n) \in Call
  /\ \A e \in Export : Close(e) \in Call
  /\ \A e \in Export : \A n \in 1..MaxPieces[e] : Read(e, n) \in Call
<1> DEFINE ChunksOf(u) == {Chunk(u, n) : n \in 1..Chunks[u]}
           ReadsOf(e) == {Read(e, n) : n \in 1..MaxPieces[e]}
           P == {ChunksOf(u) : u \in Upload}
           Q == {ReadsOf(e) : e \in Export}
           B == {Begin(t) : t \in Transfer}
           C == {Commit(u) : u \in Upload}
           A == {Abort(u) : u \in Upload}
           D == {Close(e) : e \in Export}
<1>1. Call = B \cup (UNION P) \cup C \cup A \cup (UNION Q) \cup D
  BY Zenon DEF Call
<1>2. /\ \A u \in Upload : ChunksOf(u) \in P
      /\ \A e \in Export : ReadsOf(e) \in Q
  OBVIOUS
<1>3. /\ \A u \in Upload : \A n \in 1..Chunks[u] : Chunk(u, n) \in ChunksOf(u)
      /\ \A e \in Export : \A n \in 1..MaxPieces[e] : Read(e, n) \in ReadsOf(e)
  OBVIOUS
<1>4. /\ \A t \in Transfer : Begin(t) \in B
      /\ \A u \in Upload : Commit(u) \in C /\ Abort(u) \in A
      /\ \A e \in Export : Close(e) \in D
  OBVIOUS
<1> HIDE DEF ChunksOf, ReadsOf, P, Q, B, C, A, D
<1>5. \A S \in P \cup Q : S \subseteq Call
  BY <1>1
<1> QED
  BY <1>1, <1>2, <1>3, <1>4, <1>5

LEMMA CallsDiffer ==
  ASSUME NEW s, NEW t
  PROVE  /\ Begin(s) = Begin(t) \/ Commit(s) = Commit(t) \/ Abort(s) = Abort(t) => s = t
         /\ Begin(s) # Commit(t) /\ Begin(s) # Abort(t) /\ Commit(s) # Abort(t)
         /\ Begin(s) # Close(t) /\ Commit(s) # Close(t) /\ Abort(s) # Close(t)
         /\ \A n : /\ Chunk(s, n) \notin {Begin(t), Commit(t), Abort(t), Close(t)}
                   /\ Read(s, n) \notin {Begin(t), Commit(t), Abort(t), Close(t)}
         /\ \A m, n : /\ Chunk(s, n) = Chunk(t, m) => s = t /\ n = m
                      /\ Read(s, n) # Chunk(t, m)
BY DEF Begin, Commit, Abort, Close, Chunk, Read

\* A request that is sent is open and on the wire; other calls are as they were.
LEMMA Sends ==
  ASSUME CallsType, WireInv, NEW C, Send(C)
  PROVE  /\ CallsType' /\ WireInv'
         /\ \A c \in Call \ C : hub'[c] = hub[c] /\ dev'[c] = dev[c]
         /\ \A c \in Call \cap C : hub'[c] = "open" /\ dev'[c] = "sent"
BY DEF CallsType, WireInv, Send

\* The device takes a call it was sent and has not finished one stage further.
Stages == {"sent", "found", "written", "taken", "rejected",
           "verified", "closed", "captured", "ok", "error"}

LEMMA Handling ==
  ASSUME CallsType, WireInv, NEW c \in Call, NEW s \in Stages \ {"ok"}, NEW t \in Stages,
         Step(c, s, t), UNCHANGED hub
  PROVE  /\ CallsType' /\ WireInv'
         /\ dev'[c] = t /\ hub[c] # "unused"
         /\ \A d \in Call \ {c} : dev'[d] = dev[d]
BY DEF CallsType, WireInv, Step, Stages

\* The calls of one request.
Own(t) == {c \in Call : c[1] = t}

LEMMA OwnCalls ==
  /\ \A t \in Transfer : Begin(t) \in Own(t)
  /\ \A u \in Upload : Commit(u) \in Own(u) /\ Abort(u) \in Own(u)
  /\ \A u \in Upload : \A n \in 1..Chunks[u] : Chunk(u, n) \in Own(u)
  /\ \A e \in Export : Close(e) \in Own(e)
  /\ \A e \in Export : \A n \in 1..MaxPieces[e] : Read(e, n) \in Own(e)
BY CallsOf DEF Own, Begin, Commit, Abort, Chunk, Close, Read

Handled(c) ==
  /\ UNCHANGED hub
  /\ \E s \in Stages \ {"ok"} : \E t \in Stages \ {"sent"} : Step(c, s, t)

\* Steps of the hub that serve a request send some of its calls, or none.
Sent(t) == UNCHANGED calls \/ \E C : Send(C) /\ \A c \in Call \cap C : c[1] = t

HubStep(t) == /\ UNCHANGED <<wanted, device>>
              /\ \A r \in Transfer \ {t} : handler'[r] = handler[r] /\ told'[r] = told[r]
              /\ Sent(t)

LEMMA UploadAsks ==
  ASSUME AnswersType, NEW u \in Upload, HubUpload(u)
  PROVE  /\ AnswersType' /\ HubStep(u) /\ UNCHANGED <<inFlight, body>>
<1> u \in Transfer
  BY Limits
<1> USE DEF AnswersType, HubStep, Go, Tell, calls, answering, hubState
<1>1. CASE Decline(u)
  BY <1>1 DEF Decline, Sent
<1>2. CASE AcquireUpload(u)
  <2>1. Sent(u)
    BY <1>2 DEF AcquireUpload, Sent, Begin
  <2> QED
    BY <1>2, <2>1 DEF AcquireUpload
<1>3. CASE UploadBegun(u)
  BY <1>3 DEF UploadBegun, Sent
<1>4. CASE BeginFails(u)
  BY <1>4 DEF BeginFails, Sent
<1>5. CASE SendChunk(u)
  <2>1. Sent(u)
    BY <1>5 DEF SendChunk, Sent, Chunk
  <2> QED
    BY <1>5, <2>1 DEF SendChunk
<1>6. CASE BodyEnds(u)
  BY <1>6 DEF BodyEnds, Sent
<1>7. CASE GiveUp(u)
  <2>1. Sent(u)
    BY <1>7 DEF GiveUp, Sent, Abort
  <2> QED
    BY <1>7, <2>1 DEF GiveUp
<1>8. CASE SendCommit(u)
  <2>1. Sent(u)
    BY <1>8 DEF SendCommit, Sent, Commit
  <2> QED
    BY <1>8, <2>1 DEF SendCommit
<1>9. CASE UploadCreated(u)
  BY <1>9 DEF UploadCreated, Sent
<1>10. CASE CommitFails(u)
  <2>1. Sent(u)
    BY <1>10 DEF CommitFails, Sent, Abort
  <2> QED
    BY <1>10, <2>1 DEF CommitFails
<1>11. CASE UploadEnds(u)
  BY <1>11 DEF UploadEnds, Sent
<1> QED
  BY <1>1, <1>2, <1>3, <1>4, <1>5, <1>6, <1>7, <1>8, <1>9, <1>10, <1>11 DEF HubUpload

LEMMA ExportAsks ==
  ASSUME AnswersType, NEW e \in Export, HubExport(e)
  PROVE  /\ AnswersType' /\ HubStep(e) /\ UNCHANGED <<stopped, held>>
<1> e \in Transfer
  BY Limits
<1>f. ASSUME NEW done, NEW flight, Fill(e, done, flight)
      PROVE  Sent(e)
  <2> DEFINE next == Len(done) + Len(flight) + 1
             last == IF ExportWindow < Len(flight) + size[e] + 1 - next
                       THEN next + ExportWindow - Len(flight) - 1 ELSE size[e]
             C == {Read(e, n) : n \in next..last}
  <2>1. Send(C)
    BY <1>f DEF Fill
  <2>2. \A c \in C : c[1] = e
    BY DEF Read
  <2> QED
    BY <2>1, <2>2 DEF Sent
<1> USE DEF AnswersType, HubStep, Go, Tell, calls, answering, hubState
<1>1. CASE Decline(e)
  BY <1>1 DEF Decline, Sent
<1>2. CASE StartExport(e)
  <2>1. Sent(e)
    BY <1>2 DEF StartExport, Sent, Begin
  <2> QED
    BY <1>2, <2>1 DEF StartExport
<1>3. CASE ExportRefused(e)
  BY <1>3 DEF ExportRefused, Sent
<1>4. CASE ExportBegun(e)
  BY <1>4, <1>f DEF ExportBegun
<1>5. CASE WritePiece(e)
  BY <1>5, <1>f DEF WritePiece
<1>6. CASE PieceFails(e)
  <2>1. Sent(e)
    BY <1>6 DEF PieceFails, Sent, Close
  <2> QED
    BY <1>6, <2>1 DEF PieceFails
<1>7. CASE BrowserGone(e)
  <2>1. Sent(e)
    BY <1>7 DEF BrowserGone, Sent, Close
  <2> QED
    BY <1>7, <2>1 DEF BrowserGone
<1>8. CASE ExportWritten(e)
  <2>1. Sent(e)
    BY <1>8 DEF ExportWritten, Sent, Close
  <2> QED
    BY <1>8, <2>1 DEF ExportWritten
<1>9. CASE ExportEnds(e)
  BY <1>9 DEF ExportEnds, Sent
<1> QED
  BY <1>1, <1>2, <1>3, <1>4, <1>5, <1>6, <1>7, <1>8, <1>9 DEF HubExport

\* Steps of the device leave the hub alone, and handle one call at most.
HubKept == UNCHANGED <<wanted, hub, answering, hubState>>

Served(t) == UNCHANGED dev \/ \E c \in Own(t) : Handled(c)

LEMMA UploadServed ==
  ASSUME NEW u \in Upload, DeviceUpload(u)
  PROVE  HubKept /\ Served(u) /\ UNCHANGED size
<1> USE DEF HubKept, files, device
<1> u \in Transfer
  BY Limits
<1>h. ASSUME NEW c \in Own(u), NEW s \in Stages \ {"ok"}, NEW t \in Stages \ {"sent"}, Step(c, s, t), UNCHANGED hub
      PROVE  Served(u)
  BY <1>h DEF Served, Handled
<1>1. CASE \E X \in SUBSET (uploads \cup exports) : BeginUpload(u, X) \/ BeginRejected(u, X)
  BY <1>1, <1>h, OwnCalls DEF BeginUpload, BeginRejected, Stages
<1>2. CASE \E c \in Call : LookUp(u, c)
  <2>1. PICK c \in Call : LookUp(u, c)
    BY <1>2
  <2>2. c \in Own(u)
    BY <2>1, OwnCalls DEF LookUp
  <2>3. CASE u \in uploads
    BY <2>1, <2>2, <2>3, <1>h DEF LookUp, Stages
  <2>4. CASE u \notin uploads
    BY <2>1, <2>2, <2>4, <1>h DEF LookUp, Stages
  <2> QED
    BY <2>3, <2>4
<1>3. CASE \E n \in 1..Chunks[u] : WriteChunk(u, n) \/ WriteFails(u, n) \/ RecordChunk(u, n)
  BY <1>3, <1>h, OwnCalls DEF WriteChunk, WriteFails, RecordChunk, Stages
<1>4. CASE TakeUpload(u)
  <2>1. CASE written[u] = 1..Chunks[u]
    BY <1>4, <2>1, <1>h, OwnCalls DEF TakeUpload, Stages
  <2>2. CASE written[u] # 1..Chunks[u]
    BY <1>4, <2>2, <1>h, OwnCalls DEF TakeUpload, Stages
  <2> QED
    BY <2>1, <2>2
<1>5. CASE TakeAborted(u)
  <2>1. CASE u \in uploads
    BY <1>5, <2>1, <1>h, OwnCalls DEF TakeAborted, Stages
  <2>2. CASE u \notin uploads
    BY <1>5, <2>2, <1>h, OwnCalls DEF TakeAborted, Stages
  <2> QED
    BY <2>1, <2>2
<1>6. CASE VerifyUpload(u) \/ CloseUpload(u) \/ CommitBreaks(u) \/ RejectUpload(u)
  BY <1>6, <1>h, OwnCalls DEF VerifyUpload, CloseUpload, CommitBreaks, RejectUpload, Stages
<1>7. CASE RenameUpload(u) \/ RenameFails(u) \/ RemoveAborted(u)
  BY <1>7, <1>h, OwnCalls DEF RenameUpload, RenameFails, RemoveAborted, Stages
<1>8. CASE Prune(u)
  BY <1>8 DEF Prune, Served, calls
<1> QED
  BY <1>1, <1>2, <1>3, <1>4, <1>5, <1>6, <1>7, <1>8 DEF DeviceUpload, FinishUpload

LEMMA ExportServed ==
  ASSUME NEW e \in Export, DeviceExport(e)
  PROVE  HubKept /\ Served(e) /\ UNCHANGED <<disk, written>>
<1> USE DEF HubKept, files, device
<1> e \in Transfer
  BY Limits
<1>h. ASSUME NEW c \in Own(e), NEW s \in Stages \ {"ok"}, NEW t \in Stages \ {"sent"}, Step(c, s, t), UNCHANGED hub
      PROVE  Served(e)
  BY <1>h DEF Served, Handled
<1>1. CASE \E X \in SUBSET (uploads \cup exports) : CheckExports(e, X)
  <2>1. PICK X \in SUBSET (uploads \cup exports) : CheckExports(e, X)
    BY <1>1
  <2>2. CASE Cardinality(exports \ X) < MaxExports
    BY <2>1, <2>2, <1>h, OwnCalls DEF CheckExports, Stages
  <2>3. CASE ~(Cardinality(exports \ X) < MaxExports)
    BY <2>1, <2>3, <1>h, OwnCalls DEF CheckExports, Stages
  <2> QED
    BY <2>2, <2>3
<1>2. CASE \E n \in 0..MaxPieces[e] : AddExport(e, n)
  BY <1>2, <1>h, OwnCalls DEF AddExport, Stages
<1>3. CASE CaptureRejected(e) \/ CloseExport(e)
  BY <1>3, <1>h, OwnCalls DEF CaptureRejected, CloseExport, Stages
<1>4. CASE \E n \in 1..MaxPieces[e] : ReadExport(e, n)
  <2>1. PICK n \in 1..MaxPieces[e] : ReadExport(e, n)
    BY <1>4
  <2>2. CASE e \in exports
    BY <2>1, <2>2, <1>h, OwnCalls DEF ReadExport, Stages
  <2>3. CASE e \notin exports
    BY <2>1, <2>3, <1>h, OwnCalls DEF ReadExport, Stages
  <2> QED
    BY <2>2, <2>3
<1> QED
  BY <1>1, <1>2, <1>3, <1>4 DEF DeviceExport

\* Every step is one of these.
Housework == Restart \/ \E X \in SUBSET (uploads \cup exports) : Expire(X)

Acts == \/ \E u \in Upload : HubUpload(u) \/ DeviceUpload(u)
        \/ \E e \in Export : HubExport(e) \/ DeviceExport(e)
        \/ \E c \in Call : Return(c) \/ Fail(c) \/ Overload(c)
        \/ Housework
        \/ UNCHANGED vars

LEMMA Actions == [Next]_vars => Acts
BY DEF Next, Acts, Housework

LEMMA HouseworkKeeps == Housework => HubKept /\ UNCHANGED <<size, disk, written>>
BY DEF Housework, Restart, Expire, HubKept, calls, files

-------------------------------------------------------------------------------
\* Calls: what the hub knows of them is behind what the device did

LEMMA CallsKept ==
  ASSUME CallsType, WireInv, AnswersType, [Next]_vars
  PROVE  CallsType' /\ WireInv'
<1>a. ASSUME NEW t, Sent(t) PROVE CallsType' /\ WireInv'
  <2>1. CASE UNCHANGED calls
    BY <2>1 DEF CallsType, WireInv, calls
  <2>2. CASE \E C : Send(C)
    BY <2>2, Sends
  <2> QED
    BY <1>a, <2>1, <2>2 DEF Sent
<1>b. ASSUME NEW t, Served(t), HubKept PROVE CallsType' /\ WireInv'
  <2>1. CASE UNCHANGED dev
    BY <1>b, <2>1 DEF CallsType, WireInv, HubKept
  <2>2. CASE \E c \in Own(t) : Handled(c)
    BY <2>2, Handling DEF Own, Handled
  <2> QED
    BY <1>b, <2>1, <2>2 DEF Served
<1>1. CASE \E u \in Upload : HubUpload(u)
  BY <1>1, <1>a, UploadAsks DEF HubStep
<1>2. CASE \E e \in Export : HubExport(e)
  BY <1>2, <1>a, ExportAsks DEF HubStep
<1>3. CASE \E u \in Upload : DeviceUpload(u)
  BY <1>3, <1>b, UploadServed
<1>4. CASE \E e \in Export : DeviceExport(e)
  BY <1>4, <1>b, ExportServed
<1>5. CASE \E c \in Call : Return(c)
  BY <1>5 DEF Return, CallsType, WireInv
<1>6. CASE \E c \in Call : Fail(c)
  BY <1>6 DEF Fail, CallsType, WireInv
<1>7. CASE \E c \in Call : Overload(c)
  BY <1>7 DEF Overload, CallsType, WireInv
<1>8. CASE Restart
  BY <1>8 DEF Restart, CallsType, WireInv
<1>9. CASE \E X \in SUBSET (uploads \cup exports) : Expire(X)
  BY <1>9 DEF Expire, CallsType, WireInv, calls
<1>10. CASE UNCHANGED vars
  BY <1>10 DEF vars, CallsType, WireInv, calls
<1> QED
  BY <1>1, <1>2, <1>3, <1>4, <1>5, <1>6, <1>7, <1>8, <1>9, <1>10, Actions DEF Acts, Housework

LEMMA AnswersKept ==
  ASSUME AnswersType, [Next]_vars
  PROVE  AnswersType'
<1>1. CASE HubKept \/ UNCHANGED vars
  BY <1>1 DEF AnswersType, HubKept, vars, answering, hubState
<1>2. CASE \E c \in Call : Return(c) \/ Fail(c) \/ Overload(c)
  BY <1>2 DEF AnswersType, Return, Fail, Overload, answering, hubState
<1> QED
  BY <1>1, <1>2, UploadAsks, ExportAsks, UploadServed, ExportServed, HouseworkKeeps, Actions DEF Acts

-------------------------------------------------------------------------------
\* The stages of the hub's handlers

LEMMA OthersUnsent ==
  ASSUME CallsType, NEW t, Sent(t), NEW s, s # t
  PROVE  \A c \in Own(s) : hub'[c] = hub[c] /\ dev'[c] = dev[c]
BY DEF Sent, Send, Own, calls, CallsType

LEMMA OthersUnserved ==
  ASSUME CallsType, NEW t, Served(t), NEW s, s # t
  PROVE  \A c \in Own(s) : dev'[c] = dev[c]
BY DEF Served, Handled, Step, Own, CallsType

\* The stage of a request depends on its handler and its own calls.
LEMMA StageKept ==
  ASSUME NEW t \in Transfer, UNCHANGED <<handler[t], told[t]>>, \A c \in Own(t) : hub'[c] = hub[c]
  PROVE  /\ t \in Upload /\ UploadStage(t) => UploadStage(t)'
         /\ t \in Export /\ ExportStage(t) => ExportStage(t)'
BY OwnCalls DEF UploadStage, ExportStage

\* Nor do answers to calls that are under way change it.
LEMMA StageAnswered ==
  ASSUME CallsType, StageInv, UNCHANGED answering, NEW c \in Call,
         hub[c] = "open", NEW x \in {"ok", "error"}, hub' = [hub EXCEPT ![c] = x]
  PROVE  StageInv'
<1>1. \A d \in Call : /\ hub[d] = "ok" => hub'[d] = "ok"
                      /\ hub[d] = "unused" <=> hub'[d] = "unused"
  BY DEF CallsType
<1>2. ASSUME NEW u \in Upload PROVE UploadStage(u)'
  <2>1. UploadStage(u)
    BY DEF StageInv
  <2>2. handler'[u] = handler[u] /\ told'[u] = told[u]
    BY DEF answering
  <2>3. Begin(u) \in Call /\ Commit(u) \in Call /\ Abort(u) \in Call
    BY CallsOf, Limits
  <2> QED
    BY <1>1, <2>1, <2>2, <2>3 DEF UploadStage
<1>3. ASSUME NEW e \in Export PROVE ExportStage(e)'
  <2>1. ExportStage(e)
    BY DEF StageInv
  <2>2. handler'[e] = handler[e] /\ told'[e] = told[e]
    BY DEF answering
  <2>3. Begin(e) \in Call
    BY CallsOf, Limits
  <2> QED
    BY <1>1, <2>1, <2>2, <2>3 DEF ExportStage
<1> QED
  BY <1>2, <1>3 DEF StageInv

LEMMA UploadStaged ==
  ASSUME CallsType, WireInv, AnswersType, NEW u \in Upload, UploadStage(u), HubUpload(u)
  PROVE  UploadStage(u)'
<1>1. /\ u \in Transfer
      /\ Begin(u) \in Call /\ Commit(u) \in Call /\ Abort(u) \in Call
      /\ Begin(u) # Commit(u) /\ Begin(u) # Abort(u) /\ Commit(u) # Abort(u)
  BY Limits, CallsOf, CallsDiffer
<1>2. \A C : Send(C) => /\ \A c \in Call \ C : hub'[c] = hub[c]
                       /\ \A c \in Call \cap C : hub'[c] = "open"
  BY Sends
<1>3. \A n : Chunk(u, n) \notin {Begin(u), Commit(u), Abort(u)}
  BY CallsDiffer
<1> USE <1>1 DEF AnswersType, UploadStage, Go, Tell, calls, answering
<1>4. CASE Decline(u)
  BY <1>4 DEF Decline
<1>5. CASE AcquireUpload(u)
  BY <1>5, <1>2 DEF AcquireUpload
<1>6. CASE UploadBegun(u)
  BY <1>6 DEF UploadBegun
<1>7. CASE BeginFails(u)
  BY <1>7 DEF BeginFails
<1>8. CASE SendChunk(u)
  BY <1>8, <1>2, <1>3 DEF SendChunk
<1>9. CASE BodyEnds(u)
  BY <1>9 DEF BodyEnds
<1>10. CASE GiveUp(u)
  BY <1>10, <1>2 DEF GiveUp
<1>11. CASE SendCommit(u)
  BY <1>11, <1>2 DEF SendCommit
<1>12. CASE UploadCreated(u)
  BY <1>12 DEF UploadCreated
<1>13. CASE CommitFails(u)
  BY <1>13, <1>2 DEF CommitFails
<1>14. CASE UploadEnds(u)
  BY <1>14 DEF UploadEnds
<1> QED
  BY <1>4, <1>5, <1>6, <1>7, <1>8, <1>9, <1>10, <1>11, <1>12, <1>13, <1>14 DEF HubUpload

LEMMA ExportStaged ==
  ASSUME CallsType, WireInv, AnswersType, NEW e \in Export, ExportStage(e), HubExport(e)
  PROVE  ExportStage(e)'
<1>1. e \in Transfer /\ Begin(e) \in Call /\ Begin(e) # Close(e)
  BY Limits, CallsOf, CallsDiffer
<1>2. \A C : Send(C) => /\ \A c \in Call \ C : hub'[c] = hub[c]
                       /\ \A c \in Call \cap C : hub'[c] = "open"
  BY Sends
<1>3. ASSUME NEW done, NEW flight, Fill(e, done, flight)
      PROVE  hub'[Begin(e)] = hub[Begin(e)]
  <2> DEFINE next == Len(done) + Len(flight) + 1
             last == IF ExportWindow < Len(flight) + size[e] + 1 - next
                       THEN next + ExportWindow - Len(flight) - 1 ELSE size[e]
             C == {Read(e, n) : n \in next..last}
  <2>1. Send(C)
    BY <1>3 DEF Fill
  <2>2. Begin(e) \notin C
    BY CallsDiffer
  <2> QED
    BY <1>1, <1>2, <2>1, <2>2
<1> USE <1>1 DEF AnswersType, ExportStage, Go, Tell, calls, answering
<1>4. CASE Decline(e)
  BY <1>4 DEF Decline
<1>5. CASE StartExport(e)
  BY <1>5, <1>2 DEF StartExport
<1>6. CASE ExportRefused(e)
  BY <1>6 DEF ExportRefused
<1>7. CASE ExportBegun(e)
  BY <1>7, <1>3 DEF ExportBegun
<1>8. CASE WritePiece(e)
  BY <1>8, <1>3 DEF WritePiece
<1>9. CASE PieceFails(e)
  BY <1>9, <1>2 DEF PieceFails
<1>10. CASE BrowserGone(e)
  BY <1>10, <1>2 DEF BrowserGone
<1>11. CASE ExportWritten(e)
  BY <1>11, <1>2 DEF ExportWritten
<1>12. CASE ExportEnds(e)
  BY <1>12 DEF ExportEnds
<1> QED
  BY <1>4, <1>5, <1>6, <1>7, <1>8, <1>9, <1>10, <1>11, <1>12 DEF HubExport

LEMMA StagesKept ==
  ASSUME CallsType, WireInv, AnswersType, StageInv, [Next]_vars
  PROVE  StageInv'
<1>a. ASSUME NEW t \in Transfer, HubStep(t),
             t \in Upload => UploadStage(t)', t \in Export => ExportStage(t)'
      PROVE  StageInv'
  <2>1. ASSUME NEW r \in Transfer, r # t
        PROVE  UNCHANGED <<handler[r], told[r]>> /\ \A c \in Own(r) : hub'[c] = hub[c]
    <3>1. UNCHANGED <<handler[r], told[r]>> /\ Sent(t)
      BY <1>a, <2>1 DEF HubStep
    <3> QED
      BY <2>1, <3>1, OthersUnsent
  <2> QED
    BY <1>a, <2>1, StageKept, Limits DEF StageInv
<1>1. CASE HubKept \/ UNCHANGED vars
  <2>1. UNCHANGED <<hub, handler, told>>
    BY <1>1 DEF HubKept, vars, calls, answering
  <2> QED
    BY <2>1 DEF StageInv, UploadStage, ExportStage
<1>2. CASE \E u \in Upload : HubUpload(u)
  <2>1. PICK u \in Upload : HubUpload(u)
    BY <1>2
  <2>2. UploadStage(u)' /\ HubStep(u) /\ u \in Transfer /\ u \notin Export
    BY <2>1, UploadStaged, UploadAsks, Limits DEF StageInv
  <2> QED
    BY <2>2, <1>a
<1>3. CASE \E e \in Export : HubExport(e)
  <2>1. PICK e \in Export : HubExport(e)
    BY <1>3
  <2>2. ExportStage(e)' /\ HubStep(e) /\ e \in Transfer /\ e \notin Upload
    BY <2>1, ExportStaged, ExportAsks, Limits DEF StageInv
  <2> QED
    BY <2>2, <1>a
<1>4. CASE \E c \in Call : Return(c)
  BY <1>4, StageAnswered DEF Return
<1>5. CASE \E c \in Call : Fail(c)
  BY <1>5, StageAnswered DEF Fail
<1>6. CASE \E c \in Call : Overload(c)
  BY <1>6 DEF Overload, answering, StageInv, UploadStage, ExportStage
<1> QED
  BY <1>1, <1>2, <1>3, <1>4, <1>5, <1>6, UploadServed, ExportServed, HouseworkKeeps, Actions DEF Acts

-------------------------------------------------------------------------------
\* The hub's count of a device's uploads

LEMMA HoldersCounted ==
  ASSUME AnswersType, HeldCounted, [Next]_vars
  PROVE  HeldCounted'
<1>1. IsFiniteSet(Holders) /\ Cardinality(Holders) \in Nat
  BY Limits, FS_Subset, FS_CardinalityType DEF Holders
<1>2. CASE HubKept \/ UNCHANGED vars \/ \E c \in Call : Return(c) \/ Fail(c) \/ Overload(c)
  <2>1. UNCHANGED <<held, handler>>
    BY <1>2 DEF HubKept, vars, hubState, answering, Return, Fail, Overload
  <2> QED
    BY <2>1 DEF HeldCounted, Holders
<1>3. CASE \E e \in Export : HubExport(e)
  <2>1. PICK e \in Export : HubExport(e)
    BY <1>3
  <2>2. UNCHANGED held /\ HubStep(e)
    BY <2>1, ExportAsks
  <2>3. \A u \in Upload : handler'[u] = handler[u]
    BY <2>2, Limits DEF HubStep
  <2> QED
    BY <2>2, <2>3 DEF HeldCounted, Holders
<1>4. CASE \E u \in Upload : HubUpload(u)
  <2>1. PICK u \in Upload : HubUpload(u)
    BY <1>4
  <2>2. /\ u \in Transfer
        /\ \A v \in Upload \ {u} : handler'[v] = handler[v]
    BY <2>1, UploadAsks, Limits DEF HubStep
  <2>3. CASE \/ Decline(u) \/ UploadBegun(u) \/ SendChunk(u) \/ BodyEnds(u)
             \/ GiveUp(u) \/ SendCommit(u) \/ CommitFails(u)
    <3>1. held' = held /\ (u \in Holders' <=> u \in Holders)
      BY <2>2, <2>3 DEF Decline, UploadBegun, SendChunk, BodyEnds, GiveUp, SendCommit,
        CommitFails, Go, Holders, hubState, answering, AnswersType
    <3>2. Holders' = Holders
      BY <2>2, <3>1 DEF Holders
    <3> QED
      BY <3>1, <3>2 DEF HeldCounted
  <2>4. CASE AcquireUpload(u)
    <3>1. u \notin Holders /\ Holders' = Holders \cup {u}
      BY <2>2, <2>4 DEF AcquireUpload, Go, Holders, AnswersType
    <3>2. Cardinality(Holders') = Cardinality(Holders) + 1
      BY <1>1, <3>1, FS_AddElement
    <3> QED
      BY <2>4, <3>2 DEF AcquireUpload, HeldCounted
  <2>5. CASE BeginFails(u) \/ UploadCreated(u) \/ UploadEnds(u)
    <3>1. u \in Holders /\ Holders' = Holders \ {u} /\ held' = held - 1
      BY <2>2, <2>5 DEF BeginFails, UploadCreated, UploadEnds, Go, Holders, AnswersType
    <3>2. Cardinality(Holders') = Cardinality(Holders) - 1
      BY <1>1, <3>1, FS_RemoveElement
    <3> QED
      BY <3>1, <3>2 DEF HeldCounted
  <2> QED
    BY <2>1, <2>3, <2>4, <2>5 DEF HubUpload
<1> QED
  BY <1>2, <1>3, <1>4, UploadServed, ExportServed, HouseworkKeeps, Actions DEF Acts

\* The count is within the limit, since there is no place to take at the limit.
LEMMA HeldKept ==
  ASSUME AnswersType, HeldInv, [Next]_vars
  PROVE  HeldInv'
<1>1. held \in Nat
  BY Limits, FS_Subset, FS_CardinalityType DEF Holders, HeldInv, HeldCounted
<1>2. held' = held \/ held' = held - 1 \/ (held < PerDevice /\ held' = held + 1)
  <2>1. CASE HubKept \/ UNCHANGED vars \/ \E c \in Call : Return(c) \/ Fail(c) \/ Overload(c)
    BY <2>1 DEF HubKept, vars, hubState, Return, Fail, Overload
  <2>2. CASE \E u \in Upload : HubUpload(u)
    BY <2>2 DEF HubUpload, Decline, AcquireUpload, UploadBegun, BeginFails, SendChunk,
        BodyEnds, GiveUp, SendCommit, UploadCreated, CommitFails, UploadEnds, hubState
  <2> QED
    BY <2>1, <2>2, ExportAsks, UploadServed, ExportServed, HouseworkKeeps, Actions DEF Acts
<1> QED
  BY <1>1, <1>2, Limits, HoldersCounted DEF HeldInv

-------------------------------------------------------------------------------
\* The device's tables keep their limits

LEMMA TablesShrink ==
  ASSUME TablesType, uploads' \subseteq uploads, exports' \subseteq exports
  PROVE  TablesType'
<1>1. IsFiniteSet(uploads) /\ IsFiniteSet(exports)
  BY Limits, FS_Subset DEF TablesType
<1>2. /\ Cardinality(uploads') <= Cardinality(uploads)
      /\ Cardinality(exports') <= Cardinality(exports)
  BY <1>1, FS_Subset
<1>3. /\ Cardinality(uploads) \in Nat /\ Cardinality(uploads') \in Nat
      /\ Cardinality(exports) \in Nat /\ Cardinality(exports') \in Nat
  BY <1>1, FS_Subset, FS_CardinalityType
<1> QED
  BY <1>2, <1>3, Limits DEF TablesType

\* An entry is added where there is room for it.
LEMMA AddsOne ==
  ASSUME NEW S, NEW T, IsFiniteSet(T), S \subseteq T, NEW x, NEW k \in Nat, Cardinality(S) < k
  PROVE  Cardinality(S \cup {x}) <= k
<1>1. IsFiniteSet(S)
  BY FS_Subset
<1>2. Cardinality(S) \in Nat /\ Cardinality(S \cup {x}) \in Nat
  BY <1>1, FS_CardinalityType, FS_AddElement
<1>3. Cardinality(S \cup {x}) = Cardinality(S) \/ Cardinality(S \cup {x}) = Cardinality(S) + 1
  BY <1>1, FS_AddElement
<1> QED
  BY <1>2, <1>3

LEMMA TablesKept ==
  ASSUME TablesType, AnswersType, [Next]_vars
  PROVE  TablesType'
<1>1. CASE UNCHANGED <<uploads, exports>>
  BY <1>1 DEF TablesType
<1>2. CASE \E u \in Upload : DeviceUpload(u)
  <2>1. PICK u \in Upload : DeviceUpload(u)
    BY <1>2
  <2>2. CASE \E X \in SUBSET (uploads \cup exports) : BeginUpload(u, X)
    <3>1. PICK X \in SUBSET (uploads \cup exports) : BeginUpload(u, X)
      BY <2>2
    <3>2. /\ Cardinality(uploads \ X) < MaxUploads
          /\ uploads' = (uploads \ X) \cup {u} /\ exports' = exports \ X
      BY <3>1 DEF BeginUpload
    <3>3. Cardinality(uploads') <= MaxUploads /\ uploads' \subseteq Upload
      BY <3>2, AddsOne, Limits DEF TablesType
    <3>4. Cardinality(exports') <= MaxExports /\ exports' \subseteq Export
      <4> DEFINE none == exports \ X
      <4>1. IsFiniteSet(exports) /\ IsFiniteSet(none) /\ Cardinality(none) <= Cardinality(exports)
        BY Limits, FS_Subset DEF TablesType
      <4>2. Cardinality(none) \in Nat /\ Cardinality(exports) \in Nat
        BY <4>1, FS_CardinalityType
      <4> QED
        BY <3>2, <4>1, <4>2, Limits DEF TablesType
    <3> QED
      BY <3>3, <3>4 DEF TablesType
  <2>3. CASE ~\E X \in SUBSET (uploads \cup exports) : BeginUpload(u, X)
    <3>1. uploads' \subseteq uploads /\ exports' \subseteq exports
      BY <2>1, <2>3 DEF DeviceUpload, FinishUpload, BeginRejected, LookUp, WriteChunk, WriteFails,
        RecordChunk, TakeUpload, TakeAborted, VerifyUpload, CloseUpload, CommitBreaks,
        RejectUpload, RenameUpload, RenameFails, RemoveAborted, Prune, device
    <3> QED
      BY <3>1, TablesShrink
  <2> QED
    BY <2>2, <2>3
<1>3. CASE \E e \in Export : DeviceExport(e)
  <2>1. PICK e \in Export : DeviceExport(e)
    BY <1>3
  <2>2. CASE \E n \in 0..MaxPieces[e] : AddExport(e, n)
    <3>1. Cardinality(exports) < MaxExports /\ exports' = exports \cup {e} /\ uploads' = uploads
      BY <2>2 DEF AddExport
    <3>2. Cardinality(exports') <= MaxExports /\ exports' \subseteq Export
      BY <3>1, AddsOne, Limits DEF TablesType
    <3> QED
      BY <3>1, <3>2 DEF TablesType
  <2>3. CASE ~\E n \in 0..MaxPieces[e] : AddExport(e, n)
    <3>1. uploads' \subseteq uploads /\ exports' \subseteq exports
      BY <2>1, <2>3 DEF DeviceExport, CheckExports, CaptureRejected, CloseExport, ReadExport, device
    <3> QED
      BY <3>1, TablesShrink
  <2> QED
    BY <2>2, <2>3
<1>4. CASE Housework
  <2>1. uploads' \subseteq uploads /\ exports' \subseteq exports
    BY <1>4 DEF Housework, Restart, Expire
  <2> QED
    BY <2>1, TablesShrink
<1>5. CASE UNCHANGED device \/ UNCHANGED vars
  BY <1>5, <1>1 DEF device, vars
<1>6. CASE \E c \in Call : Return(c) \/ Fail(c) \/ Overload(c)
  BY <1>6, <1>5 DEF Return, Fail, Overload
<1>7. CASE (\E u \in Upload : HubUpload(u)) \/ (\E e \in Export : HubExport(e))
  BY <1>7, <1>5, UploadAsks, ExportAsks DEF HubStep
<1> QED
  BY <1>2, <1>3, <1>4, <1>5, <1>6, <1>7, Actions DEF Acts

-------------------------------------------------------------------------------
\* Uploads on the device: whose files they are, and when a file is whole

OwnedFile(u) == file[u] = "part" \/ u \in open => Working(u)

ChunksSound(u) == \A n \in 1..Chunks[u] : dev[Chunk(u, n)] = "written" => n \in disk[u]

FileSound(u) == CommitSound(u) /\ OwnedFile(u) /\ ChunksSound(u)

LEMMA FilesSound == DeviceInv <=> \A u \in Upload : FileSound(u)
BY DEF DeviceInv, CommitInv, FilesAreOwned, ChunkInv, FileSound, OwnedFile, ChunksSound

\* What an upload loses when the entries X expire.
Loses(u, X) ==
  /\ u \in uploads' <=> u \in uploads \ X
  /\ u \in open' <=> u \in open \ X
  /\ file'[u] = IF u \in X /\ file[u] = "part" THEN "none" ELSE file[u]
  /\ disk'[u] = disk[u]

LEMMA BystanderSound ==
  ASSUME CallsType, NEW u \in Upload, NEW X, FileSound(u), Loses(u, X),
         \A c \in Own(u) : dev'[c] = dev[c]
  PROVE  FileSound(u)'
<1>1. /\ dev'[Commit(u)] = dev[Commit(u)] /\ dev'[Abort(u)] = dev[Abort(u)]
      /\ \A n \in 1..Chunks[u] : dev'[Chunk(u, n)] = dev[Chunk(u, n)]
  BY OwnCalls
<1>2. CommitSound(u)'
  BY <1>1 DEF FileSound, CommitSound, Loses
<1>3. OwnedFile(u)'
  BY <1>1 DEF FileSound, OwnedFile, Working, Loses
<1>4. ChunksSound(u)'
  BY <1>1 DEF FileSound, ChunksSound, Loses
<1> QED
  BY <1>2, <1>3, <1>4 DEF FileSound

\* Whatever only sends, refuses or loses calls leaves the files as they are.
LEMMA CallsOnly ==
  ASSUME CallsType, NEW u \in Upload, FileSound(u), Loses(u, {}),
         \A c \in {Commit(u), Abort(u)} :
            dev'[c] = dev[c] \/ (dev[c] \in {"none", "sent"} /\ dev'[c] \in {"sent", "found", "error"}),
         \A n \in 1..Chunks[u] : dev'[Chunk(u, n)] = "written" => dev[Chunk(u, n)] = "written"
  PROVE  FileSound(u)'
<1>1. CommitSound(u)'
  BY DEF FileSound, CommitSound, Loses
<1>2. OwnedFile(u)'
  BY DEF FileSound, OwnedFile, Working, Loses
<1>3. ChunksSound(u)'
  BY DEF FileSound, ChunksSound, Loses
<1> QED
  BY <1>1, <1>2, <1>3 DEF FileSound

\* What a step on one upload does to the others.
Spares(u) == \E X : \A v \in Upload \ {u} : Loses(v, X)

LEMMA UploadSpares ==
  ASSUME FilesType, NEW u \in Upload, DeviceUpload(u)
  PROVE  Spares(u)
<1>x. ASSUME NEW X, \A v \in Upload \ {u} : Loses(v, X) PROVE Spares(u)
  BY <1>x DEF Spares
<1> USE DEF Loses, WithoutParts, FilesType, files
<1>1. CASE \E X \in SUBSET (uploads \cup exports) : BeginUpload(u, X)
  <2>1. PICK X \in SUBSET (uploads \cup exports) : BeginUpload(u, X)
    BY <1>1
  <2>2. \A v \in Upload \ {u} : Loses(v, X)
    BY <2>1 DEF BeginUpload
  <2> QED
    BY <2>2, <1>x
<1>2. CASE \E X \in SUBSET (uploads \cup exports) : BeginRejected(u, X)
  <2>1. PICK X \in SUBSET (uploads \cup exports) : BeginRejected(u, X)
    BY <1>2
  <2>2. \A v \in Upload \ {u} : Loses(v, X)
    BY <2>1 DEF BeginRejected
  <2> QED
    BY <2>2, <1>x
<1>3. CASE \/ \E c \in Call : LookUp(u, c)
           \/ \E n \in 1..Chunks[u] : WriteChunk(u, n) \/ WriteFails(u, n) \/ RecordChunk(u, n)
  <2>1. \A v \in Upload \ {u} : Loses(v, {})
    BY <1>3 DEF LookUp, WriteChunk, WriteFails, RecordChunk, device
  <2> QED
    BY <2>1, <1>x
<1>4. CASE TakeUpload(u) \/ TakeAborted(u) \/ VerifyUpload(u) \/ CloseUpload(u) \/ CommitBreaks(u)
  <2>1. \A v \in Upload \ {u} : Loses(v, {})
    BY <1>4 DEF TakeUpload, TakeAborted, VerifyUpload, CloseUpload, CommitBreaks, device
  <2> QED
    BY <2>1, <1>x
<1>5. CASE RejectUpload(u) \/ RenameUpload(u) \/ RenameFails(u) \/ RemoveAborted(u) \/ Prune(u)
  <2>1. \A v \in Upload \ {u} : Loses(v, {})
    BY <1>5 DEF RejectUpload, RenameUpload, RenameFails, RemoveAborted, Prune
  <2> QED
    BY <2>1, <1>x
<1> QED
  BY <1>1, <1>2, <1>3, <1>4, <1>5 DEF DeviceUpload, FinishUpload

\* What begins has no commit yet: the hub sends it when the begin has returned.
LEMMA BeginsFirst ==
  ASSUME CallsType, WireInv, NEW u \in Upload, UploadStage(u), dev[Begin(u)] = "sent"
  PROVE  dev[Commit(u)] = "none"
BY CallsOf, Limits DEF WireInv, UploadStage

LEMMA UploadFilesType ==
  ASSUME FilesType, NEW u \in Upload, ChunksSound(u), DeviceUpload(u)
  PROVE  FilesType'
<1> USE DEF FilesType, WithoutParts, files
<1>1. CASE \E X \in SUBSET (uploads \cup exports) : BeginUpload(u, X) \/ BeginRejected(u, X)
  BY <1>1 DEF BeginUpload, BeginRejected
<1>2. CASE \E n \in 1..Chunks[u] : WriteChunk(u, n)
  <2>1. PICK n \in 1..Chunks[u] : WriteChunk(u, n)
    BY <1>2
  <2>2. /\ disk' = [disk EXCEPT ![u] = disk[u] \cup {n}]
        /\ open' = open /\ file' = file /\ written' = written
    BY <2>1 DEF WriteChunk
  <2>3. n \in Nat
    BY Limits
  <2>4. \A v \in Upload : disk'[v] = IF v = u THEN disk[u] \cup {n} ELSE disk[v]
    BY <2>2
  <2>5. disk' \in [Upload -> SUBSET Nat]
    BY <2>2, <2>3
  <2> QED
    BY <2>1, <2>2, <2>4, <2>5
<1>3. CASE \E n \in 1..Chunks[u] : RecordChunk(u, n)
  <2>1. PICK n \in 1..Chunks[u] : RecordChunk(u, n)
    BY <1>3
  <2>2. /\ written' = [written EXCEPT ![u] = written[u] \cup {n}]
        /\ open' = open /\ file' = file /\ disk' = disk /\ n \in disk[u]
    BY <2>1 DEF RecordChunk, Step, ChunksSound
  <2>3. n \in Nat
    BY Limits
  <2>4. \A v \in Upload : written'[v] = IF v = u THEN written[u] \cup {n} ELSE written[v]
    BY <2>2
  <2>5. written' \in [Upload -> SUBSET Nat]
    BY <2>2, <2>3
  <2> QED
    BY <2>2, <2>4, <2>5
<1>4. CASE (\E c \in Call : LookUp(u, c)) \/ (\E n \in 1..Chunks[u] : WriteFails(u, n))
  BY <1>4 DEF LookUp, WriteFails, device
<1>5. CASE TakeUpload(u) \/ TakeAborted(u) \/ VerifyUpload(u) \/ CloseUpload(u) \/ CommitBreaks(u)
  BY <1>5 DEF TakeUpload, TakeAborted, VerifyUpload, CloseUpload, CommitBreaks, device
<1>6. CASE RejectUpload(u) \/ RenameUpload(u) \/ RenameFails(u) \/ RemoveAborted(u)
  BY <1>6 DEF RejectUpload, RenameUpload, RenameFails, RemoveAborted
<1>7. CASE Prune(u)
  BY <1>7 DEF Prune
<1> QED
  BY <1>1, <1>2, <1>3, <1>4, <1>5, <1>6, <1>7 DEF DeviceUpload, FinishUpload

LEMMA UploadSound ==
  ASSUME CallsType, WireInv, FilesType, NEW u \in Upload, UploadStage(u), FileSound(u), DeviceUpload(u)
  PROVE  FileSound(u)'
<1> DEFINE B == Begin(u)  C == Commit(u)  A == Abort(u)  K(n) == Chunk(u, n)
<1>c. /\ B \in Call /\ C \in Call /\ A \in Call
      /\ \A n \in 1..Chunks[u] : K(n) \in Call
      /\ B # C /\ B # A /\ C # A
      /\ \A n : K(n) # B /\ K(n) # C /\ K(n) # A
      /\ \A m, n : K(m) = K(n) => m = n
  BY CallsOf, CallsDiffer, Limits
<1>f. /\ disk[u] \subseteq 1..Chunks[u]
      /\ dev[C] \in {"verified", "closed", "ok"} => disk[u] = 1..Chunks[u]
      /\ dev[C] = "closed" => u \notin open
      /\ dev[C] = "ok" <=> file[u] \in {"final", "pruned"}
      /\ file[u] = "part" \/ u \in open => Working(u)
      /\ \A n \in 1..Chunks[u] : dev[K(n)] = "written" => n \in disk[u]
  BY DEF FilesType, FileSound, CommitSound, OwnedFile, ChunksSound
<1> DEFINE Goal == /\ dev'[C] \in {"verified", "closed", "ok"} => disk'[u] = 1..Chunks[u]
                   /\ dev'[C] = "closed" => u \notin open'
                   /\ dev'[C] = "ok" <=> file'[u] \in {"final", "pruned"}
                   /\ file'[u] = "part" \/ u \in open' => Working(u)'
                   /\ \A n \in 1..Chunks[u] : dev'[K(n)] = "written" => n \in disk'[u]
<1>g. SUFFICES Goal
  BY DEF FileSound, CommitSound, OwnedFile, ChunksSound
<1>s. ASSUME NEW c \in Call, NEW s, NEW t, Step(c, s, t)
      PROVE  dev[c] = s /\ dev'[c] = t /\ \A d \in Call \ {c} : dev'[d] = dev[d]
  BY <1>s DEF Step, CallsType
<1>w. /\ Working(u) <=> \/ u \in uploads \/ dev[A] = "taken"
                        \/ dev[C] \in {"taken", "rejected", "verified", "closed"}
      /\ Working(u)' <=> \/ u \in uploads' \/ dev'[A] = "taken"
                         \/ dev'[C] \in {"taken", "rejected", "verified", "closed"}
  BY DEF Working
<1>p. \A X : WithoutParts(X)[u] = IF u \in X /\ file[u] = "part" THEN "none" ELSE file[u]
  BY DEF WithoutParts
<1> file \in [Upload -> {"none", "part", "left", "final", "pruned"}] /\ disk \in [Upload -> SUBSET Nat]
  BY DEF FilesType
<1> HIDE DEF B, C, A, K
<1>1. CASE \E X \in SUBSET (uploads \cup exports) : BeginUpload(u, X)
  <2>1. PICK X \in SUBSET (uploads \cup exports) : BeginUpload(u, X)
    BY <1>1
  <2>2. dev[C] = "none"
    BY <2>1, BeginsFirst DEF BeginUpload, Step, C
  <2>3. /\ dev'[C] = "none" /\ \A n \in 1..Chunks[u] : dev'[K(n)] = dev[K(n)]
    BY <2>1, <2>2, <1>c, <1>s DEF BeginUpload, B
  <2>4. file'[u] = "part" /\ u \in uploads' /\ disk' = disk
    BY <2>1 DEF BeginUpload, WithoutParts
  <2> QED
    BY <2>3, <2>4, <1>f, <1>w
<1>2. CASE \E X \in SUBSET (uploads \cup exports) : BeginRejected(u, X)
  <2>1. PICK X \in SUBSET (uploads \cup exports) : BeginRejected(u, X)
    BY <1>2
  <2>2. /\ dev'[C] = dev[C] /\ dev'[A] = dev[A]
        /\ \A n \in 1..Chunks[u] : dev'[K(n)] = dev[K(n)]
    BY <2>1, <1>c, <1>s DEF BeginRejected, B
  <2>3. /\ uploads' = uploads \ X /\ open' = open \ X /\ disk' = disk
        /\ file'[u] = IF u \in X /\ file[u] = "part" THEN "none" ELSE file[u]
    BY <2>1, <1>p DEF BeginRejected
  <2> QED
    BY <2>2, <2>3, <1>f, <1>w
<1>3. CASE \E c \in Call : LookUp(u, c)
  <2>1. PICK c \in Call : LookUp(u, c)
    BY <1>3
  <2>2. /\ dev[c] = "sent" /\ dev'[c] \in {"found", "error"}
        /\ \A d \in Call \ {c} : dev'[d] = dev[d]
    BY <2>1, <1>s DEF LookUp
  <2>3. c = C \/ \E n \in 1..Chunks[u] : c = K(n)
    BY <2>1 DEF LookUp, C, K
  <2>4. UNCHANGED <<uploads, open, file, disk>>
    BY <2>1 DEF LookUp, device, files
  <2> QED
    BY <2>2, <2>3, <2>4, <1>c, <1>f, <1>w
<1>4. CASE \E n \in 1..Chunks[u] : WriteChunk(u, n)
  <2>1. PICK n \in 1..Chunks[u] : WriteChunk(u, n)
    BY <1>4
  <2>2. dev'[C] = dev[C] /\ dev'[A] = dev[A] /\ \A m \in 1..Chunks[u] : m # n => dev'[K(m)] = dev[K(m)]
    BY <2>1, <1>c, <1>s DEF WriteChunk, K
  <2>3. /\ disk'[u] = disk[u] \cup {n}
        /\ UNCHANGED <<uploads, open, file>>
    BY <2>1 DEF WriteChunk
  <2> QED
    BY <2>2, <2>3, <1>f, <1>w
<1>5. CASE \E n \in 1..Chunks[u] : WriteFails(u, n) \/ RecordChunk(u, n)
  <2>1. PICK n \in 1..Chunks[u] : WriteFails(u, n) \/ RecordChunk(u, n)
    BY <1>5
  <2>2. /\ dev'[C] = dev[C] /\ dev'[A] = dev[A] /\ dev'[K(n)] \in {"ok", "error"}
        /\ \A m \in 1..Chunks[u] : m # n => dev'[K(m)] = dev[K(m)]
    BY <2>1, <1>c, <1>s DEF WriteFails, RecordChunk, K
  <2>3. UNCHANGED <<uploads, open, file, disk>>
    BY <2>1 DEF WriteFails, RecordChunk, device, files
  <2> QED
    BY <2>2, <2>3, <1>f, <1>w
<1>6. CASE TakeUpload(u)
  <2>1. /\ dev[C] = "found" /\ dev'[C] \in {"taken", "rejected"}
        /\ dev'[A] = dev[A] /\ \A n \in 1..Chunks[u] : dev'[K(n)] = dev[K(n)]
    BY <1>6, <1>c, <1>s DEF TakeUpload, C
  <2>2. uploads' = uploads \ {u} /\ UNCHANGED <<open, file, disk>>
    BY <1>6, <1>p DEF TakeUpload, device, files
  <2> QED
    BY <2>1, <2>2, <1>f, <1>w
<1>7. CASE VerifyUpload(u)
  <2>1. /\ dev[C] = "taken" /\ dev'[C] = "verified"
        /\ dev'[A] = dev[A] /\ \A n \in 1..Chunks[u] : dev'[K(n)] = dev[K(n)]
    BY <1>7, <1>c, <1>s DEF VerifyUpload, C
  <2>2. disk[u] = 1..Chunks[u] /\ UNCHANGED <<uploads, open, file, disk>>
    BY <1>7, <1>p DEF VerifyUpload, device, files
  <2> QED
    BY <2>1, <2>2, <1>f, <1>w
<1>8. CASE CloseUpload(u)
  <2>1. /\ dev[C] = "verified" /\ dev'[C] = "closed"
        /\ dev'[A] = dev[A] /\ \A n \in 1..Chunks[u] : dev'[K(n)] = dev[K(n)]
    BY <1>8, <1>c, <1>s DEF CloseUpload, C
  <2>2. open' = open \ {u} /\ UNCHANGED <<uploads, file, disk>>
    BY <1>8, <1>p DEF CloseUpload, device, files
  <2> QED
    BY <2>1, <2>2, <1>f, <1>w
<1>9. CASE CommitBreaks(u)
  <2>1. /\ dev[C] \in {"taken", "verified"} /\ dev'[C] = "rejected"
        /\ dev'[A] = dev[A] /\ \A n \in 1..Chunks[u] : dev'[K(n)] = dev[K(n)]
    BY <1>9, <1>c, <1>s DEF CommitBreaks, C
  <2>2. UNCHANGED <<uploads, open, file, disk>>
    BY <1>9, <1>p DEF CommitBreaks, device, files
  <2> QED
    BY <2>1, <2>2, <1>f, <1>w
<1>10. CASE RejectUpload(u)
  <2>1. /\ dev[C] = "rejected" /\ dev'[C] = "error"
        /\ dev'[A] = dev[A] /\ \A n \in 1..Chunks[u] : dev'[K(n)] = dev[K(n)]
    BY <1>10, <1>c, <1>s DEF RejectUpload, C
  <2>2. /\ file'[u] = IF file[u] = "part" THEN "none" ELSE file[u]
        /\ open' = open \ {u} /\ UNCHANGED <<uploads, disk>>
    BY <1>10, <1>p DEF RejectUpload, device, files
  <2> QED
    BY <2>1, <2>2, <1>f, <1>w
<1>11. CASE RenameUpload(u)
  <2>1. /\ dev[C] = "closed" /\ dev'[C] = "ok"
        /\ dev'[A] = dev[A] /\ \A n \in 1..Chunks[u] : dev'[K(n)] = dev[K(n)]
    BY <1>11, <1>c, <1>s DEF RenameUpload, C
  <2>2. file'[u] = "final" /\ UNCHANGED <<uploads, open, disk>>
    BY <1>11, <1>p DEF RenameUpload, device, files
  <2> QED
    BY <2>1, <2>2, <1>f, <1>w
<1>12. CASE RenameFails(u)
  <2>1. /\ dev[C] = "closed" /\ dev'[C] = "error"
        /\ dev'[A] = dev[A] /\ \A n \in 1..Chunks[u] : dev'[K(n)] = dev[K(n)]
    BY <1>12, <1>c, <1>s DEF RenameFails, C
  <2>2. /\ file'[u] = IF file[u] = "part" THEN "none" ELSE file[u]
        /\ UNCHANGED <<uploads, open, disk>>
    BY <1>12, <1>p DEF RenameFails, device, files
  <2> QED
    BY <2>1, <2>2, <1>f, <1>w
<1>13. CASE TakeAborted(u)
  <2>1. /\ dev[A] = "sent" /\ dev'[A] = IF u \in uploads THEN "taken" ELSE "ok"
        /\ dev'[C] = dev[C] /\ \A n \in 1..Chunks[u] : dev'[K(n)] = dev[K(n)]
    BY <1>13, <1>c, <1>s DEF TakeAborted, A
  <2>2. uploads' = uploads \ {u} /\ UNCHANGED <<open, file, disk>>
    BY <1>13, <1>p DEF TakeAborted, device, files
  <2> QED
    BY <2>1, <2>2, <1>f, <1>w
<1>14. CASE RemoveAborted(u)
  <2>1. /\ dev[A] = "taken" /\ dev'[A] = "ok"
        /\ dev'[C] = dev[C] /\ \A n \in 1..Chunks[u] : dev'[K(n)] = dev[K(n)]
    BY <1>14, <1>c, <1>s DEF RemoveAborted, A
  <2>2. /\ file'[u] = IF file[u] = "part" THEN "none" ELSE file[u]
        /\ open' = open \ {u} /\ UNCHANGED <<uploads, disk>>
    BY <1>14, <1>p DEF RemoveAborted, device, files
  <2> QED
    BY <2>1, <2>2, <1>f, <1>w
<1>15. CASE Prune(u)
  <2>1. /\ file[u] \in {"left", "final"} /\ dev' = dev /\ UNCHANGED <<uploads, open, disk>>
        /\ file'[u] = IF file[u] = "final" THEN "pruned" ELSE "none"
    BY <1>15 DEF Prune, calls
  <2> QED
    BY <2>1, <1>f, <1>w
<1> QED
  BY <1>1, <1>2, <1>3, <1>4, <1>5, <1>6, <1>7, <1>8, <1>9, <1>10, <1>11, <1>12, <1>13, <1>14, <1>15 DEF DeviceUpload, FinishUpload

\* The hub sends the commit and the abort of an upload once.
LEMMA SendsOnce ==
  ASSUME CallsType, WireInv, NEW u \in Upload, UploadStage(u), HubUpload(u),
         NEW c \in {Commit(u), Abort(u)}
  PROVE  dev'[c] = dev[c] \/ (dev[c] = "none" /\ dev'[c] = "sent")
<1>1. /\ Commit(u) \in Call /\ Abort(u) \in Call
      /\ Commit(u) # Begin(u) /\ Abort(u) # Begin(u) /\ Commit(u) # Abort(u)
      /\ \A n : Chunk(u, n) # Commit(u) /\ Chunk(u, n) # Abort(u)
  BY CallsOf, CallsDiffer
<1>2. \A C : Send(C) => /\ \A d \in Call \ C : dev'[d] = dev[d]
                       /\ \A d \in Call \cap C : dev'[d] = "sent"
  BY Sends
<1>3. hub[c] = "unused" => dev[c] = "none"
  BY <1>1 DEF WireInv
<1>4. CASE GiveUp(u) \/ CommitFails(u)
  <2>1. hub[Abort(u)] = "unused" /\ Send({Abort(u)})
    BY <1>4 DEF GiveUp, CommitFails, Go, UploadStage
  <2> QED
    BY <2>1, <1>1, <1>2, <1>3
<1>5. CASE SendCommit(u)
  <2>1. hub[Commit(u)] = "unused" /\ Send({Commit(u)})
    BY <1>5 DEF SendCommit, Go, UploadStage
  <2> QED
    BY <2>1, <1>1, <1>2, <1>3
<1>6. CASE AcquireUpload(u) \/ SendChunk(u)
  <2>1. \E C : Send(C) /\ Commit(u) \notin C /\ Abort(u) \notin C
    BY <1>6, <1>1 DEF AcquireUpload, SendChunk
  <2> QED
    BY <2>1, <1>1, <1>2
<1>7. CASE \/ Decline(u) \/ UploadBegun(u) \/ BeginFails(u) \/ BodyEnds(u)
           \/ UploadCreated(u) \/ UploadEnds(u)
  BY <1>7 DEF Decline, UploadBegun, BeginFails, BodyEnds, UploadCreated, UploadEnds, calls
<1> QED
  BY <1>4, <1>5, <1>6, <1>7 DEF HubUpload

\* A step of the device on one request leaves every file sound.
LEMMA ServedSound ==
  ASSUME CallsType, DeviceInv, NEW t, Served(t), NEW X,
         \A u \in Upload \ {t} : Loses(u, X), t \in Upload => FileSound(t)'
  PROVE  DeviceInv'
<1>1. ASSUME NEW u \in Upload \ {t} PROVE FileSound(u)'
  <2>1. \A c \in Own(u) : dev'[c] = dev[c]
    BY OthersUnserved
  <2>2. FileSound(u)
    BY FilesSound
  <2> QED
    BY <2>1, <2>2, BystanderSound
<1>2. \A u \in Upload : FileSound(u)'
  BY <1>1
<1> QED
  BY <1>2 DEF DeviceInv, CommitInv, FilesAreOwned, ChunkInv, FileSound, OwnedFile, ChunksSound

\* A step that leaves the device's tables and files alone.
LEMMA CallsSound ==
  ASSUME CallsType, DeviceInv, UNCHANGED device,
         \A u \in Upload : \A c \in {Commit(u), Abort(u)} :
            dev'[c] = dev[c] \/ (dev[c] \in {"none", "sent"} /\ dev'[c] \in {"sent", "found", "error"}),
         \A c \in Call : dev'[c] = "written" => dev[c] = "written"
  PROVE  DeviceInv'
<1>1. ASSUME NEW u \in Upload PROVE FileSound(u)'
  <2>1. FileSound(u)
    BY FilesSound
  <2>2. Loses(u, {})
    BY DEF Loses, device, files
  <2>3. \A n \in 1..Chunks[u] : dev'[Chunk(u, n)] = "written" => dev[Chunk(u, n)] = "written"
    BY CallsOf
  <2> QED
    BY <2>1, <2>2, <2>3, CallsOnly
<1> QED
  BY <1>1 DEF DeviceInv, CommitInv, FilesAreOwned, ChunkInv, FileSound, OwnedFile, ChunksSound

LEMMA DeviceKept ==
  ASSUME CallsType, WireInv, AnswersType, FilesType, StageInv, DeviceInv, [Next]_vars
  PROVE  FilesType' /\ DeviceInv'
<1>f. UNCHANGED files => FilesType'
  BY DEF FilesType, files
<1>a. ASSUME NEW t, Sent(t)
      PROVE  \A c \in Call : dev'[c] = dev[c] \/ dev'[c] = "sent"
  BY <1>a DEF Sent, Send, calls, CallsType
<1>1. CASE \E u \in Upload : HubUpload(u)
  <2>1. PICK u \in Upload : HubUpload(u)
    BY <1>1
  <2>2. UNCHANGED device /\ Sent(u)
    BY <2>1, UploadAsks DEF HubStep
  <2>3. ASSUME NEW v \in Upload, NEW c \in {Commit(v), Abort(v)}
        PROVE  dev'[c] = dev[c] \/ (dev[c] = "none" /\ dev'[c] = "sent")
    <3>1. CASE v = u
      BY <2>1, <3>1, SendsOnce DEF StageInv
    <3>2. CASE v # u
      <4>1. \A d \in Own(v) : dev'[d] = dev[d]
        BY <2>2, <3>2, OthersUnsent
      <4> QED
        BY <4>1, OwnCalls
    <3> QED
      BY <3>1, <3>2
  <2>4. DeviceInv'
    BY <1>a, <2>2, <2>3, CallsSound
  <2> QED
    BY <1>f, <2>2, <2>4 DEF device
<1>2. CASE \E e \in Export : HubExport(e)
  <2>1. PICK e \in Export : HubExport(e)
    BY <1>2
  <2>2. UNCHANGED device /\ Sent(e)
    BY <2>1, ExportAsks DEF HubStep
  <2>3. ASSUME NEW v \in Upload, NEW c \in {Commit(v), Abort(v)}
        PROVE  dev'[c] = dev[c]
    <3>1. v # e
      BY Limits
    <3>2. \A d \in Own(v) : dev'[d] = dev[d]
      BY <2>2, <3>1, OthersUnsent
    <3> QED
      BY <3>2, OwnCalls
  <2>4. DeviceInv'
    BY <1>a, <2>2, <2>3, CallsSound
  <2> QED
    BY <1>f, <2>2, <2>4 DEF device
<1>3. CASE \E u \in Upload : DeviceUpload(u)
  <2>1. PICK u \in Upload : DeviceUpload(u)
    BY <1>3
  <2>2. UploadStage(u) /\ FileSound(u) /\ ChunksSound(u)
    BY FilesSound DEF StageInv, FileSound
  <2>3. FileSound(u)' /\ FilesType' /\ Spares(u) /\ Served(u)
    BY <2>1, <2>2, UploadSound, UploadFilesType, UploadSpares, UploadServed
  <2>4. DeviceInv'
    BY <2>3, ServedSound DEF Spares
  <2> QED
    BY <2>3, <2>4
<1>4. CASE \E e \in Export : DeviceExport(e)
  <2>1. PICK e \in Export : DeviceExport(e)
    BY <1>4
  <2>2. FilesType' /\ \E X : \A u \in Upload : Loses(u, X)
    <3>1. CASE \E X \in SUBSET (uploads \cup exports) : CheckExports(e, X)
      <4>1. PICK X \in SUBSET (uploads \cup exports) : CheckExports(e, X)
        BY <3>1
      <4>2. \A u \in Upload : Loses(u, X)
        BY <4>1 DEF CheckExports, Loses, WithoutParts
      <4>3. FilesType'
        BY <4>1 DEF CheckExports, FilesType, WithoutParts
      <4> QED
        BY <4>2, <4>3
    <3>2. CASE \/ \E n \in 0..MaxPieces[e] : AddExport(e, n)
               \/ CaptureRejected(e) \/ CloseExport(e)
               \/ \E n \in 1..MaxPieces[e] : ReadExport(e, n)
      <4>1. UNCHANGED files /\ UNCHANGED uploads
        BY <3>2 DEF AddExport, CaptureRejected, CloseExport, ReadExport, device
      <4>2. \A u \in Upload : Loses(u, {})
        BY <4>1 DEF Loses, files
      <4> QED
        BY <4>1, <4>2, <1>f
    <3> QED
      BY <2>1, <3>1, <3>2 DEF DeviceExport
  <2>3. Served(e) /\ e \notin Upload
    BY <2>1, ExportServed, Limits
  <2>4. DeviceInv'
    BY <2>2, <2>3, ServedSound
  <2> QED
    BY <2>2, <2>4
<1>5. CASE \E c \in Call : Return(c) \/ Fail(c)
  <2>1. dev' = dev /\ UNCHANGED device
    BY <1>5 DEF Return, Fail
  <2> QED
    BY <1>f, <2>1, CallsSound DEF device
<1>6. CASE \E c \in Call : Overload(c)
  <2>1. /\ UNCHANGED device
        /\ \A d \in Call : dev'[d] = dev[d] \/ (dev[d] = "sent" /\ dev'[d] = "error")
    BY <1>6 DEF Overload, CallsType
  <2> QED
    BY <1>f, <2>1, CallsSound, CallsOf DEF device
<1>7. CASE Restart
  <2>1. FilesType'
    BY <1>7 DEF Restart, FilesType
  <2>2. ASSUME NEW u \in Upload PROVE FileSound(u)'
    <3>1. /\ Commit(u) \in Call /\ \A n \in 1..Chunks[u] : Chunk(u, n) \in Call
          /\ FileSound(u)
      BY CallsOf, FilesSound
    <3>2. \A c \in Call : dev'[c] = IF dev[c] \in {"none", "ok"} THEN dev[c] ELSE "error"
      BY <1>7 DEF Restart
    <3>3. /\ file'[u] = IF file[u] = "part" THEN "left" ELSE file[u]
          /\ disk' = disk /\ open' = {}
      BY <1>7 DEF Restart
    <3> QED
      BY <3>1, <3>2, <3>3 DEF FileSound, CommitSound, OwnedFile, ChunksSound
  <2>3. DeviceInv'
    BY <2>2 DEF DeviceInv, CommitInv, FilesAreOwned, ChunkInv, FileSound, OwnedFile, ChunksSound
  <2> QED
    BY <2>1, <2>3
<1>8. CASE \E X \in SUBSET (uploads \cup exports) : Expire(X)
  <2>1. PICK X \in SUBSET (uploads \cup exports) : Expire(X)
    BY <1>8
  <2>2. FilesType'
    BY <2>1 DEF Expire, FilesType, WithoutParts
  <2>3. ASSUME NEW u \in Upload PROVE FileSound(u)'
    <3>1. Loses(u, X) /\ dev' = dev
      BY <2>1 DEF Expire, Loses, WithoutParts, calls
    <3>2. FileSound(u)
      BY FilesSound
    <3> QED
      BY <3>1, <3>2, BystanderSound
  <2>4. DeviceInv'
    BY <2>3 DEF DeviceInv, CommitInv, FilesAreOwned, ChunkInv, FileSound, OwnedFile, ChunksSound
  <2> QED
    BY <2>2, <2>4
<1>9. CASE UNCHANGED vars
  <2>1. dev' = dev /\ UNCHANGED device
    BY <1>9 DEF vars, calls
  <2> QED
    BY <1>f, <2>1, CallsSound DEF device
<1> QED
  BY <1>1, <1>2, <1>3, <1>4, <1>5, <1>6, <1>7, <1>8, <1>9, Actions DEF Acts, Housework

-------------------------------------------------------------------------------
\* Exports: the pieces in flight continue those written

LEMMA Counts ==
  ASSUME NEW n \in Nat, NEW k \in Nat \ {0}
  PROVE  /\ [i \in 1..n |-> k + i - 1] \in Seq(Nat)
         /\ Len([i \in 1..n |-> k + i - 1]) = n
         /\ \A i \in 1..n : [j \in 1..n |-> k + j - 1][i] = k + i - 1
OBVIOUS

\* How many reads `fill` starts when k pieces are written, m are in flight and the
\* history has z: the window is kept, and with no read in flight all is written.
LEMMA FillsWindow ==
  ASSUME NEW k \in Nat, NEW m \in Nat, NEW z \in Nat, NEW w \in Nat \ {0}, k + m <= z, m <= w,
         NEW n, n = (IF w < m + z + 1 - (k + m + 1) THEN (k + m + 1) + w - m - 1 ELSE z) - (k + m + 1) + 1
  PROVE  n \in Nat /\ m + n <= w /\ k + m + n <= z /\ (m + n = 0 => k = z)
OBVIOUS

LEMMA Fills ==
  ASSUME NEW e \in Export, PiecesType, NEW done \in Seq(Nat), NEW flight \in Seq(Nat),
         Len(done) + Len(flight) <= size[e], Len(flight) <= ExportWindow,
         InOrder(flight, Len(done)), Fill(e, done, flight)
  PROVE  /\ body' = [body EXCEPT ![e] = done]
         /\ \A d \in Export \ {e} : inFlight'[d] = inFlight[d]
         /\ inFlight' \in [Export -> Seq(Nat)]
         /\ Len(inFlight'[e]) <= ExportWindow
         /\ Len(done) + Len(inFlight'[e]) <= size[e]
         /\ InOrder(inFlight'[e], Len(done))
         /\ inFlight'[e] = <<>> => Len(done) = size[e]
         /\ \E C : /\ Send(C)
                  /\ \A c \in C : \E i \in (Len(done) + Len(flight) + 1)..size[e] :
                       c = Read(e, i) /\ i <= Len(done) + Len(inFlight'[e])
         /\ Len(done) + Len(flight) <= Len(done) + Len(inFlight'[e])
<1> DEFINE k == Len(done)
           m == Len(flight)
           z == size[e]
           w == ExportWindow
           next == k + m + 1
           last == IF w < m + z + 1 - next THEN next + w - m - 1 ELSE z
           n == last - next + 1
           more == [i \in 1..n |-> next + i - 1]
           all == flight \o more
<1>1. k \in Nat /\ m \in Nat /\ z \in Nat /\ w \in Nat \ {0} /\ k + m <= z /\ m <= w
  BY LenProperties, Limits DEF PiecesType
<1>2. /\ body' = [body EXCEPT ![e] = done]
      /\ inFlight' = [inFlight EXCEPT ![e] = all]
      /\ Send({Read(e, i) : i \in next..last})
  BY DEF Fill
<1>3. \A i \in 1..m : flight[i] = k + i
  BY DEF InOrder
<1> HIDE DEF k, m, z, w
<1>4. n \in Nat /\ m + n <= w /\ k + m + n <= z /\ (m + n = 0 => k = z)
  BY <1>1, FillsWindow
<1>5. next \in Nat \ {0}
  BY <1>1
<1>16. last = k + m + n /\ next = k + m + 1
  BY <1>1
<1> HIDE DEF n, next, last
<1>6. more \in Seq(Nat) /\ Len(more) = n /\ \A i \in 1..n : more[i] = next + i - 1
  BY <1>4, <1>5, Counts
<1> HIDE DEF more
<1>7. /\ all \in Seq(Nat) /\ Len(all) = m + n
      /\ \A i \in 1..(m + n) : all[i] = IF i <= m THEN flight[i] ELSE more[i - m]
  BY <1>6, ConcatProperties DEF m
<1>8. \A i \in 1..(m + n) : all[i] = k + i
  <2> SUFFICES ASSUME NEW i \in 1..(m + n) PROVE all[i] = k + i
    OBVIOUS
  <2>1. CASE i <= m
    BY <1>1, <1>3, <1>4, <1>7, <2>1
  <2>2. CASE ~(i <= m)
    <3>1. all[i] = more[i - m] /\ i - m \in 1..n
      BY <1>1, <1>4, <1>7, <2>2
    <3>2. more[i - m] = next + (i - m) - 1
      BY <3>1, <1>6
    <3> QED
      BY <1>1, <3>1, <3>2 DEF next
  <2> QED
    BY <2>1, <2>2
<1>9. inFlight'[e] = all /\ inFlight' \in [Export -> Seq(Nat)]
  BY <1>2, <1>7 DEF PiecesType
<1> HIDE DEF all
<1>10. all = <<>> => m + n = 0
  BY <1>7, EmptySeq
<1>11. InOrder(all, k)
  BY <1>7, <1>8 DEF InOrder
<1>12. \A d \in Export \ {e} : inFlight'[d] = inFlight[d]
  BY <1>2 DEF PiecesType
<1>13. Len(inFlight'[e]) <= w /\ k + Len(inFlight'[e]) <= z
  BY <1>1, <1>4, <1>7, <1>9
<1>14. inFlight'[e] = <<>> => k = z
  BY <1>4, <1>9, <1>10
<1>15. InOrder(inFlight'[e], k)
  BY <1>9, <1>11
<1>17. /\ k + m <= k + Len(inFlight'[e]) /\ last <= k + Len(inFlight'[e]) /\ last <= z
       /\ last \in Nat /\ next = k + m + 1
  BY <1>1, <1>4, <1>7, <1>9, <1>16
<1>18. \A i \in next..last : i \in (k + m + 1)..z /\ i <= k + Len(inFlight'[e])
  <2>1. Len(inFlight'[e]) \in Nat
    BY <1>7, <1>9, <1>1, <1>4
  <2> QED
    BY <1>1, <1>17, <2>1
<1>19. \E C : /\ Send(C)
              /\ \A c \in C : \E i \in (k + m + 1)..z : c = Read(e, i) /\ i <= k + Len(inFlight'[e])
  <2> DEFINE C == {Read(e, i) : i \in next..last}
  <2>1. \A c \in C : \E i \in (k + m + 1)..z : c = Read(e, i) /\ i <= k + Len(inFlight'[e])
    BY <1>18
  <2>2. Send(C)
    BY <1>2
  <2> QED
    BY <2>1, <2>2
<1> QED
  BY <1>2, <1>9, <1>12, <1>13, <1>14, <1>15, <1>17, <1>19 DEF k, m, z, w

\* An export nothing happens to, but for an answer to one of its calls.
LEMMA PiecesStay ==
  ASSUME NEW e \in Export, PiecesSound(e),
         UNCHANGED <<body[e], inFlight[e], size[e], handler[e], told[e]>>,
         hub[Begin(e)] = "ok" => hub'[Begin(e)] = "ok"
  PROVE  PiecesSound(e)'
BY DEF PiecesSound, InOrder

\* The next piece moves from those in flight to those written.
LEMMA Moves ==
  ASSUME NEW b \in Seq(Nat), NEW q \in Seq(Nat), q # <<>>,
         \A i \in 1..Len(b) : b[i] = i, InOrder(q, Len(b))
  PROVE  /\ Append(b, Head(q)) \in Seq(Nat) /\ Tail(q) \in Seq(Nat)
         /\ Len(Append(b, Head(q))) = Len(b) + 1 /\ Len(Tail(q)) = Len(q) - 1
         /\ \A i \in 1..(Len(b) + 1) : Append(b, Head(q))[i] = i
         /\ InOrder(Tail(q), Len(b) + 1)
<1> DEFINE k == Len(b)
           m == Len(q)
<1>1. /\ Head(q) = q[1] /\ Head(q) \in Nat /\ Tail(q) \in Seq(Nat)
      /\ Len(Tail(q)) = m - 1 /\ m \in Nat /\ m > 0
      /\ \A i \in 1..(m - 1) : Tail(q)[i] = q[i + 1]
  BY HeadTailProperties, LenProperties, EmptySeq
<1>2. k \in Nat
  BY LenProperties
<1>3. /\ Append(b, Head(q)) \in Seq(Nat) /\ Len(Append(b, Head(q))) = k + 1
      /\ \A i \in 1..k : Append(b, Head(q))[i] = b[i]
      /\ Append(b, Head(q))[k + 1] = Head(q)
  BY <1>1, <1>2, AppendProperties
<1>4. /\ \A i \in 1..k : b[i] = i
      /\ \A i \in 1..m : q[i] = k + i
  BY DEF InOrder
<1> HIDE DEF k, m
<1>5. \A i \in 1..(k + 1) : Append(b, Head(q))[i] = i
  <2> SUFFICES ASSUME NEW i \in 1..(k + 1) PROVE Append(b, Head(q))[i] = i
    OBVIOUS
  <2>1. i \in 1..k \/ i = k + 1
    BY <1>2
  <2>2. q[1] = k + 1
    BY <1>1, <1>4
  <2> QED
    BY <1>1, <1>3, <1>4, <2>1, <2>2
<1>6. \A i \in 1..(m - 1) : Tail(q)[i] = k + 1 + i
  <2> SUFFICES ASSUME NEW i \in 1..(m - 1) PROVE Tail(q)[i] = k + 1 + i
    OBVIOUS
  <2>1. i + 1 \in 1..m
    BY <1>1
  <2>2. q[i + 1] = k + (i + 1)
    BY <1>4, <2>1
  <2> QED
    BY <1>1, <1>2, <2>2
<1> QED
  BY <1>1, <1>3, <1>5, <1>6 DEF InOrder, k, m

\* What `fill` is called with: the pieces written and those still in flight.
Filling(e, done, flight) ==
  /\ Len(done) + Len(flight) <= size[e] /\ Len(flight) <= ExportWindow
  /\ Len(done) + Len(flight) = Len(body[e]) + Len(inFlight[e])
  /\ \A i \in 1..Len(done) : done[i] = i
  /\ InOrder(flight, Len(done))
  /\ Fill(e, done, flight)

LEMMA FillsInOrder ==
  ASSUME AnswersType, PiecesType, NEW e \in Export, ExportStage(e), PiecesSound(e),
         ExportBegun(e) \/ WritePiece(e)
  PROVE  /\ hub[Begin(e)] = "ok" /\ told[e] # "complete" /\ told' = told
         /\ handler'[e] \in {"reading", "writing"}
         /\ \E done, flight \in Seq(Nat) : Filling(e, done, flight)
<1>t. e \in Transfer
  BY Limits
<1>q. body[e] \in Seq(Nat) /\ inFlight[e] \in Seq(Nat) /\ Len(inFlight[e]) <= ExportWindow
  BY DEF PiecesType
<1>4. CASE ExportBegun(e)
  <2>1. /\ hub[Begin(e)] = "ok" /\ handler[e] = "beginning" /\ handler'[e] \in {"reading", "writing"}
        /\ told' = told /\ Fill(e, <<>>, <<>>)
    BY <1>4, <1>t DEF ExportBegun, Go, AnswersType
  <2>2. told[e] # "complete" /\ size[e] \in Nat
    BY <2>1 DEF ExportStage, PiecesType
  <2> DEFINE nil == <<>>
  <2>3. nil \in Seq(Nat) /\ Len(nil) = 0 /\ Fill(e, nil, nil)
    BY <2>1, EmptySeq
  <2> HIDE DEF nil
  <2>4. Len(nil) + Len(nil) <= size[e] /\ Len(nil) <= ExportWindow
    BY <2>2, <2>3, Limits
  <2>5. (\A i \in 1..Len(nil) : nil[i] = i) /\ InOrder(nil, Len(nil))
    BY <2>3 DEF InOrder
  <2>6. Len(nil) + Len(nil) = Len(body[e]) + Len(inFlight[e])
    BY <2>1, <2>3 DEF PiecesSound, nil
  <2> QED
    BY <2>1, <2>2, <2>3, <2>4, <2>5, <2>6 DEF Filling
<1>5. CASE WritePiece(e)
  <2> DEFINE done == Append(body[e], Head(inFlight[e]))
             flight == Tail(inFlight[e])
  <2>1. /\ handler[e] \in {"reading", "writing"} /\ inFlight[e] # <<>> /\ told' = told
        /\ handler'[e] = "writing" /\ Fill(e, done, flight)
    BY <1>5, <1>t DEF WritePiece, AnswersType
  <2>2. hub[Begin(e)] = "ok" /\ told[e] # "complete"
    BY <2>1 DEF ExportStage
  <2>3. /\ \A i \in 1..Len(body[e]) : body[e][i] = i
        /\ InOrder(inFlight[e], Len(body[e]))
        /\ Len(body[e]) + Len(inFlight[e]) <= size[e]
    BY DEF PiecesSound
  <2>4. /\ done \in Seq(Nat) /\ flight \in Seq(Nat)
        /\ Len(done) = Len(body[e]) + 1 /\ Len(flight) = Len(inFlight[e]) - 1
        /\ \A i \in 1..(Len(body[e]) + 1) : done[i] = i
        /\ InOrder(flight, Len(body[e]) + 1)
    BY <1>q, <2>1, <2>3, Moves
  <2>5. Len(body[e]) \in Nat /\ Len(inFlight[e]) \in Nat /\ size[e] \in Nat
    BY <1>q, LenProperties DEF PiecesType
  <2> HIDE DEF done, flight
  <2>6. /\ Len(done) + Len(flight) <= size[e] /\ Len(flight) <= ExportWindow
        /\ Len(done) + Len(flight) = Len(body[e]) + Len(inFlight[e])
    <3> DEFINE k == Len(body[e])
               m == Len(inFlight[e])
    <3>1. /\ k \in Nat /\ m \in Nat /\ size[e] \in Nat /\ k + m <= size[e] /\ m <= ExportWindow
          /\ Len(done) = k + 1 /\ Len(flight) = m - 1
      BY <1>q, <2>3, <2>4, <2>5
    <3> HIDE DEF k, m
    <3>2. /\ Len(done) + Len(flight) <= size[e] /\ Len(flight) <= ExportWindow
          /\ Len(done) + Len(flight) = k + m
      BY <3>1, Limits
    <3> QED
      BY <3>2 DEF k, m
  <2>7. (\A i \in 1..Len(done) : done[i] = i) /\ InOrder(flight, Len(done))
    BY <2>4
  <2> QED
    BY <2>1, <2>2, <2>4, <2>6, <2>7 DEF Filling
<1> QED
  BY <1>4, <1>5

LEMMA PiecesFollow ==
  ASSUME CallsType, WireInv, AnswersType, PiecesType, NEW e \in Export,
         ExportStage(e), PiecesSound(e), HubExport(e)
  PROVE  /\ PiecesType' /\ PiecesSound(e)'
         /\ \A d \in Export \ {e} : body'[d] = body[d] /\ inFlight'[d] = inFlight[d]
<1>t. /\ e \in Transfer /\ size' = size
      /\ Begin(e) \in Call /\ Begin(e) # Close(e) /\ \A n : Read(e, n) # Begin(e)
  BY Limits, CallsOf, CallsDiffer, ExportAsks DEF HubStep, device
<1>c. \A C : Send(C) => \A c \in Call \ C : hub'[c] = hub[c]
  BY Sends
<1>q. body[e] \in Seq(Nat) /\ inFlight[e] \in Seq(Nat) /\ Len(inFlight[e]) <= ExportWindow
  BY DEF PiecesType
<1> DEFINE Same == /\ UNCHANGED <<body, inFlight>> /\ PiecesSound(e)'
<1>s. Same => /\ PiecesType' /\ PiecesSound(e)'
              /\ \A d \in Export \ {e} : body'[d] = body[d] /\ inFlight'[d] = inFlight[d]
  BY <1>t DEF PiecesType
<1>1. CASE Decline(e)
  <2>1. UNCHANGED <<body, inFlight, hub>> /\ handler[e] = "idle" /\ handler'[e] = "done" /\ told'[e] = "error"
    BY <1>1, <1>t DEF Decline, Go, Tell, calls, hubState, AnswersType
  <2>2. PiecesSound(e)'
    BY <1>t, <2>1 DEF PiecesSound, InOrder
  <2> QED
    BY <1>s, <2>1, <2>2
<1>2. CASE StartExport(e)
  <2>1. UNCHANGED <<body, inFlight, told>> /\ handler[e] = "idle" /\ handler'[e] = "beginning"
    BY <1>2, <1>t DEF StartExport, Go, hubState, AnswersType
  <2>2. PiecesSound(e)'
    BY <1>t, <2>1 DEF PiecesSound, InOrder
  <2> QED
    BY <1>s, <2>1, <2>2
<1>3. CASE ExportRefused(e)
  <2>1. /\ UNCHANGED <<body, inFlight, hub>> /\ handler[e] = "beginning"
        /\ handler'[e] = "done" /\ told'[e] = "error"
    BY <1>3, <1>t DEF ExportRefused, Go, Tell, calls, hubState, AnswersType
  <2>2. PiecesSound(e)'
    BY <1>t, <2>1 DEF PiecesSound, InOrder
  <2> QED
    BY <1>s, <2>1, <2>2
<1>f. ASSUME NEW done \in Seq(Nat), NEW flight \in Seq(Nat),
             Filling(e, done, flight), hub[Begin(e)] = "ok", told[e] # "complete", told' = told,
             handler'[e] \in {"reading", "writing"}
      PROVE  /\ PiecesType' /\ PiecesSound(e)'
             /\ \A d \in Export \ {e} : body'[d] = body[d] /\ inFlight'[d] = inFlight[d]
  <2>1. /\ body' = [body EXCEPT ![e] = done]
        /\ \A d \in Export \ {e} : inFlight'[d] = inFlight[d]
        /\ inFlight' \in [Export -> Seq(Nat)]
        /\ Len(inFlight'[e]) <= ExportWindow
        /\ Len(done) + Len(inFlight'[e]) <= size[e]
        /\ InOrder(inFlight'[e], Len(done))
        /\ inFlight'[e] = <<>> => Len(done) = size[e]
    BY <1>f, Fills DEF Filling
  <2>2. body'[e] = done /\ body' \in [Export -> Seq(Nat)] /\ \A d \in Export \ {e} : body'[d] = body[d]
    BY <2>1 DEF PiecesType
  <2>3. hub'[Begin(e)] = "ok"
    <3> DEFINE next == Len(done) + Len(flight) + 1
               last == IF ExportWindow < Len(flight) + size[e] + 1 - next
                         THEN next + ExportWindow - Len(flight) - 1 ELSE size[e]
               C == {Read(e, n) : n \in next..last}
    <3>1. Send(C)
      BY <1>f DEF Filling, Fill
    <3>2. Begin(e) \notin C
      BY <1>t
    <3> QED
      BY <1>c, <1>f, <1>t, <3>1, <3>2
  <2>4. PiecesType'
    BY <1>t, <2>1, <2>2 DEF PiecesType
  <2>5. PiecesSound(e)'
    BY <1>f, <1>t, <2>1, <2>2, <2>3 DEF Filling, PiecesSound
  <2> QED
    BY <2>1, <2>2, <2>4, <2>5
<1>4. CASE ExportBegun(e) \/ WritePiece(e)
  BY <1>4, <1>f, FillsInOrder
<1>6. CASE PieceFails(e) \/ BrowserGone(e)
  <2>1. /\ UNCHANGED <<body, inFlight>> /\ handler[e] \in {"reading", "writing"} /\ handler'[e] = "closing"
        /\ told'[e] \in {"error", "short"} /\ Send({Close(e)})
    BY <1>6, <1>t DEF PieceFails, BrowserGone, Go, Tell, hubState, AnswersType
  <2>2. hub[Begin(e)] = "ok" /\ hub'[Begin(e)] = "ok"
    BY <1>c, <1>t, <2>1 DEF ExportStage
  <2>3. PiecesSound(e)'
    BY <1>t, <2>1, <2>2 DEF PiecesSound, InOrder
  <2> QED
    BY <1>s, <2>1, <2>3
<1>7. CASE ExportWritten(e)
  <2>1. /\ UNCHANGED <<body, inFlight>> /\ handler[e] = "writing" /\ handler'[e] = "closing"
        /\ inFlight[e] = <<>> /\ Send({Close(e)})
    BY <1>7, <1>t DEF ExportWritten, Go, Tell, hubState, AnswersType
  <2>2. hub[Begin(e)] = "ok" /\ hub'[Begin(e)] = "ok"
    BY <1>c, <1>t, <2>1 DEF ExportStage
  <2>3. PiecesSound(e)'
    BY <1>t, <2>1, <2>2 DEF PiecesSound, InOrder
  <2> QED
    BY <1>s, <2>1, <2>3
<1>8. CASE ExportEnds(e)
  <2>1. UNCHANGED <<body, inFlight, hub, told>> /\ handler[e] = "closing" /\ handler'[e] = "done"
    BY <1>8, <1>t DEF ExportEnds, Go, calls, hubState, AnswersType
  <2>2. PiecesSound(e)'
    BY <1>t, <2>1 DEF PiecesSound, InOrder
  <2> QED
    BY <1>s, <2>1, <2>2
<1> QED
  BY <1>1, <1>2, <1>3, <1>4, <1>6, <1>7, <1>8 DEF HubExport

LEMMA PiecesKept ==
  ASSUME CallsType, WireInv, AnswersType, StageInv, PiecesType, PiecesInv, [Next]_vars
  PROVE  PiecesType' /\ PiecesInv'
<1>b. \A e \in Export : e \in Transfer /\ Begin(e) \in Own(e) /\ Begin(e) \in Call
  BY Limits, OwnCalls, CallsOf
<1>a. ASSUME UNCHANGED <<body, inFlight, size, handler, told>>,
             \A c \in Call : hub[c] = "ok" => hub'[c] = "ok"
      PROVE  PiecesType' /\ PiecesInv'
  <2>1. PiecesType'
    BY <1>a DEF PiecesType
  <2>2. ASSUME NEW e \in Export PROVE PiecesSound(e)'
    BY <1>a, <1>b, PiecesStay DEF PiecesInv
  <2> QED
    BY <2>1, <2>2 DEF PiecesInv
<1>1. CASE (HubKept /\ UNCHANGED size) \/ UNCHANGED vars
  BY <1>1, <1>a DEF HubKept, hubState, answering, vars, calls, device
<1>2. CASE \E c \in Call : Return(c) \/ Fail(c) \/ Overload(c)
  <2>1. \A c \in Call : hub[c] = "ok" => hub'[c] = "ok"
    BY <1>2 DEF Return, Fail, Overload, CallsType
  <2>2. UNCHANGED <<body, inFlight, size, handler, told>>
    BY <1>2 DEF Return, Fail, Overload, answering, hubState, device
  <2> QED
    BY <1>a, <2>1, <2>2
<1>3. CASE \E u \in Upload : HubUpload(u)
  <2>1. PICK u \in Upload : HubUpload(u)
    BY <1>3
  <2>2. Sent(u) /\ HubStep(u) /\ UNCHANGED <<body, inFlight, size>>
    BY <2>1, UploadAsks DEF HubStep, device
  <2>3. PiecesType'
    BY <2>2 DEF PiecesType
  <2>4. ASSUME NEW e \in Export PROVE PiecesSound(e)'
    <3>1. e # u /\ PiecesSound(e)
      BY Limits DEF PiecesInv
    <3>2. hub'[Begin(e)] = hub[Begin(e)]
      BY <1>b, <2>2, <3>1, OthersUnsent
    <3>3. UNCHANGED <<body[e], inFlight[e], size[e], handler[e], told[e]>>
      BY <1>b, <2>2, <3>1 DEF HubStep
    <3> QED
      BY <3>1, <3>2, <3>3, PiecesStay
  <2> QED
    BY <2>3, <2>4 DEF PiecesInv
<1>4. CASE \E e \in Export : HubExport(e)
  <2>1. PICK e \in Export : HubExport(e)
    BY <1>4
  <2>2. Sent(e) /\ HubStep(e) /\ UNCHANGED size
    BY <2>1, ExportAsks DEF HubStep, device
  <2>3. /\ PiecesType' /\ PiecesSound(e)'
        /\ \A d \in Export \ {e} : body'[d] = body[d] /\ inFlight'[d] = inFlight[d]
    BY <2>1, PiecesFollow DEF StageInv, PiecesInv
  <2>4. ASSUME NEW d \in Export, d # e PROVE PiecesSound(d)'
    <3>1. hub'[Begin(d)] = hub[Begin(d)]
      BY <1>b, <2>2, <2>4, OthersUnsent
    <3>2. UNCHANGED <<body[d], inFlight[d], size[d], handler[d], told[d]>>
      BY <1>b, <2>2, <2>3, <2>4 DEF HubStep
    <3> QED
      BY <3>1, <3>2, PiecesStay DEF PiecesInv
  <2> QED
    BY <2>3, <2>4 DEF PiecesInv
<1>5. CASE \E e \in Export : DeviceExport(e)
  <2>1. PICK e \in Export : DeviceExport(e)
    BY <1>5
  <2>2. CASE \E n \in 0..MaxPieces[e] : AddExport(e, n)
    <3>1. PICK n \in 0..MaxPieces[e] : AddExport(e, n)
      BY <2>2
    <3>2. /\ size' = [size EXCEPT ![e] = n] /\ dev[Begin(e)] = "captured"
          /\ UNCHANGED <<body, inFlight, handler, told, hub>>
      BY <3>1 DEF AddExport, Step, answering, hubState
    <3>3. hub[Begin(e)] # "ok"
      BY <1>b, <3>2 DEF WireInv
    <3>4. n \in Nat
      BY Limits
    <3>5. PiecesType'
      BY <3>2, <3>4 DEF PiecesType
    <3>6. PiecesSound(e)'
      <4>1. /\ body'[e] = <<>> /\ inFlight'[e] = <<>> /\ size'[e] \in Nat
        BY <3>2, <3>3, <3>5 DEF PiecesInv, PiecesSound, PiecesType
      <4>2. /\ hub'[Begin(e)] # "ok" /\ handler'[e] \notin {"reading", "writing"} /\ told'[e] # "complete"
        BY <3>2, <3>3 DEF StageInv, ExportStage
      <4>3. Len(body'[e]) = 0 /\ Len(inFlight'[e]) = 0
        BY <4>1, EmptySeq
      <4> QED
        BY <4>1, <4>2, <4>3 DEF PiecesSound, InOrder
    <3>7. ASSUME NEW d \in Export, d # e PROVE PiecesSound(d)'
      <4>1. UNCHANGED <<body[d], inFlight[d], size[d], handler[d], told[d]>> /\ hub' = hub
        BY <3>2, <3>7 DEF PiecesType
      <4> QED
        BY <4>1, PiecesStay DEF PiecesInv
    <3> QED
      BY <3>5, <3>6, <3>7 DEF PiecesInv
  <2>3. CASE ~\E n \in 0..MaxPieces[e] : AddExport(e, n)
    <3>1. UNCHANGED size
      BY <2>1, <2>3 DEF DeviceExport, CheckExports, CaptureRejected, CloseExport, ReadExport, device
    <3> QED
      BY <1>1, <2>1, <3>1, ExportServed
  <2> QED
    BY <2>2, <2>3
<1> QED
  BY <1>1, <1>2, <1>3, <1>4, <1>5, UploadServed, HouseworkKeeps, Actions DEF Acts

-------------------------------------------------------------------------------
\* The invariant

LEMMA InvStep == IInv /\ [Next]_vars => IInv'
<1> SUFFICES ASSUME IInv, [Next]_vars PROVE IInv'
  OBVIOUS
<1>1. /\ CallsType /\ AnswersType /\ TablesType /\ FilesType /\ PiecesType
      /\ WireInv /\ StageInv /\ DeviceInv /\ HeldInv /\ PiecesInv
  BY DEF IInv, Types
<1>2. CallsType' /\ WireInv' /\ AnswersType'
  BY <1>1, CallsKept, AnswersKept
<1>3. StageInv' /\ HeldInv'
  BY <1>1, StagesKept, HeldKept
<1>4. TablesType' /\ FilesType' /\ DeviceInv'
  BY <1>1, TablesKept, DeviceKept
<1>5. PiecesType' /\ PiecesInv'
  BY <1>1, PiecesKept
<1> QED
  BY <1>2, <1>3, <1>4, <1>5 DEF IInv, Types

LEMMA InitSound == Init => IInv
<1> SUFFICES ASSUME Init PROVE IInv
  OBVIOUS
<1> USE DEF Init
<1>1. CallsType /\ AnswersType
  BY ConstantsAssumption DEF CallsType, AnswersType
<1>2. TablesType
  BY Limits, FS_EmptySet DEF TablesType
<1>3. FilesType
  BY DEF FilesType
<1>4. PiecesType
  <2>1. \A e \in Export : MaxPieces[e] \in Nat /\ Len(inFlight[e]) = 0
    BY Limits, EmptySeq
  <2> QED
    BY <2>1, Limits, EmptySeq DEF PiecesType
<1>5. WireInv
  BY DEF WireInv
<1>6. StageInv
  BY CallsOf, Limits DEF StageInv, UploadStage, ExportStage
<1>7. DeviceInv
  BY CallsOf DEF DeviceInv, CommitInv, CommitSound, FilesAreOwned, ChunkInv
<1>8. HeldInv
  <2>1. Holders = {}
    BY Limits DEF Holders
  <2> QED
    BY <2>1, FS_EmptySet, Limits DEF HeldInv, HeldCounted
<1>9. PiecesInv
  <2>1. ASSUME NEW e \in Export PROVE PiecesSound(e)
    <3>1. /\ body[e] = <<>> /\ inFlight[e] = <<>> /\ size[e] = 0
          /\ handler[e] = "idle" /\ told[e] = "nothing"
      BY Limits
    <3>2. Len(body[e]) = 0 /\ Len(inFlight[e]) = 0
      BY <3>1, EmptySeq
    <3> QED
      BY <3>1, <3>2 DEF PiecesSound, InOrder
  <2> QED
    BY <2>1 DEF PiecesInv
<1> QED
  BY <1>1, <1>2, <1>3, <1>4, <1>5, <1>6, <1>7, <1>8, <1>9 DEF IInv, Types

LEMMA Invariance == Spec => []IInv
BY InitSound, InvStep, PTL DEF Spec

\* The pieces of an export are numbers of its history.
LEMMA PiecesExist ==
  ASSUME PiecesType, PiecesInv, NEW e \in Export
  PROVE  inFlight[e] \in Seq(1..size[e]) /\ body[e] \in Seq(1..size[e])
<1> DEFINE b == body[e]
           q == inFlight[e]
           k == Len(b)
           m == Len(q)
           z == size[e]
<1>1. b \in Seq(Nat) /\ q \in Seq(Nat) /\ k \in Nat /\ m \in Nat /\ z \in Nat
  BY LenProperties DEF PiecesType
<1>2. k + m <= z /\ (\A i \in 1..k : b[i] = i) /\ (\A i \in 1..m : q[i] = k + i)
  BY DEF PiecesInv, PiecesSound, InOrder
<1>3. b = SubSeq(b, 1, k) /\ q = SubSeq(q, 1, m)
  BY <1>1, SubSeqFull
<1> HIDE DEF b, q, k, m, z
<1>4. (\A i \in 1..k : b[i] \in 1..z) /\ (\A i \in 1..m : q[i] \in 1..z)
  BY <1>1, <1>2
<1>5. SubSeq(b, 1, k) \in Seq(1..z) /\ SubSeq(q, 1, m) \in Seq(1..z)
  BY <1>1, <1>4, SubSeqProperties
<1> QED
  BY <1>3, <1>5 DEF b, q, z

\* The variables keep their types, the device's slots at the hub and the tables of the
\* device their limits, and the export its window, whoever comes and goes
\* (transferHandler.acquireUpload, transfers.beginUpload, beginExport).
THEOREM TypeCorrect == Spec => []TypeOK
<1>1. IInv => TypeOK
  <2> SUFFICES ASSUME IInv PROVE TypeOK
    OBVIOUS
  <2>1. held \in 0..PerDevice
    BY Limits, FS_Subset, FS_CardinalityType DEF Holders, IInv, HeldInv, HeldCounted
  <2>2. \A e \in Export : inFlight[e] \in Seq(1..size[e]) /\ body[e] \in Seq(1..size[e])
    BY PiecesExist DEF IInv, Types
  <2> QED
    BY <2>1, <2>2 DEF IInv, Types, CallsType, AnswersType, TablesType, FilesType, PiecesType, TypeOK
<1> QED
  BY <1>1, Invariance, PTL

\* A file that is visible under its name is complete, whatever aborts, expiries, late
\* chunks and restarts came in between (commitUpload).
THEOREM VisibleIsWhole == Spec => []FinalIsWhole
<1>1. IInv => FinalIsWhole
  BY DEF IInv, DeviceInv, CommitInv, CommitSound, FinalIsWhole
<1> QED
  BY <1>1, Invariance, PTL

\* The browser is told "created" of a saved file only (the hub's upload).
THEOREM CreatedWasSaved == Spec => []CreatedIsSaved
<1>1. IInv => CreatedIsSaved
  BY CallsOf DEF IInv, StageInv, UploadStage, WireInv, DeviceInv, CommitInv, CommitSound, CreatedIsSaved
<1> QED
  BY <1>1, Invariance, PTL

\* No path of errors leaves a temporary or an open file without an owner (upload's methods).
THEOREM NoFileIsLeft == Spec => []FilesAreOwned
<1>1. IInv => FilesAreOwned
  BY DEF IInv, DeviceInv
<1> QED
  BY <1>1, Invariance, PTL

\* The browser gets a history in order, and all of it if the answer is not cut short, for
\* any window and in whatever order the reads return (exportHistory).
THEOREM HistoryInOrder == Spec => []ExportInOrder
<1>1. IInv => ExportInOrder
  <2> SUFFICES ASSUME IInv, NEW e \in Export
               PROVE  /\ body[e] = [i \in 1..Len(body[e]) |-> i]
                      /\ told[e] = "complete" => Len(body[e]) = size[e]
    BY DEF ExportInOrder
  <2>1. PiecesSound(e) /\ body[e] \in Seq(Nat)
    BY DEF IInv, Types, PiecesType, PiecesInv
  <2> DEFINE b == body[e]
             k == Len(b)
  <2>2. k \in Nat /\ b \in [1..k -> Nat] /\ DOMAIN b = 1..k
    BY <2>1, LenProperties
  <2>3. \A i \in 1..k : b[i] = i
    BY <2>1 DEF PiecesSound
  <2>4. b = [i \in 1..k |-> i]
    <3> HIDE DEF b, k
    <3> QED
      BY <2>2, <2>3
  <2> QED
    BY <2>1, <2>4 DEF PiecesSound
<1> QED
  BY <1>1, Invariance, PTL

-------------------------------------------------------------------------------
\* Calls, as Manager.Call promises them

\* The hub sends the chunks of an upload and the reads of an export one after another.
ChunkStage(u) == \E k \in Nat : \A n \in 1..Chunks[u] : hub[Chunk(u, n)] # "unused" <=> n <= k

ReadStage(e) ==
  /\ handler[e] \in {"idle", "beginning", "reading", "writing"} => hub[Close(e)] = "unused"
  /\ \A n \in 1..MaxPieces[e] :
       hub[Read(e, n)] # "unused" => n <= Len(body[e]) + Len(inFlight[e])

OnceInv == (\A u \in Upload : ChunkStage(u)) /\ (\A e \in Export : ReadStage(e))

\* The chunk that is sent next was not sent before.
LEMMA NextChunk ==
  ASSUME CallsType, WireInv, NEW u \in Upload, ChunkStage(u), SendChunk(u)
  PROVE  /\ ChunkStage(u)'
         /\ \E n \in 1..Chunks[u] : Send({Chunk(u, n)}) /\ hub[Chunk(u, n)] = "unused"
<1> DEFINE l == Chunks[u]
<1>1. PICK k \in Nat : \A n \in 1..l : hub[Chunk(u, n)] # "unused" <=> n <= k
  BY DEF ChunkStage
<1>2. l \in Nat \ {0} /\ \A n \in 1..l : Chunk(u, n) \in Call
  BY Limits, CallsOf
<1> DEFINE j == IF k <= l THEN k ELSE l
           n == Cardinality(SentChunks(u)) + 1
<1>3. j \in Nat /\ SentChunks(u) = 1..j
  BY <1>1, <1>2 DEF SentChunks
<1>4. n = j + 1
  <2>1. Cardinality(1..j) = j
    BY <1>3, FS_Interval
  <2> QED
    BY <1>3, <2>1
<1>5. n <= l /\ Send({Chunk(u, n)})
  BY DEF SendChunk
<1>6. j = k /\ n = k + 1 /\ n \in 1..l
  BY <1>1, <1>2, <1>3, <1>4, <1>5
<1> HIDE DEF l, n, j
<1>7. hub[Chunk(u, n)] = "unused"
  BY <1>1, <1>6
<1>8. /\ hub'[Chunk(u, n)] = "open"
      /\ \A m \in 1..l : m # n => hub'[Chunk(u, m)] = hub[Chunk(u, m)]
  BY <1>2, <1>5, <1>6, Sends, CallsDiffer
<1>9. \A m \in 1..l : hub'[Chunk(u, m)] # "unused" <=> m <= k + 1
  BY <1>1, <1>6, <1>8
<1>10. ChunkStage(u)'
  <2>1. k + 1 \in Nat
    OBVIOUS
  <2> QED
    BY <1>9, <2>1 DEF l, ChunkStage
<1>11. n \in 1..Chunks[u]
  BY <1>6 DEF l
<1> QED
  BY <1>5, <1>7, <1>10, <1>11

\* A step that sends calls which were not sent before, or none.
Fresh == UNCHANGED calls \/ \E C : Send(C) /\ \A c \in Call \cap C : hub[c] = "unused"

LEMMA FreshCall == ASSUME NEW c, Send({c}), hub[c] = "unused" PROVE Fresh
<1>1. \A d \in Call \cap {c} : hub[d] = "unused"
  OBVIOUS
<1> QED
  BY <1>1 DEF Fresh

LEMMA UploadCalls ==
  ASSUME CallsType, WireInv, AnswersType, NEW u \in Upload, UploadStage(u), ChunkStage(u), HubUpload(u)
  PROVE  Fresh /\ ChunkStage(u)'
<1>1. /\ u \in Transfer
      /\ \A n \in 1..Chunks[u] : Chunk(u, n) \in Call
      /\ \A n : Chunk(u, n) \notin {Begin(u), Commit(u), Abort(u)}
  BY Limits, CallsOf, CallsDiffer
<1>2. CASE SendChunk(u)
  BY <1>2, NextChunk, FreshCall
<1>3. ASSUME NEW c \in {Begin(u), Commit(u), Abort(u)}, Send({c}), hub[c] = "unused"
      PROVE  Fresh /\ ChunkStage(u)'
  <2>1. \A n \in 1..Chunks[u] : hub'[Chunk(u, n)] = hub[Chunk(u, n)]
    BY <1>1, <1>3, Sends
  <2>2. Fresh
    BY <1>3, FreshCall
  <2> QED
    BY <2>1, <2>2 DEF ChunkStage
<1>4. CASE AcquireUpload(u)
  BY <1>3, <1>4 DEF AcquireUpload, Go, UploadStage
<1>5. CASE GiveUp(u) \/ CommitFails(u)
  BY <1>3, <1>5 DEF GiveUp, CommitFails, Go, UploadStage
<1>6. CASE SendCommit(u)
  BY <1>3, <1>6 DEF SendCommit, Go, UploadStage
<1>7. CASE \/ Decline(u) \/ UploadBegun(u) \/ BeginFails(u) \/ BodyEnds(u)
           \/ UploadCreated(u) \/ UploadEnds(u)
  <2>1. UNCHANGED calls
    BY <1>7 DEF Decline, UploadBegun, BeginFails, BodyEnds, UploadCreated, UploadEnds, calls
  <2> QED
    BY <2>1 DEF Fresh, ChunkStage, calls
<1> QED
  BY <1>2, <1>4, <1>5, <1>6, <1>7 DEF HubUpload

LEMMA ExportCalls ==
  ASSUME CallsType, WireInv, AnswersType, PiecesType, NEW e \in Export,
         ExportStage(e), PiecesSound(e), ReadStage(e), HubExport(e)
  PROVE  Fresh /\ ReadStage(e)'
<1>1. /\ e \in Transfer /\ Begin(e) # Close(e) /\ Close(e) \in Call
      /\ \A n : Read(e, n) # Begin(e) /\ Read(e, n) # Close(e)
      /\ \A n \in 1..MaxPieces[e] : Read(e, n) \in Call
  BY Limits, CallsOf, CallsDiffer
<1>2. CASE StartExport(e)
  <2>1. /\ handler[e] = "idle" /\ Send({Begin(e)}) /\ UNCHANGED <<body, inFlight>>
        /\ hub[Begin(e)] = "unused" /\ hub[Close(e)] = "unused"
    BY <1>2 DEF StartExport, Go, hubState, ExportStage, ReadStage
  <2>2. /\ \A n \in 1..MaxPieces[e] : hub'[Read(e, n)] = hub[Read(e, n)]
        /\ hub'[Close(e)] = hub[Close(e)]
    BY <1>1, <2>1, Sends
  <2>3. Fresh
    BY <2>1, FreshCall
  <2> QED
    BY <2>1, <2>2, <2>3 DEF ReadStage
<1>3. CASE PieceFails(e) \/ BrowserGone(e) \/ ExportWritten(e)
  <2>1. /\ handler[e] \in {"reading", "writing"} /\ handler'[e] = "closing"
        /\ Send({Close(e)}) /\ UNCHANGED <<body, inFlight>> /\ hub[Close(e)] = "unused"
    BY <1>1, <1>3 DEF PieceFails, BrowserGone, ExportWritten, Go, hubState, ReadStage, AnswersType
  <2>2. \A n \in 1..MaxPieces[e] : hub'[Read(e, n)] = hub[Read(e, n)]
    BY <1>1, <2>1, Sends
  <2>3. Fresh
    BY <2>1, FreshCall
  <2> QED
    BY <2>1, <2>2, <2>3 DEF ReadStage
<1>4. CASE ExportBegun(e) \/ WritePiece(e)
  <2>1. PICK done \in Seq(Nat), flight \in Seq(Nat) : Filling(e, done, flight)
    BY <1>4, FillsInOrder
  <2> DEFINE k == Len(body[e]) + Len(inFlight[e])
             l == Len(body'[e]) + Len(inFlight'[e])
  <2>2. /\ body'[e] = done /\ inFlight'[e] \in Seq(Nat)
        /\ Len(done) + Len(flight) = k /\ Len(done) + Len(inFlight'[e]) = l
    BY <2>1, Fills DEF Filling, PiecesType
  <2>f. /\ Len(done) + Len(flight) <= Len(done) + Len(inFlight'[e])
         /\ \E C : /\ Send(C)
                  /\ \A c \in C : \E i \in (Len(done) + Len(flight) + 1)..size[e] :
                       c = Read(e, i) /\ i <= Len(done) + Len(inFlight'[e])
    BY <2>1, Fills DEF Filling
  <2> HIDE DEF k, l
  <2>3. PICK C : /\ Send(C)
                 /\ \A c \in C : \E i \in (k + 1)..size[e] : c = Read(e, i) /\ i <= l
    BY <2>2, <2>f
  <2>4. k <= l
    BY <2>2, <2>f
  <2> USE DEF k, l
  <2>5. k \in Nat /\ l \in Nat /\ size[e] \in Nat /\ size[e] <= MaxPieces[e] /\ MaxPieces[e] \in Nat
    BY <2>2, LenProperties, Limits DEF PiecesType
  <2>6. \A n \in 1..MaxPieces[e] : hub[Read(e, n)] # "unused" => n <= k
    BY DEF ReadStage
  <2>7. handler[e] \in {"beginning", "reading", "writing"} /\ hub[Close(e)] = "unused"
    BY <1>4 DEF ExportBegun, WritePiece, Go, ReadStage
  <2> HIDE DEF k, l
  <2>8. \A c \in C : \E i \in 1..MaxPieces[e] : c = Read(e, i) /\ i > k /\ i <= l
    BY <2>3, <2>5
  <2>9. \A c \in Call \cap C : hub[c] = "unused"
    <3> SUFFICES ASSUME NEW c \in Call \cap C PROVE hub[c] = "unused"
      OBVIOUS
    <3>1. PICK i \in 1..MaxPieces[e] : c = Read(e, i) /\ i > k
      BY <2>8
    <3> QED
      BY <2>5, <2>6, <3>1
  <2>10. \A n \in 1..MaxPieces[e] : hub'[Read(e, n)] # "unused" => n <= l
    <3> SUFFICES ASSUME NEW n \in 1..MaxPieces[e], hub'[Read(e, n)] # "unused" PROVE n <= l
      OBVIOUS
    <3>1. CASE Read(e, n) \in C
      <4>1. PICK i \in 1..MaxPieces[e] : Read(e, n) = Read(e, i) /\ i <= l
        BY <2>8, <3>1
      <4> QED
        BY <4>1 DEF Read
    <3>2. CASE Read(e, n) \notin C
      <4>1. n <= k
        BY <1>1, <2>3, <2>6, <3>2, Sends
      <4> QED
        BY <2>4, <2>5, <4>1
    <3> QED
      BY <3>1, <3>2
  <2>11. hub'[Close(e)] = "unused"
    <3>1. Close(e) \notin C
      BY <1>1, <2>8
    <3> QED
      BY <1>1, <2>3, <2>7, <3>1, Sends
  <2> QED
    BY <2>3, <2>9, <2>10, <2>11 DEF Fresh, ReadStage, l
<1>5. CASE Decline(e) \/ ExportRefused(e) \/ ExportEnds(e)
  <2>1. UNCHANGED calls /\ UNCHANGED <<body, inFlight>> /\ handler'[e] = "done"
    BY <1>1, <1>5 DEF Decline, ExportRefused, ExportEnds, Go, hubState, AnswersType
  <2> QED
    BY <2>1 DEF Fresh, ReadStage, calls
<1> QED
  BY <1>2, <1>3, <1>4, <1>5 DEF HubExport

LEMMA StagesStay ==
  ASSUME NEW t \in Transfer,
         \A c \in Own(t) : hub'[c] = "unused" <=> hub[c] = "unused"
  PROVE  /\ t \in Upload /\ ChunkStage(t) => ChunkStage(t)'
         /\ t \in Export /\ ReadStage(t) /\ UNCHANGED <<handler[t], body[t], inFlight[t]>> => ReadStage(t)'
BY OwnCalls DEF ChunkStage, ReadStage

LEMMA OnceKept ==
  ASSUME IInv, OnceInv, [Next]_vars
  PROVE  OnceInv'
<1>i. /\ CallsType /\ WireInv /\ AnswersType /\ StageInv /\ PiecesType /\ PiecesInv
      /\ \A u \in Upload : ChunkStage(u)
      /\ \A e \in Export : ReadStage(e)
      /\ \A t \in Upload \cup Export : t \in Transfer
  BY Limits DEF IInv, Types, OnceInv
<1>a. ASSUME UNCHANGED <<handler, body, inFlight>>,
             \A c \in Call : hub'[c] = "unused" <=> hub[c] = "unused"
      PROVE  OnceInv'
  BY <1>a, <1>i, StagesStay DEF OnceInv, Own
<1>1. CASE HubKept \/ UNCHANGED vars
  BY <1>1, <1>a DEF HubKept, vars, calls, answering, hubState
<1>2. CASE \E c \in Call : Return(c) \/ Fail(c) \/ Overload(c)
  <2>1. UNCHANGED <<handler, body, inFlight>>
    BY <1>2 DEF Return, Fail, Overload, answering, hubState
  <2>2. \A c \in Call : hub'[c] = "unused" <=> hub[c] = "unused"
    BY <1>2, <1>i DEF Return, Fail, Overload, CallsType
  <2> QED
    BY <1>a, <2>1, <2>2
<1>3. CASE \E u \in Upload : HubUpload(u)
  <2>1. PICK u \in Upload : HubUpload(u)
    BY <1>3
  <2>2. Sent(u) /\ HubStep(u) /\ UNCHANGED <<body, inFlight>>
    BY <1>i, <2>1, UploadAsks DEF HubStep
  <2>3. ChunkStage(u)'
    BY <1>i, <2>1, UploadCalls DEF StageInv
  <2>4. ASSUME NEW t \in Transfer, t # u
        PROVE  (\A c \in Own(t) : hub'[c] = hub[c]) /\ handler'[t] = handler[t]
    <3>1. \A c \in Own(t) : hub'[c] = hub[c]
      BY <1>i, <2>2, <2>4, OthersUnsent
    <3> QED
      BY <2>2, <2>4, <3>1 DEF HubStep
  <2>5. \A v \in Upload \ {u} : ChunkStage(v)'
    BY <1>i, <2>4, StagesStay
  <2>6. \A e \in Export : ReadStage(e)'
    BY <1>i, <2>2, <2>4, StagesStay, Limits
  <2> QED
    BY <2>3, <2>5, <2>6 DEF OnceInv
<1>4. CASE \E e \in Export : HubExport(e)
  <2>1. PICK e \in Export : HubExport(e)
    BY <1>4
  <2>2. Sent(e) /\ HubStep(e)
    BY <1>i, <2>1, ExportAsks DEF HubStep
  <2>3. ReadStage(e)' /\ \A d \in Export \ {e} : body'[d] = body[d] /\ inFlight'[d] = inFlight[d]
    BY <1>i, <2>1, ExportCalls, PiecesFollow DEF StageInv, PiecesInv
  <2>4. ASSUME NEW t \in Transfer, t # e
        PROVE  (\A c \in Own(t) : hub'[c] = hub[c]) /\ handler'[t] = handler[t]
    <3>1. \A c \in Own(t) : hub'[c] = hub[c]
      BY <1>i, <2>2, <2>4, OthersUnsent
    <3> QED
      BY <2>2, <2>4, <3>1 DEF HubStep
  <2>5. \A d \in Export \ {e} : ReadStage(d)'
    BY <1>i, <2>3, <2>4, StagesStay
  <2>6. \A u \in Upload : ChunkStage(u)'
    BY <1>i, <2>4, StagesStay, Limits
  <2> QED
    BY <2>3, <2>5, <2>6 DEF OnceInv
<1> QED
  BY <1>1, <1>2, <1>3, <1>4, UploadServed, ExportServed, HouseworkKeeps, Actions DEF Acts

\* A call of a transfer, seen as RemoteCall sees one.  It counts as executed once the device
\* is past its arrival: handled, refused by the dispatcher or lost with the process.
Remote(k) == INSTANCE RemoteCall WITH
  Call <- {k},
  status <- [c \in {k} |-> IF hub[c] = "unused" THEN "idle" ELSE IF hub[c] = "open" THEN "open" ELSE "done"],
  outcome <- [c \in {k} |-> IF hub[c] = "ok" THEN "response" ELSE IF hub[c] = "error" THEN "expired" ELSE "none"],
  executions <- [c \in {k} |-> IF dev[c] \in {"none", "sent"} THEN 0 ELSE 1]

\* What a step does to one call: nothing, or one step of RemoteCall.
CallStep(c) ==
  \/ hub'[c] = hub[c] /\ dev'[c] = dev[c]
  \/ hub[c] = "unused" /\ dev[c] = "none" /\ hub'[c] = "open" /\ dev'[c] = "sent"
  \/ /\ hub[c] # "unused" /\ hub'[c] = hub[c]
     /\ dev[c] \notin {"none", "ok"} /\ dev'[c] \notin {"none", "sent"}
  \/ /\ hub[c] = "open" /\ dev'[c] = dev[c]
     /\ hub'[c] = "error" \/ (hub'[c] = "ok" /\ dev[c] = "ok")

LEMMA CallSteps ==
  ASSUME IInv, OnceInv, [Next]_vars
  PROVE  \A c \in Call : CallStep(c)
<1>i. /\ CallsType /\ WireInv /\ AnswersType /\ StageInv /\ PiecesType /\ PiecesInv /\ OnceInv
  BY DEF IInv, Types
<1>a. ASSUME Fresh PROVE \A c \in Call : CallStep(c)
  BY <1>a, <1>i DEF Fresh, calls, Send, CallStep, WireInv, CallsType
<1>b. ASSUME NEW t, Served(t), HubKept PROVE \A c \in Call : CallStep(c)
  <2>1. CASE UNCHANGED dev
    BY <1>b, <2>1 DEF HubKept, CallStep
  <2>2. CASE \E c \in Own(t) : Handled(c)
    <3>1. PICK d \in Call : Handled(d)
      BY <2>2 DEF Own
    <3>2. PICK s \in Stages \ {"ok"}, r \in Stages \ {"sent"} : Step(d, s, r)
      BY <3>1 DEF Handled
    <3>3. /\ dev[d] = s /\ dev'[d] = r /\ hub' = hub
          /\ \A c \in Call \ {d} : dev'[c] = dev[c]
      BY <1>i, <3>1, <3>2 DEF Step, CallsType, Handled
    <3>4. s \notin {"none", "ok"} /\ r \notin {"none", "sent"}
      BY DEF Stages
    <3>5. hub[d] # "unused"
      BY <1>i, <3>3, <3>4 DEF WireInv
    <3> QED
      BY <3>3, <3>4, <3>5 DEF CallStep
  <2> QED
    BY <1>b, <2>1, <2>2 DEF Served
<1>1. CASE \E u \in Upload : HubUpload(u)
  BY <1>1, <1>a, <1>i, UploadCalls DEF StageInv, OnceInv
<1>2. CASE \E e \in Export : HubExport(e)
  BY <1>2, <1>a, <1>i, ExportCalls DEF StageInv, OnceInv, PiecesInv
<1>3. CASE \E u \in Upload : DeviceUpload(u)
  BY <1>3, <1>b, UploadServed
<1>4. CASE \E e \in Export : DeviceExport(e)
  BY <1>4, <1>b, ExportServed
<1>5. CASE \E c \in Call : Return(c) \/ Fail(c)
  <2>1. PICK c \in Call : Return(c) \/ Fail(c)
    BY <1>5
  <2>2. /\ hub[c] = "open" /\ dev' = dev
        /\ hub'[c] = "error" \/ (hub'[c] = "ok" /\ dev[c] = "ok")
        /\ \A d \in Call \ {c} : hub'[d] = hub[d]
    BY <1>i, <2>1 DEF Return, Fail, CallsType
  <2> QED
    BY <2>2 DEF CallStep
<1>6. CASE \E c \in Call : Overload(c)
  <2>1. PICK c \in Call : Overload(c)
    BY <1>6
  <2>2. /\ hub' = hub /\ dev[c] = "sent" /\ dev'[c] = "error"
        /\ \A d \in Call \ {c} : dev'[d] = dev[d]
    BY <1>i, <2>1 DEF Overload, CallsType
  <2>3. hub[c] # "unused"
    BY <1>i, <2>2 DEF WireInv
  <2> QED
    BY <2>2, <2>3 DEF CallStep
<1>7. CASE Restart
  <2>1. /\ hub' = hub
        /\ \A c \in Call : dev'[c] = IF dev[c] \in {"none", "ok"} THEN dev[c] ELSE "error"
    BY <1>7 DEF Restart
  <2> QED
    BY <1>i, <2>1 DEF CallStep, WireInv
<1>8. CASE (\E X \in SUBSET (uploads \cup exports) : Expire(X)) \/ UNCHANGED vars
  BY <1>8 DEF Expire, vars, calls, CallStep
<1> QED
  BY <1>1, <1>2, <1>3, <1>4, <1>5, <1>6, <1>7, <1>8, Actions DEF Acts, Housework

LEMMA RemoteStep ==
  ASSUME NEW k \in Call, CallStep(k)
  PROVE  [Remote(k)!Next]_(Remote(k)!vars)
<1> DEFINE Status(h)  == IF h = "unused" THEN "idle" ELSE IF h = "open" THEN "open" ELSE "done"
           Outcome(h) == IF h = "ok" THEN "response" ELSE IF h = "error" THEN "expired" ELSE "none"
           Executions(d) == IF d \in {"none", "sent"} THEN 0 ELSE 1
<1>1. CASE /\ Status(hub'[k]) = Status(hub[k]) /\ Outcome(hub'[k]) = Outcome(hub[k])
           /\ Executions(dev'[k]) = Executions(dev[k])
  BY <1>1 DEF Remote!vars
<1>2. CASE hub[k] = "unused" /\ dev[k] = "none" /\ hub'[k] = "open" /\ dev'[k] = "sent"
  <2>1. Remote(k)!Start(k)
    BY <1>2 DEF Remote!Start
  <2> QED
    BY <2>1 DEF Remote!Next
<1>3. CASE hub[k] # "unused" /\ hub'[k] = hub[k] /\ dev[k] = "sent" /\ dev'[k] \notin {"none", "sent"}
  <2>1. Remote(k)!Execute(k)
    BY <1>3 DEF Remote!Execute
  <2> QED
    BY <2>1 DEF Remote!Next
<1>4. CASE hub[k] = "open" /\ dev'[k] = dev[k] /\ hub'[k] = "error"
  <2>1. Remote(k)!Return(k, "expired")
    BY <1>4 DEF Remote!Return, Remote!FromDevice
  <2> QED
    BY <2>1 DEF Remote!Next, Remote!Failure
<1>5. CASE hub[k] = "open" /\ dev'[k] = dev[k] /\ hub'[k] = "ok" /\ dev[k] = "ok"
  <2>1. Remote(k)!Return(k, "response")
    BY <1>5 DEF Remote!Return, Remote!FromDevice
  <2> QED
    BY <2>1 DEF Remote!Next, Remote!FromDevice
<1> QED
  BY <1>1, <1>2, <1>3, <1>4, <1>5 DEF CallStep

LEMMA RemoteInit == ASSUME NEW k \in Call PROVE Init => Remote(k)!Init
BY DEF Init, Remote!Init

LEMMA OnceInit == Init => OnceInv
<1> SUFFICES ASSUME Init PROVE OnceInv
  OBVIOUS
<1>1. \A c \in Call : hub[c] = "unused"
  BY DEF Init
<1>2. ASSUME NEW u \in Upload PROVE ChunkStage(u)
  <2>1. \A n \in 1..Chunks[u] : hub[Chunk(u, n)] = "unused" /\ ~(n <= 0)
    BY <1>1, CallsOf, Limits
  <2>2. 0 \in Nat
    OBVIOUS
  <2> QED
    BY <2>1, <2>2 DEF ChunkStage
<1>3. \A e \in Export : ReadStage(e)
  BY <1>1, CallsOf DEF ReadStage
<1> QED
  BY <1>2, <1>3 DEF OnceInv

LEMMA OnceInvariance == Spec => [](IInv /\ OnceInv)
<1>1. Init => IInv /\ OnceInv
  BY InitSound, OnceInit
<1>2. IInv /\ OnceInv /\ [Next]_vars => (IInv /\ OnceInv)'
  BY InvStep, OnceKept
<1> QED
  BY <1>1, <1>2, PTL DEF Spec

\* Each call of each transfer is one call of RemoteCall: sent once, handled at most once,
\* also over restarts, and successful at the hub only after the device has done it
\* (transferHandler.upload, exportHistory).
THEOREM CallsAreRemoteCalls == ASSUME NEW k \in Call PROVE Spec => Remote(k)!Spec
<1>1. Init => Remote(k)!Init
  BY RemoteInit
<1>2. IInv /\ OnceInv /\ [Next]_vars => [Remote(k)!Next]_(Remote(k)!vars)
  BY CallSteps, RemoteStep
<1> QED
  BY <1>1, <1>2, OnceInvariance, PTL DEF Spec, Remote!Spec

\* A file that was saved does not disappear but for its age: no late begin, abort, expiry or
\* restart touches it (commitUpload, pruneUploads).
SavedStays == [][\A u \in Upload : file[u] = "final" => file'[u] \in {"final", "pruned"}]_vars

THEOREM SavedFilesStay == Spec => SavedStays
<1>1. ASSUME IInv, OnceInv, [Next]_vars, NEW u \in Upload, file[u] = "final"
      PROVE  file'[u] \in {"final", "pruned"}
  <2>1. CommitSound(u) /\ CommitSound(u)'
    BY <1>1, InvStep DEF IInv, DeviceInv, CommitInv
  <2>2. dev[Commit(u)] = "ok"
    BY <1>1, <2>1 DEF CommitSound
  <2>3. Commit(u) \in Call /\ CallStep(Commit(u))
    BY <1>1, CallSteps, CallsOf
  <2>4. dev'[Commit(u)] = "ok"
    BY <2>2, <2>3 DEF CallStep
  <2> QED
    BY <2>1, <2>4 DEF CommitSound
<1>2. IInv /\ OnceInv /\ [Next]_vars
        => [\A u \in Upload : file[u] = "final" => file'[u] \in {"final", "pruned"}]_vars
  BY <1>1
<1> QED
  BY <1>2, OnceInvariance, PTL DEF Spec, SavedStays

\* A browser is answered once: what it was told is not taken back when the abort or the close
\* that follows fails (transferHandler.upload, exportHistory).
AnsweredOnce == [][\A t \in Transfer : told[t] # "nothing" => told'[t] = told[t]]_vars

ToldInv == \A t \in Transfer : told[t] # "nothing" => handler[t] \in {"aborting", "closing", "done"}

LEMMA Tells ==
  ASSUME AnswersType, ToldInv, [Next]_vars
  PROVE  ToldInv' /\ \A t \in Transfer : told[t] # "nothing" => told'[t] = told[t]
<1>1. CASE HubKept \/ UNCHANGED vars \/ \E c \in Call : Return(c) \/ Fail(c) \/ Overload(c)
  <2>1. UNCHANGED answering
    BY <1>1 DEF HubKept, vars, Return, Fail, Overload
  <2> QED
    BY <2>1 DEF answering, ToldInv
<1>a. ASSUME NEW t \in Transfer, HubStep(t), told[t] # "nothing" => told'[t] = told[t],
             told'[t] # "nothing" => handler'[t] \in {"aborting", "closing", "done"}
      PROVE  ToldInv' /\ \A r \in Transfer : told[r] # "nothing" => told'[r] = told[r]
  BY <1>a DEF HubStep, ToldInv
<1>2. CASE \E u \in Upload : HubUpload(u)
  <2>1. PICK u \in Upload : HubUpload(u)
    BY <1>2
  <2>2. HubStep(u) /\ u \in Transfer
    BY <2>1, UploadAsks, Limits
  <2>3. told[u] # "nothing" => handler[u] \in {"aborting", "closing", "done"}
    BY <2>2 DEF ToldInv
  <2>4. /\ told[u] # "nothing" => told'[u] = told[u]
        /\ told'[u] # "nothing" => handler'[u] \in {"aborting", "closing", "done"}
    BY <2>1, <2>2, <2>3 DEF HubUpload, Decline, AcquireUpload, UploadBegun, BeginFails, SendChunk,
      BodyEnds, GiveUp, SendCommit, UploadCreated, CommitFails, UploadEnds, Go, Tell, answering,
      AnswersType
  <2> QED
    BY <1>a, <2>2, <2>4
<1>3. CASE \E e \in Export : HubExport(e)
  <2>1. PICK e \in Export : HubExport(e)
    BY <1>3
  <2>2. HubStep(e) /\ e \in Transfer
    BY <2>1, ExportAsks, Limits
  <2>3. told[e] # "nothing" => handler[e] \in {"aborting", "closing", "done"}
    BY <2>2 DEF ToldInv
  <2>4. /\ told[e] # "nothing" => told'[e] = told[e]
        /\ told'[e] # "nothing" => handler'[e] \in {"aborting", "closing", "done"}
    BY <2>1, <2>2, <2>3 DEF HubExport, Decline, StartExport, ExportRefused, ExportBegun, WritePiece,
      PieceFails, BrowserGone, ExportWritten, ExportEnds, Go, Tell, answering, AnswersType
  <2> QED
    BY <1>a, <2>2, <2>4
<1> QED
  BY <1>1, <1>2, <1>3, UploadServed, ExportServed, HouseworkKeeps, Actions DEF Acts

THEOREM BrowsersAreAnsweredOnce == Spec => AnsweredOnce
<1>1. Init => AnswersType /\ ToldInv
  BY InitSound DEF Init, ToldInv, IInv, Types
<1>2. AnswersType /\ ToldInv /\ [Next]_vars => (AnswersType /\ ToldInv)'
  BY AnswersKept, Tells
<1>3. AnswersType /\ ToldInv /\ [Next]_vars
        => [\A t \in Transfer : told[t] # "nothing" => told'[t] = told[t]]_vars
  BY Tells
<1> QED
  BY <1>1, <1>2, <1>3, PTL DEF Spec, AnsweredOnce
===============================================================================
