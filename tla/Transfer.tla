-------------------------------- MODULE Transfer --------------------------------
(***************************************************************************)
(* Uploads to a device and exports of its terminal history: the hub's      *)
(* transferHandler and the connector's transfers, with the files they make.*)
(*                                                                         *)
(* Both sides meet in calls of Manager.Call, with the promise RemoteCall   *)
(* states: a call may fail at the hub at any time and still be executed by *)
(* the device, now or later, at most once.  Names of files are random and  *)
(* never met twice, so a file is its upload.  Times are not modelled:      *)
(* what is limited in time may happen at any time, with one exception      *)
(* stated at Prune.                                                        *)
(***************************************************************************)
EXTENDS Integers, Sequences, FiniteSets

CONSTANTS
  Upload, Export,  \* requests of browsers, all for one device
  Workload,        \* the sets of requests a behaviour may begin with
  Chunks,          \* chunks of each uploaded file
  MaxPieces,       \* bound: pieces of each exported history
  Window,          \* transferWindow (4 in the code)
  ExportWindow,    \* exportWindow (8)
  PerDevice,       \* maxUploadsPerDevice (2)
  MaxUploads,      \* maxUploads (4)
  MaxExports       \* maxExports (4)

Transfer == Upload \cup Export

ASSUME ConstantsAssumption ==
  /\ IsFiniteSet(Transfer) /\ Upload \cap Export = {}
  /\ Workload \subseteq SUBSET Transfer
  /\ {Window, ExportWindow, PerDevice, MaxUploads, MaxExports} \subseteq Nat \ {0}
  /\ Chunks \in [Upload -> Nat \ {0}] /\ MaxPieces \in [Export -> Nat]

VARIABLES
  wanted,    \* the requests of this behaviour
  hub,       \* hub: what Manager.Call has returned, per call
  dev,       \* connector: how far the handling of a call is
  handler,   \* hub: where the HTTP handler of a request is
  told,      \* hub: the answer to the browser
  stopped,   \* hub: uploads whose body ended early or whose request was cancelled
  held,      \* hub: transferHandler.uploads of the device
  inFlight,  \* hub: pieces an export has asked for and not yet written
  body,      \* hub: pieces an export has written to the browser
  uploads,   \* connector: transfers.uploads, as the set of its entries
  exports,   \* connector: transfers.exports
  size,      \* connector: pieces of the captured history, per export
  open,      \* connector: uploads whose file is open
  file,      \* disk: the upload's file; "left" is a .part no process works on
  disk,      \* disk: the chunks in the upload's file
  written    \* connector: upload.written, the chunks counted as received

calls     == <<hub, dev>>
answering == <<handler, told>>
hubState  == <<stopped, held, inFlight, body>>
files     == <<open, file, disk, written>>
device    == <<uploads, exports, size, files>>
vars == <<wanted, calls, answering, hubState, device>>

Begin(t)    == <<t, "begin", 0>>
Chunk(u, n) == <<u, "chunk", n>>
Commit(u)   == <<u, "commit", 0>>
Abort(u)    == <<u, "abort", 0>>
Read(e, n)  == <<e, "read", n>>
Close(e)    == <<e, "close", 0>>

Call == {Begin(t) : t \in Transfer}
        \cup (UNION {{Chunk(u, n) : n \in 1..Chunks[u]} : u \in Upload})
        \cup {Commit(u) : u \in Upload} \cup {Abort(u) : u \in Upload}
        \cup (UNION {{Read(e, n) : n \in 1..MaxPieces[e]} : e \in Export})
        \cup {Close(e) : e \in Export}

\* The types; and the tables and the device's slots keep their limits, although beginExport
\* lets go of the lock between its two looks at one of them (transfers.beginUpload, beginExport).
TypeOK ==
  /\ wanted \subseteq Transfer
  /\ hub \in [Call -> {"unused", "open", "ok", "error"}]
  /\ dev \in [Call -> {"none", "sent", "found", "written", "taken", "rejected",
                       "verified", "closed", "captured", "ok", "error"}]
  /\ handler \in [Transfer -> {"idle", "beginning", "sending", "committing", "aborting",
                               "reading", "writing", "closing", "done"}]
  /\ told \in [Transfer -> {"nothing", "created", "error", "complete", "short"}]
  /\ stopped \subseteq Upload
  /\ held \in 0..PerDevice
  /\ inFlight \in [Export -> Seq(Nat)] /\ body \in [Export -> Seq(Nat)]
  /\ \A e \in Export : /\ Len(inFlight[e]) <= ExportWindow /\ size[e] \in 0..MaxPieces[e]
                       /\ inFlight[e] \in Seq(1..size[e]) /\ body[e] \in Seq(1..size[e])
  /\ uploads \subseteq Upload /\ Cardinality(uploads) <= MaxUploads
  /\ exports \subseteq Export /\ Cardinality(exports) <= MaxExports
  /\ size \in [Export -> Nat]
  /\ open \subseteq Upload
  /\ file \in [Upload -> {"none", "part", "left", "final", "pruned"}]
  /\ disk \in [Upload -> SUBSET Nat] /\ written \in [Upload -> SUBSET Nat]
  /\ \A u \in Upload : written[u] \subseteq disk[u] /\ disk[u] \subseteq 1..Chunks[u]

Init ==
  /\ wanted \in Workload
  /\ hub = [c \in Call |-> "unused"] /\ dev = [c \in Call |-> "none"]
  /\ handler = [t \in Transfer |-> "idle"] /\ told = [t \in Transfer |-> "nothing"]
  /\ stopped = {} /\ held = 0
  /\ inFlight = [e \in Export |-> <<>>] /\ body = [e \in Export |-> <<>>]
  /\ uploads = {} /\ exports = {} /\ size = [e \in Export |-> 0]
  /\ open = {} /\ file = [u \in Upload |-> "none"]
  /\ disk = [u \in Upload |-> {}] /\ written = [u \in Upload |-> {}]

-------------------------------------------------------------------------------
\* Calls

\* Manager.Call puts the requests C on the wire.
Send(C) ==
  /\ hub' = [c \in Call |-> IF c \in C THEN "open" ELSE hub[c]]
  /\ dev' = [c \in Call |-> IF c \in C THEN "sent" ELSE dev[c]]

\* The device's answer reaches the caller.
Return(c) ==
  /\ hub[c] = "open" /\ dev[c] \in {"ok", "error"}
  /\ hub' = [hub EXCEPT ![c] = dev[c]]
  /\ UNCHANGED <<wanted, dev, answering, hubState, device>>

\* The device is offline, the deadline has passed or the context is cancelled.
Fail(c) ==
  /\ hub[c] = "open"
  /\ hub' = [hub EXCEPT ![c] = "error"]
  /\ UNCHANGED <<wanted, dev, answering, hubState, device>>

\* The connector's dispatcher has no slot and answers "busy".
Overload(c) ==
  /\ dev[c] = "sent"
  /\ dev' = [dev EXCEPT ![c] = "error"]
  /\ UNCHANGED <<wanted, hub, answering, hubState, device>>

\* The connector goes from state s of a call to state t.
Step(c, s, t) == dev[c] = s /\ dev' = [dev EXCEPT ![c] = t]

\* A handler of the hub goes from state s to state t.
Go(r, s, t) == handler[r] = s /\ handler' = [handler EXCEPT ![r] = t]

Tell(r, answer) == told' = [told EXCEPT ![r] = answer]

\* Removal of temporary files; a file under its final name stays.
WithoutParts(X) == [u \in Upload |-> IF u \in X /\ file[u] = "part" THEN "none" ELSE file[u]]

-------------------------------------------------------------------------------
\* Mutants of the definitions below, each a slip the code could plausibly hold.

\* A beginUpload that writes to the final path at once.
InPlaceBegin(u, X) ==
  /\ Step(Begin(u), "sent", "ok")
  /\ X \subseteq uploads
  /\ Cardinality(uploads \ X) < MaxUploads
  /\ uploads' = (uploads \ X) \cup {u}
  /\ open' = (open \ X) \cup {u}
  /\ file' = [WithoutParts(X) EXCEPT ![u] = "final"]
  /\ UNCHANGED <<wanted, hub, answering, hubState, exports, size, disk, written>>

\* A handler that commits and answers 201 whatever the device says.
BlindCreated(u) ==
  /\ hub[Commit(u)] \in {"ok", "error"}
  /\ Go(u, "committing", "done")
  /\ Tell(u, "created")
  /\ held' = held - 1
  /\ UNCHANGED <<wanted, calls, stopped, inFlight, body, device>>

\* A commitUpload whose failures close the file and leave it there.
KeepRejected(u) ==
  /\ Step(Commit(u), "rejected", "error")
  /\ open' = open \ {u}
  /\ UNCHANGED <<wanted, hub, answering, hubState, uploads, exports, size, file, disk, written>>

\* A beginExport that does not look again after the capture.
UncheckedAddExport(e, n) ==
  /\ Step(Begin(e), "captured", "ok")
  /\ exports' = exports \cup {e}
  /\ size' = [size EXCEPT ![e] = n]
  /\ UNCHANGED <<wanted, hub, answering, hubState, uploads, files>>

\* An exportHistory that writes whichever piece has arrived.
WriteAnyPiece(e) ==
  \E i \in DOMAIN inFlight[e] :
    /\ handler[e] \in {"reading", "writing"}
    /\ hub[Read(e, inFlight[e][i])] = "ok"
    /\ body' = [body EXCEPT ![e] = Append(@, inFlight[e][i])]
    /\ inFlight' = [inFlight EXCEPT ![e] = SubSeq(@, 1, i - 1) \o SubSeq(@, i + 1, Len(@))]
    /\ handler' = [handler EXCEPT ![e] = "writing"]
    /\ UNCHANGED <<wanted, calls, told, stopped, held, device>>

\* A pruneUploads that passes over the names that begin with a dot.
VisiblePrune(u) ==
  /\ file[u] = "final"
  /\ file' = [file EXCEPT ![u] = "pruned"]
  /\ UNCHANGED <<wanted, calls, answering, hubState, uploads, exports, size, open, disk, written>>

-------------------------------------------------------------------------------
\* The hub's upload handler

\* Requests that are refused before any call: the device is offline or too old,
\* the size or the name is wrong, or the device has PerDevice uploads already.
Decline(r) ==
  /\ r \in wanted
  /\ Go(r, "idle", "done")
  /\ Tell(r, "error")
  /\ UNCHANGED <<wanted, calls, hubState, device>>

AcquireUpload(u) ==
  /\ u \in wanted
  /\ Go(u, "idle", "beginning")
  /\ held < PerDevice
  /\ held' = held + 1
  /\ Send({Begin(u)})
  /\ UNCHANGED <<wanted, told, stopped, inFlight, body, device>>

UploadBegun(u) ==
  /\ hub[Begin(u)] = "ok"
  /\ Go(u, "beginning", "sending")
  /\ UNCHANGED <<wanted, calls, told, hubState, device>>

BeginFails(u) ==
  /\ hub[Begin(u)] = "error"
  /\ Go(u, "beginning", "done")
  /\ Tell(u, "error")
  /\ held' = held - 1
  /\ UNCHANGED <<wanted, calls, stopped, inFlight, body, device>>

SentChunks(u) == {n \in 1..Chunks[u] : hub[Chunk(u, n)] # "unused"}
OpenChunks(u) == {n \in 1..Chunks[u] : hub[Chunk(u, n)] = "open"}

\* firstFailure is set, or the request's context has ended.
Failed(u) == u \in stopped \/ \E n \in 1..Chunks[u] : hub[Chunk(u, n)] = "error"

SendChunk(u) ==
  LET n == Cardinality(SentChunks(u)) + 1
  IN  /\ handler[u] = "sending"
      /\ n <= Chunks[u] /\ ~Failed(u)
      /\ Cardinality(OpenChunks(u)) < Window
      /\ Send({Chunk(u, n)})
      /\ UNCHANGED <<wanted, answering, hubState, device>>

BodyEnds(u) ==
  /\ handler[u] = "sending"
  /\ stopped' = stopped \cup {u}
  /\ UNCHANGED <<wanted, calls, answering, held, inFlight, body, device>>

\* wait.Wait has returned; the deferred abort runs after the answer.
GiveUp(u) ==
  /\ Go(u, "sending", "aborting")
  /\ OpenChunks(u) = {} /\ Failed(u)
  /\ Tell(u, "error")
  /\ Send({Abort(u)})
  /\ UNCHANGED <<wanted, hubState, device>>

SendCommit(u) ==
  /\ Go(u, "sending", "committing")
  /\ OpenChunks(u) = {} /\ ~Failed(u)
  /\ SentChunks(u) = 1..Chunks[u]
  /\ Send({Commit(u)})
  /\ UNCHANGED <<wanted, told, hubState, device>>

UploadCreated(u) ==
  /\ hub[Commit(u)] = "ok"
  /\ Go(u, "committing", "done")
  /\ Tell(u, "created")
  /\ held' = held - 1
  /\ UNCHANGED <<wanted, calls, stopped, inFlight, body, device>>

CommitFails(u) ==
  /\ hub[Commit(u)] = "error"
  /\ Go(u, "committing", "aborting")
  /\ Tell(u, "error")
  /\ Send({Abort(u)})
  /\ UNCHANGED <<wanted, hubState, device>>

\* The abort call is over, whatever came of it.
UploadEnds(u) ==
  /\ hub[Abort(u)] \in {"ok", "error"}
  /\ Go(u, "aborting", "done")
  /\ held' = held - 1
  /\ UNCHANGED <<wanted, calls, told, stopped, inFlight, body, device>>

-------------------------------------------------------------------------------
\* The connector's uploads

\* transfers.expire: X is what has been idle for too long.
Expire(X) ==
  /\ X # {} /\ X \subseteq uploads \cup exports
  /\ uploads' = uploads \ X /\ exports' = exports \ X
  /\ open' = open \ X
  /\ file' = WithoutParts(X)
  /\ UNCHANGED <<wanted, calls, answering, hubState, size, disk, written>>

\* beginUpload, which expires X first.
BeginUpload(u, X) ==
  /\ Step(Begin(u), "sent", "ok")
  /\ X \subseteq uploads \cup exports
  /\ Cardinality(uploads \ X) < MaxUploads
  /\ uploads' = (uploads \ X) \cup {u} /\ exports' = exports \ X
  /\ open' = (open \ X) \cup {u}
  /\ file' = [WithoutParts(X) EXCEPT ![u] = "part"]
  /\ UNCHANGED <<wanted, hub, answering, hubState, size, disk, written>>

\* A beginUpload that finds no room or no directory, or cannot create the file.
BeginRejected(u, X) ==
  /\ Step(Begin(u), "sent", "error")
  /\ X \subseteq uploads \cup exports
  /\ uploads' = uploads \ X /\ exports' = exports \ X
  /\ open' = open \ X
  /\ file' = WithoutParts(X)
  /\ UNCHANGED <<wanted, hub, answering, hubState, size, disk, written>>

\* lookupUpload of a chunk or a commit: the entry is used after the unlock.
LookUp(u, c) ==
  /\ c \in {Chunk(u, n) : n \in 1..Chunks[u]} \cup {Commit(u)}
  /\ Step(c, "sent", IF u \in uploads THEN "found" ELSE "error")
  /\ UNCHANGED <<wanted, hub, answering, hubState, device>>

WriteChunk(u, n) ==
  /\ u \in open
  /\ Step(Chunk(u, n), "found", "written")
  /\ disk' = [disk EXCEPT ![u] = @ \cup {n}]
  /\ UNCHANGED <<wanted, hub, answering, hubState, uploads, exports, size, open, file, written>>

\* The file has been closed meanwhile, or the disk is full.
WriteFails(u, n) ==
  /\ Step(Chunk(u, n), "found", "error")
  /\ UNCHANGED <<wanted, hub, answering, hubState, device>>

RecordChunk(u, n) ==
  /\ Step(Chunk(u, n), "written", "ok")
  /\ written' = [written EXCEPT ![u] = @ \cup {n}]
  /\ UNCHANGED <<wanted, hub, answering, hubState, uploads, exports, size, open, file, disk>>

\* commitUpload takes the entry out of the table and compares the sizes.
TakeUpload(u) ==
  /\ Step(Commit(u), "found", IF written[u] = 1..Chunks[u] THEN "taken" ELSE "rejected")
  /\ uploads' = uploads \ {u}
  /\ UNCHANGED <<wanted, hub, answering, hubState, exports, size, files>>

\* Sync, and the checksum of what is on the disk.
VerifyUpload(u) ==
  /\ u \in open /\ disk[u] = 1..Chunks[u]
  /\ Step(Commit(u), "taken", "verified")
  /\ UNCHANGED <<wanted, hub, answering, hubState, device>>

CloseUpload(u) ==
  /\ u \in open
  /\ Step(Commit(u), "verified", "closed")
  /\ open' = open \ {u}
  /\ UNCHANGED <<wanted, hub, answering, hubState, uploads, exports, size, file, disk, written>>

\* A failing Sync, Seek, Copy, checksum or Close.
CommitBreaks(u) ==
  /\ \E s \in {"taken", "verified"} : Step(Commit(u), s, "rejected")
  /\ UNCHANGED <<wanted, hub, answering, hubState, device>>

\* The closure `fail` of commitUpload.
RejectUpload(u) ==
  /\ Step(Commit(u), "rejected", "error")
  /\ open' = open \ {u}
  /\ file' = WithoutParts({u})
  /\ UNCHANGED <<wanted, hub, answering, hubState, uploads, exports, size, disk, written>>

RenameUpload(u) ==
  /\ file[u] = "part"
  /\ Step(Commit(u), "closed", "ok")
  /\ file' = [file EXCEPT ![u] = "final"]
  /\ UNCHANGED <<wanted, hub, answering, hubState, uploads, exports, size, open, disk, written>>

\* The temporary file is gone, or the rename fails and it is removed.
RenameFails(u) ==
  /\ Step(Commit(u), "closed", "error")
  /\ file' = WithoutParts({u})
  /\ UNCHANGED <<wanted, hub, answering, hubState, uploads, exports, size, open, disk, written>>

\* abortUpload: the entry goes under the lock, the file after it.
TakeAborted(u) ==
  /\ Step(Abort(u), "sent", IF u \in uploads THEN "taken" ELSE "ok")
  /\ uploads' = uploads \ {u}
  /\ UNCHANGED <<wanted, hub, answering, hubState, exports, size, files>>

RemoveAborted(u) ==
  /\ Step(Abort(u), "taken", "ok")
  /\ open' = open \ {u}
  /\ file' = WithoutParts({u})
  /\ UNCHANGED <<wanted, hub, answering, hubState, uploads, exports, size, disk, written>>

\* pruneUploads: temporary files after an hour, others after a week.  Nothing that
\* lives is an hour without a write: what is idle expires after two minutes.
Prune(u) ==
  /\ file[u] \in {"left", "final"}
  /\ file' = [file EXCEPT ![u] = IF @ = "final" THEN "pruned" ELSE "none"]
  /\ UNCHANGED <<wanted, calls, answering, hubState, uploads, exports, size, open, disk, written>>

\* The connector's process ends and another one starts.  The calls it had are lost,
\* which to the hub is an error like any other.
Restart ==
  /\ dev' = [c \in Call |-> IF dev[c] \in {"none", "ok"} THEN dev[c] ELSE "error"]
  /\ uploads' = {} /\ exports' = {} /\ open' = {}
  /\ file' = [u \in Upload |-> IF file[u] = "part" THEN "left" ELSE file[u]]
  /\ UNCHANGED <<wanted, hub, answering, hubState, size, disk, written>>

-------------------------------------------------------------------------------
\* Exports: the hub

\* `fill`: reads for the pieces after those written and those in flight.
Fill(e, done, flight) ==
  LET next == Len(done) + Len(flight) + 1
      last == IF ExportWindow < Len(flight) + size[e] + 1 - next
                THEN next + ExportWindow - Len(flight) - 1 ELSE size[e]
  IN  /\ body' = [body EXCEPT ![e] = done]
      /\ inFlight' = [inFlight EXCEPT ![e] =
                        flight \o [i \in 1..(last - next + 1) |-> next + i - 1]]
      /\ Send({Read(e, n) : n \in next..last})

StartExport(e) ==
  /\ e \in wanted
  /\ Go(e, "idle", "beginning")
  /\ Send({Begin(e)})
  /\ UNCHANGED <<wanted, told, hubState, device>>

ExportRefused(e) ==
  /\ hub[Begin(e)] = "error"
  /\ Go(e, "beginning", "done")
  /\ Tell(e, "error")
  /\ UNCHANGED <<wanted, calls, hubState, device>>

\* An empty history has no first piece to wait for.
ExportBegun(e) ==
  /\ hub[Begin(e)] = "ok"
  /\ Go(e, "beginning", IF size[e] = 0 THEN "writing" ELSE "reading")
  /\ Fill(e, <<>>, <<>>)
  /\ UNCHANGED <<wanted, told, stopped, held, device>>

\* The next piece in order has arrived and is written to the browser.
WritePiece(e) ==
  /\ handler[e] \in {"reading", "writing"}
  /\ inFlight[e] # <<>> /\ hub[Read(e, Head(inFlight[e]))] = "ok"
  /\ Fill(e, Append(body[e], Head(inFlight[e])), Tail(inFlight[e]))
  /\ handler' = [handler EXCEPT ![e] = "writing"]
  /\ UNCHANGED <<wanted, told, stopped, held, device>>

\* Before the first piece the browser gets an error, later a body that is too short.
PieceFails(e) ==
  /\ inFlight[e] # <<>> /\ hub[Read(e, Head(inFlight[e]))] = "error"
  /\ \/ Go(e, "reading", "closing") /\ Tell(e, "error")
     \/ Go(e, "writing", "closing") /\ Tell(e, "short")
  /\ Send({Close(e)})
  /\ UNCHANGED <<wanted, hubState, device>>

\* A write to the browser fails, that of the first piece included.
BrowserGone(e) ==
  /\ \/ Go(e, "writing", "closing")
     \/ Go(e, "reading", "closing") /\ hub[Read(e, 1)] = "ok"
  /\ Tell(e, "short")
  /\ Send({Close(e)})
  /\ UNCHANGED <<wanted, hubState, device>>

ExportWritten(e) ==
  /\ inFlight[e] = <<>>
  /\ Go(e, "writing", "closing")
  /\ Tell(e, "complete")
  /\ Send({Close(e)})
  /\ UNCHANGED <<wanted, hubState, device>>

ExportEnds(e) ==
  /\ hub[Close(e)] \in {"ok", "error"}
  /\ Go(e, "closing", "done")
  /\ UNCHANGED <<wanted, calls, told, hubState, device>>

-------------------------------------------------------------------------------
\* Exports: the connector

\* beginExport up to its first unlock; the capture follows without the lock.
CheckExports(e, X) ==
  /\ X \subseteq uploads \cup exports
  /\ Step(Begin(e), "sent", IF Cardinality(exports \ X) < MaxExports THEN "captured" ELSE "error")
  /\ uploads' = uploads \ X /\ exports' = exports \ X
  /\ open' = open \ X
  /\ file' = WithoutParts(X)
  /\ UNCHANGED <<wanted, hub, answering, hubState, size, disk, written>>

AddExport(e, n) ==
  /\ Step(Begin(e), "captured", "ok")
  /\ Cardinality(exports) < MaxExports
  /\ exports' = exports \cup {e}
  /\ size' = [size EXCEPT ![e] = n]
  /\ UNCHANGED <<wanted, hub, answering, hubState, uploads, files>>

\* tmux fails, the history is too large, or the table has filled up meanwhile.
CaptureRejected(e) ==
  /\ Step(Begin(e), "captured", "error")
  /\ UNCHANGED <<wanted, hub, answering, hubState, device>>

ReadExport(e, n) ==
  /\ Step(Read(e, n), "sent", IF e \in exports THEN "ok" ELSE "error")
  /\ UNCHANGED <<wanted, hub, answering, hubState, device>>

CloseExport(e) ==
  /\ Step(Close(e), "sent", "ok")
  /\ exports' = exports \ {e}
  /\ UNCHANGED <<wanted, hub, answering, hubState, uploads, size, files>>

-------------------------------------------------------------------------------
HubUpload(u) ==
  \/ Decline(u) \/ AcquireUpload(u) \/ UploadBegun(u) \/ BeginFails(u)
  \/ SendChunk(u) \/ BodyEnds(u) \/ GiveUp(u) \/ SendCommit(u)
  \/ UploadCreated(u) \/ CommitFails(u) \/ UploadEnds(u)

\* What the connector does once an upload has left its table.
FinishUpload(u) ==
  \/ VerifyUpload(u) \/ CloseUpload(u) \/ CommitBreaks(u) \/ RejectUpload(u)
  \/ RenameUpload(u) \/ RenameFails(u) \/ RemoveAborted(u)

DeviceUpload(u) ==
  \/ \E X \in SUBSET (uploads \cup exports) : BeginUpload(u, X) \/ BeginRejected(u, X)
  \/ \E c \in Call : LookUp(u, c)
  \/ \E n \in 1..Chunks[u] : WriteChunk(u, n) \/ WriteFails(u, n) \/ RecordChunk(u, n)
  \/ TakeUpload(u) \/ TakeAborted(u) \/ FinishUpload(u) \/ Prune(u)

HubExport(e) ==
  \/ Decline(e) \/ StartExport(e) \/ ExportRefused(e) \/ ExportBegun(e)
  \/ WritePiece(e) \/ PieceFails(e) \/ BrowserGone(e) \/ ExportWritten(e) \/ ExportEnds(e)

DeviceExport(e) ==
  \/ \E X \in SUBSET (uploads \cup exports) : CheckExports(e, X)
  \/ \E n \in 0..MaxPieces[e] : AddExport(e, n)
  \/ CaptureRejected(e) \/ CloseExport(e)
  \/ \E n \in 1..MaxPieces[e] : ReadExport(e, n)

Next ==
  \/ \E u \in Upload : HubUpload(u) \/ DeviceUpload(u)
  \/ \E e \in Export : HubExport(e) \/ DeviceExport(e)
  \/ \E c \in Call : Return(c) \/ Fail(c) \/ Overload(c)
  \/ \E X \in SUBSET (uploads \cup exports) : Expire(X)
  \/ Restart

Spec == Init /\ [][Next]_vars

\* cleanUploads runs every two minutes for ever, and commits and aborts that have
\* taken their upload get through their few operations on the disk.
Housekeeping ==
  \/ \E X \in SUBSET (uploads \cup exports) : Expire(X)
  \/ \E u \in Upload : FinishUpload(u) \/ (file[u] = "left" /\ Prune(u))

FairSpec == Spec /\ WF_vars(Housekeeping)

-------------------------------------------------------------------------------
\* A file that is visible under its name is complete, whatever aborts, expiries,
\* late chunks and restarts came in between (commitUpload).
FinalIsWhole == \A u \in Upload : file[u] = "final" => disk[u] = 1..Chunks[u]

\* The browser is told "created" only of a file that is there, until the week is
\* over (the hub's upload, commitUpload).
CreatedIsSaved == \A u \in Upload : told[u] = "created" => file[u] \in {"final", "pruned"}

\* Whoever may still remove or rename the temporary file of an upload.
Working(u) ==
  \/ u \in uploads
  \/ dev[Commit(u)] \in {"taken", "rejected", "verified", "closed"}
  \/ dev[Abort(u)] = "taken"

\* A temporary file and an open file belong to an entry of the table or to a commit
\* or an abort under way: no path of errors leaves one behind (upload's methods).
FilesAreOwned == \A u \in Upload : file[u] = "part" \/ u \in open => Working(u)

\* The browser gets the pieces of a history in order, and all of them if the answer
\* is not cut short, although the reads return in any order (exportHistory).
ExportInOrder ==
  \A e \in Export :
    /\ body[e] = [i \in 1..Len(body[e]) |-> i]
    /\ told[e] = "complete" => Len(body[e]) = size[e]

Leftover(t) == t \in exports \/ t \in open \/ (t \in Upload /\ file[t] \in {"part", "left"})

\* Nothing a transfer needs stays on the device for ever, even if the browser, the
\* hub or the connector is gone (cleanUploads).
LeftoversGo == \A t \in Transfer : Leftover(t) ~> ~Leftover(t)
===============================================================================
