---- MODULE FileTransfer ----
(***************************************************************************)
(* One file on its way from one participant to the other over the data     *)
(* channel of an attendance.  The two applications run the same            *)
(* FileTransferClient; here the professor's copy sends and the student's   *)
(* copy receives, each over the FileTransferStorage of its own main        *)
(* process.                                                                *)
(*                                                                         *)
(* A handler runs to its next await in one step.  What is pending at an    *)
(* await is state: a pump waiting for readChunk, completeOutgoing waiting  *)
(* for verifySource, a resend, and on the receiving side the storage call  *)
(* of the message being handled (receiveQueue admits one at a time) and    *)
(* the one a click on "Aceitar" started beside it.  A storage call is two  *)
(* steps: the main process acts on the disk, then the renderer reads the   *)
(* answer; everything else may happen in between.                          *)
(***************************************************************************)
EXTENDS Integers, Sequences, FiniteSets, FiniteSetsExt

CONSTANTS
    Sizes,          \* values metadata.totalChunks may have
    Window,         \* MAX_IN_FLIGHT_CHUNKS
    Pumps,          \* places for concurrent pumpOutgoing calls, a bound
    AutoReceive,    \* values the receiver's automatic switch may have
    Limits          \* bounds on the events of World, and on disk faults

ASSUME TransferAssumption ==
    /\ Sizes \subseteq Nat
    /\ Window \in Nat \ {0}
    /\ Pumps \subseteq Nat
    /\ AutoReceive \subseteq BOOLEAN
    /\ Limits \subseteq [{"drop", "fault", "edit", "click", "close", "restart"} -> Nat]

VARIABLES
    snd,        \* the sender's TransferState
    pump,       \* chunk each pumpOutgoing call waits for, or Idle
    verifying,  \* completeOutgoing calls waiting for verifySource
    resend,     \* chunks the current resendChunks call has left, or NoResend
    source,     \* the sender's RegisteredSource and the file behind it
    rcv,        \* the receiver's TransferState
    task,       \* the receiver's storage calls: from its queue, from a click
    disk,       \* the receiver's ReceiveRecord, partial files and final file
    toRcv,      \* the channel towards the receiver, with its receiveQueue
    toSnd,      \* the channel towards the sender, with its receiveQueue
    open,       \* the data channel is open
    left        \* what is left of the bounds

sender   == <<snd, pump, verifying, resend, source>>
receiver == <<rcv, task, disk>>
vars == <<sender, receiver, toRcv, toSnd, open, left>>

TotalChunks == source.total
Chunks   == 0 .. TotalChunks - 1
Idle     == -1
NoResend == {Idle}
Terminal == {"completed", "cancelled", "failed", "rejected"}
Statuses == Terminal \cup {"none", "waiting", "sending", "receiving", "paused", "closed"}
NoAudit  == "none"
NoTask   == [op |-> "none"]
NoTasks  == [by \in {"queue", "click"} |-> NoTask]

----------------------------------------------------------------------------
(* Helpers shared by the two sides.                                        *)

Ended(transfer) == transfer.status \in Terminal \cup {"none", "closed"}

\* sendControl: silently nothing when the channel is not open.
Sent(queue, message) == IF open THEN Append(queue, message) ELSE queue

\* writeAudit: at most one entry for an attempt.
Audited(transfer, result) ==
    IF transfer.audit = NoAudit THEN [transfer EXCEPT !.audit = result] ELSE transfer

\* failTransfer, and the notice it sends when notifyPeer is set.
Failed(transfer) ==
    IF Ended(transfer) THEN transfer
    ELSE Audited([transfer EXCEPT !.status = "failed", !.pumping = FALSE], "failed")

FailNotice(transfer, queue) ==
    IF Ended(transfer) THEN queue ELSE Sent(queue, [type |-> "error"])

\* The catch blocks: a closed channel pauses the transfer, anything else fails it.
Caught(transfer) == IF open THEN Failed(transfer) ELSE [transfer EXCEPT !.status = "paused"]

Spend(kind) == left[kind] > 0 /\ left' = [left EXCEPT ![kind] = @ - 1]

NewTransfer == [status |-> "waiting", next |-> 0, ack |-> 0,
                pumping |-> FALSE, completionSent |-> FALSE, audit |-> NoAudit]

----------------------------------------------------------------------------
(* The sender.                                                             *)

\* The condition of the pump's loop.
CanPump(transfer) ==
    /\ transfer.status = "sending" /\ open
    /\ transfer.next < TotalChunks
    /\ transfer.next < transfer.ack + Window

\* completeOutgoing up to its await.
StartCompletion(transfer) ==
    /\ snd' = [transfer EXCEPT !.completionSent = TRUE]
    /\ verifying' = verifying + 1
    /\ UNCHANGED pump

\* pumpOutgoing up to its first await: one call at a time as far as the flag
\* tells; an empty file has nothing to pump and is completed at once.
StartPump(transfer) ==
    \/ /\ ~transfer.pumping /\ CanPump(transfer)
       /\ LET free == Min({p \in Pumps : pump[p] = Idle})
          IN  pump' = [pump EXCEPT ![free] = transfer.next]
       /\ snd' = [transfer EXCEPT !.pumping = TRUE]
       /\ UNCHANGED verifying
    \/ /\ ~transfer.pumping /\ ~CanPump(transfer) /\ transfer.status = "sending"
       /\ TotalChunks = 0 /\ ~transfer.completionSent /\ open
       /\ StartCompletion(transfer)
    \/ /\ \/ transfer.pumping
          \/ transfer.status # "sending"
          \/ ~CanPump(transfer) /\ (TotalChunks # 0 \/ transfer.completionSent \/ ~open)
       /\ snd' = transfer
       /\ UNCHANGED <<pump, verifying>>

\* registerFiles keeps the source; enqueueFiles sends the request.
EnqueueFiles ==
    /\ snd.status = "none"
    /\ snd' = NewTransfer
    /\ source' = [source EXCEPT !.kept = TRUE]
    /\ toRcv' = Sent(toRcv, [type |-> "request"])
    /\ UNCHANGED <<pump, verifying, resend, receiver, toSnd, open, left>>

\* readChunk has answered: send the chunk and look at the loop's condition
\* again.  A read answered before the source was released still goes out.
PumpSends(p) ==
    /\ pump[p] # Idle
    /\ open
    /\ toRcv' = Append(toRcv, [type |-> "chunk", index |-> pump[p], intact |-> source.intact])
    /\ LET moved == [snd EXCEPT !.next = @ + 1]
       IN  /\ pump' = [pump EXCEPT ![p] = IF CanPump(moved) THEN moved.next ELSE Idle]
           /\ snd'  = IF CanPump(moved) THEN moved ELSE [moved EXCEPT !.pumping = FALSE]
    /\ UNCHANGED <<verifying, resend, source, receiver, toSnd, open, left>>

\* readChunk rejected because the source was released, or the channel was
\* gone when the chunk was to be sent.
PumpFails(p) ==
    /\ pump[p] # Idle
    /\ ~open \/ ~source.kept
    /\ snd'   = [Caught(snd) EXCEPT !.pumping = FALSE]
    /\ toRcv' = IF open THEN FailNotice(snd, toRcv) ELSE toRcv
    /\ pump'  = [pump EXCEPT ![p] = Idle]
    /\ UNCHANGED <<verifying, resend, source, receiver, toSnd, open, left>>

\* verifySource has answered.
CompleteOutgoing ==
    /\ verifying > 0
    /\ verifying' = verifying - 1
    /\ IF source.kept /\ source.intact
       THEN snd' = snd /\ toRcv' = Sent(toRcv, [type |-> "complete"])
       ELSE IF source.kept
       THEN snd' = Failed(snd) /\ toRcv' = FailNotice(snd, toRcv)
       ELSE snd' = Caught(snd) /\ toRcv' = IF open THEN FailNotice(snd, toRcv) ELSE toRcv
    /\ UNCHANGED <<pump, resend, source, receiver, toSnd, open, left>>

\* The sender's receiveQueue: the next message, once the last is handled.
Hears(type) ==
    /\ resend = NoResend
    /\ toSnd # <<>> /\ Head(toSnd).type = type
    /\ toSnd' = Tail(toSnd)
    /\ UNCHANGED <<receiver, open, left>>

SenderKnows == snd.status \notin {"none", "closed"}

HandleAccepted ==
    /\ Hears("accept")
    /\ IF SenderKnows
       THEN StartPump([snd EXCEPT !.status = "sending", !.next = Head(toSnd).next,
                                  !.ack = Head(toSnd).next, !.completionSent = FALSE])
       ELSE UNCHANGED <<snd, pump, verifying>>
    /\ UNCHANGED <<resend, source, toRcv>>

HandleAcknowledgementIdly ==
    /\ Hears("ack")
    /\ LET next == Head(toSnd).next
           moved == [snd EXCEPT !.ack = next]
       IN  IF snd.status # "sending" \/ next < snd.ack
           THEN UNCHANGED <<snd, pump, verifying>>
           ELSE IF next # TotalChunks \/ snd.completionSent
           THEN snd' = moved /\ UNCHANGED <<pump, verifying>>
           ELSE StartCompletion(moved)
    /\ UNCHANGED <<resend, source, toRcv>>

HandleAcknowledgement ==
    /\ Hears("ack")
    /\ LET next == Head(toSnd).next
           moved == [snd EXCEPT !.ack = next]
       IN  IF snd.status # "sending" \/ next < snd.ack
           THEN UNCHANGED <<snd, pump, verifying>>
           ELSE IF next # TotalChunks
           THEN StartPump(moved)
           ELSE IF snd.completionSent
           THEN snd' = moved /\ UNCHANGED <<pump, verifying>>
           ELSE StartCompletion(moved)
    /\ UNCHANGED <<resend, source, toRcv>>

HandleRejected ==
    /\ Hears("reject")
    /\ snd' = IF SenderKnows THEN Audited([snd EXCEPT !.status = "rejected"], "rejected") ELSE snd
    /\ UNCHANGED <<pump, verifying, resend, source, toRcv>>

HandleVerifiedUnlessEnded ==
    /\ Hears("verified")
    /\ IF Ended(snd)
       THEN UNCHANGED <<snd, source>>
       ELSE /\ snd' = Audited([snd EXCEPT !.status = "completed"], "completed")
            /\ source' = [source EXCEPT !.kept = FALSE]
    /\ UNCHANGED <<pump, verifying, resend, toRcv>>

HandleVerified ==
    /\ Hears("verified")
    /\ IF SenderKnows
       THEN /\ snd' = Audited([snd EXCEPT !.status = "completed"], "completed")
            /\ source' = [source EXCEPT !.kept = FALSE]
       ELSE UNCHANGED <<snd, source>>
    /\ UNCHANGED <<pump, verifying, resend, toRcv>>

\* resendChunks is awaited: the queue stands still until it ends.
HandleRetry ==
    /\ Hears("retry")
    /\ resend' = IF SenderKnows THEN Head(toSnd).indexes ELSE NoResend
    /\ UNCHANGED <<snd, pump, verifying, source, toRcv>>

ResendChunk ==
    /\ resend \notin {NoResend, {}}
    /\ source.kept /\ open
    /\ LET index == Min(resend)
       IN  /\ toRcv' = Append(toRcv, [type |-> "chunk", index |-> index, intact |-> source.intact])
           /\ resend' = resend \ {index}
    /\ UNCHANGED <<snd, pump, verifying, source, receiver, toSnd, open, left>>

ResendFails ==
    /\ resend \notin {NoResend, {}}
    /\ ~source.kept \/ ~open
    /\ snd'    = Caught(snd)
    /\ toRcv'  = IF open THEN FailNotice(snd, toRcv) ELSE toRcv
    /\ resend' = NoResend
    /\ UNCHANGED <<pump, verifying, source, receiver, toSnd, open, left>>

ResendDone ==
    /\ resend = {}
    /\ resend' = NoResend
    /\ toRcv'  = Sent(toRcv, [type |-> "complete"])
    /\ UNCHANGED <<snd, pump, verifying, source, receiver, toSnd, open, left>>

SenderCancelled ==
    /\ snd' = Audited([snd EXCEPT !.status = "cancelled"], "cancelled")
    /\ source' = [source EXCEPT !.kept = FALSE]

HandleCancelSent ==
    /\ Hears("cancel")
    /\ IF Ended(snd) THEN UNCHANGED <<snd, source>> ELSE SenderCancelled
    /\ UNCHANGED <<pump, verifying, resend, toRcv>>

HandleErrorSent ==
    /\ Hears("error")
    /\ snd' = Failed(snd)
    /\ UNCHANGED <<pump, verifying, resend, source, toRcv>>

\* The buttons of the sender's list.
CancelSent ==
    /\ ~Ended(snd)
    /\ SenderCancelled
    /\ Spend("click")
    /\ toRcv' = Sent(toRcv, [type |-> "cancel"])
    /\ UNCHANGED <<pump, verifying, resend, receiver, toSnd, open>>

RetryTransfer ==
    /\ snd.status \in {"failed", "rejected"} /\ open
    /\ Spend("click")
    /\ snd' = NewTransfer
    /\ toRcv' = Sent(toRcv, [type |-> "request"])
    /\ UNCHANGED <<pump, verifying, resend, source, receiver, toSnd, open>>

CloseSent ==
    /\ snd.status \in {"completed", "cancelled"}
    /\ Spend("close")
    /\ snd' = [snd EXCEPT !.status = "closed"]
    /\ UNCHANGED <<pump, verifying, resend, source, receiver, toRcv, toSnd, open>>

----------------------------------------------------------------------------
(* The receiver's storage, in its main process.                            *)

NextChunkIndexBySize(chunks, start) ==
    Max({start} \cup {k + 1 : k \in {i \in Chunks : chunks[i] # "absent"}})

\* findNextChunkIndex: the first chunk from start on with no digest on disk.
NextChunkIndex(chunks, start) ==
    Min({k \in start .. TotalChunks : k = TotalChunks \/ chunks[k] = "absent"})

NoChunks == [k \in Chunks |-> "absent"]

\* Answers reach the renderer in the order the main process gives them.
AnswersRead == \A by \in DOMAIN task : task[by].op \in {"none", "prepare", "write", "complete"}

\* prepareReceive: resume from the partial files, or start anew, which may
\* end in the duplicate dialog being cancelled.  A fault is a full disk.
PrepareReceive(by) ==
    /\ task[by] = [op |-> "prepare"] /\ AnswersRead
    /\ \/ /\ disk.partial
          /\ LET next == NextChunkIndex(disk.chunks, 0)
             IN  /\ disk' = [disk EXCEPT !.record = TRUE, !.next = next]
                 /\ task' = [task EXCEPT ![by] = [op |-> "prepared", next |-> next]]
          /\ UNCHANGED left
       \/ /\ ~disk.partial
          /\ disk' = [disk EXCEPT !.record = TRUE, !.partial = TRUE,
                                  !.next = 0, !.chunks = NoChunks]
          /\ task' = [task EXCEPT ![by] = [op |-> "prepared", next |-> 0]]
          /\ UNCHANGED left
       \/ /\ ~disk.partial
          /\ task' = [task EXCEPT ![by] = [op |-> "refused"]]
          /\ UNCHANGED <<disk, left>>
       \/ /\ Spend("fault")
          /\ task' = [task EXCEPT ![by] = [op |-> "prepare failed"]]
          /\ UNCHANGED disk
    /\ UNCHANGED <<sender, rcv, toRcv, toSnd, open>>

\* writeChunk: the answer is the first index missing, not the one after the
\* chunk written.  A fault is a write error or a chunk that does not match
\* its digest.
WriteChunk ==
    /\ task["queue"].op = "write" /\ AnswersRead
    /\ LET index  == task["queue"].index
           chunks == [disk.chunks EXCEPT ![index] = IF task["queue"].intact THEN "good" ELSE "changed"]
           next   == IF index = disk.next THEN NextChunkIndex(chunks, disk.next) ELSE disk.next
       IN  \/ /\ disk.record
              /\ disk' = [disk EXCEPT !.chunks = chunks, !.next = next]
              /\ task' = [task EXCEPT !["queue"] = [op |-> "written", next |-> next]]
              /\ UNCHANGED left
           \/ /\ ~disk.record
              /\ task' = [task EXCEPT !["queue"] = [op |-> "write failed"]]
              /\ UNCHANGED <<disk, left>>
           \/ /\ Spend("fault")
              /\ task' \in {[task EXCEPT !["queue"] = [op |-> "write failed"]],
                            [task EXCEPT !["queue"] = [op |-> "corrupt", index |-> index]]}
              /\ UNCHANGED disk
    /\ UNCHANGED <<sender, rcv, toRcv, toSnd, open>>

BadChunksByDigest == {k \in Chunks : disk.chunks[k] = "absent"}

\* findBadChunks, and every chunk when only the digest of the whole differs.
BadChunks ==
    LET absent == {k \in Chunks : disk.chunks[k] = "absent"}
    IN  IF absent # {} THEN absent
        ELSE IF \E k \in Chunks : disk.chunks[k] = "changed" THEN Chunks
        ELSE {}

\* completeReceive: the part becomes the final file only when it is whole.
CompleteReceive ==
    /\ task["queue"] = [op |-> "complete"] /\ AnswersRead
    /\ \/ /\ ~disk.record
          /\ task' = [task EXCEPT !["queue"] = [op |-> "complete failed"]]
          /\ UNCHANGED <<disk, left>>
       \/ /\ disk.record /\ BadChunks # {}
          /\ task' = [task EXCEPT !["queue"] = [op |-> "bad", indexes |-> BadChunks]]
          /\ UNCHANGED <<disk, left>>
       \/ /\ disk.record /\ BadChunks = {}
          /\ disk' = [disk EXCEPT !.record = FALSE, !.partial = FALSE, !.final = disk.chunks]
          /\ task' = [task EXCEPT !["queue"] = [op |-> "valid"]]
          /\ UNCHANGED left
       \/ /\ Spend("fault")
          /\ task' = [task EXCEPT !["queue"] = [op |-> "complete failed"]]
          /\ UNCHANGED disk
    /\ UNCHANGED <<sender, rcv, toRcv, toSnd, open>>

\* cancelReceive: without a record the partial files stay.
CancelReceive ==
    disk' = IF disk.record THEN [disk EXCEPT !.record = FALSE, !.partial = FALSE] ELSE disk

----------------------------------------------------------------------------
(* The receiver.                                                           *)

\* The receiver's receiveQueue: the next message, once the last is handled.
Gets(type) ==
    /\ task["queue"] = NoTask
    /\ toRcv # <<>> /\ Head(toRcv).type = type
    /\ toRcv' = Tail(toRcv)
    /\ UNCHANGED <<sender, open, left>>

\* The automatic switch decides whether a request is prepared at once.
PrepareIfAutomatic ==
    \E automatic \in AutoReceive :
        task' = IF automatic THEN [task EXCEPT !["queue"] = [op |-> "prepare"]] ELSE task

HandleIncomingRequest ==
    /\ Gets("request")
    /\ CASE rcv.status = "none" ->
                rcv' = NewTransfer /\ PrepareIfAutomatic /\ UNCHANGED toSnd
         [] rcv.status = "completed" ->
                toSnd' = Sent(toSnd, [type |-> "verified"]) /\ UNCHANGED <<rcv, task>>
         [] rcv.status \in {"receiving", "paused"} ->
                task' = [task EXCEPT !["queue"] = [op |-> "prepare"]] /\ UNCHANGED <<rcv, toSnd>>
         [] rcv.status \in {"failed", "rejected"} ->
                /\ rcv' = [rcv EXCEPT !.status = "waiting", !.audit = NoAudit]
                /\ PrepareIfAutomatic /\ UNCHANGED toSnd
         [] OTHER -> UNCHANGED <<rcv, task, toSnd>>
    /\ UNCHANGED disk

\* rejectIncoming.
RejectIncoming ==
    /\ rcv' = Audited([rcv EXCEPT !.status = "rejected"], "rejected")
    /\ toSnd' = Sent(toSnd, [type |-> "reject"])

\* prepareAndAccept after its await: whatever the status has become since.
PrepareAndAccept(by) ==
    /\ task[by].op \in {"prepared", "refused", "prepare failed"}
    /\ task' = [task EXCEPT ![by] = NoTask]
    /\ CASE task[by].op = "prepared" ->
                /\ rcv' = [rcv EXCEPT !.status = "receiving", !.ack = task[by].next]
                /\ toSnd' = Sent(toSnd, [type |-> "accept", next |-> task[by].next])
         [] task[by].op = "refused" -> RejectIncoming
         [] OTHER ->
                /\ rcv' = Caught(rcv)
                /\ toSnd' = IF open THEN FailNotice(rcv, toSnd) ELSE toSnd
    /\ UNCHANGED <<sender, disk, toRcv, open, left>>

HandleBinaryFrame ==
    /\ Gets("chunk")
    /\ IF rcv.status \in {"receiving", "paused"}
       THEN /\ rcv' = [rcv EXCEPT !.status = "receiving"]
            /\ task' = [task EXCEPT !["queue"] =
                  [op |-> "write", index |-> Head(toRcv).index, intact |-> Head(toRcv).intact]]
       ELSE UNCHANGED <<rcv, task>>
    /\ UNCHANGED <<disk, toSnd>>

FrameWritten ==
    /\ task["queue"].op \in {"written", "corrupt", "write failed"}
    /\ task' = [task EXCEPT !["queue"] = NoTask]
    /\ CASE task["queue"].op = "written" ->
                /\ rcv' = [rcv EXCEPT !.ack = task["queue"].next]
                /\ toSnd' = Sent(toSnd, [type |-> "ack", next |-> task["queue"].next])
         [] task["queue"].op = "corrupt" ->
                /\ toSnd' = Sent(toSnd, [type |-> "retry", indexes |-> {task["queue"].index}])
                /\ UNCHANGED rcv
         [] OTHER ->
                rcv' = Failed(rcv) /\ toSnd' = Sent(toSnd, [type |-> "error"])
    /\ UNCHANGED <<sender, disk, toRcv, open, left>>

\* "complete" and "retry-complete" are handled alike, and both whatever the
\* status of the transfer is.
VerifyIncoming ==
    /\ Gets("complete")
    /\ task' = IF rcv.status = "none" THEN task ELSE [task EXCEPT !["queue"] = [op |-> "complete"]]
    /\ UNCHANGED <<rcv, disk, toSnd>>

IncomingVerified ==
    /\ task["queue"].op \in {"valid", "bad", "complete failed"}
    /\ task' = [task EXCEPT !["queue"] = NoTask]
    /\ CASE task["queue"].op = "valid" ->
                /\ rcv' = Audited([rcv EXCEPT !.status = "completed"], "completed")
                /\ toSnd' = Sent(toSnd, [type |-> "verified"])
         [] task["queue"].op = "bad" ->
                /\ toSnd' = Sent(toSnd, [type |-> "retry", indexes |-> task["queue"].indexes])
                /\ UNCHANGED rcv
         [] OTHER ->
                /\ rcv' = Caught(rcv)
                /\ toSnd' = IF open THEN FailNotice(rcv, toSnd) ELSE toSnd
    /\ UNCHANGED <<sender, disk, toRcv, open, left>>

ReceiverCancelledKeepingFile ==
    /\ rcv' = Audited([rcv EXCEPT !.status = "cancelled"], "cancelled")
    /\ UNCHANGED disk

ReceiverCancelled ==
    /\ rcv' = Audited([rcv EXCEPT !.status = "cancelled"], "cancelled")
    /\ CancelReceive

HandleCancelReceived ==
    /\ Gets("cancel")
    /\ IF Ended(rcv) THEN UNCHANGED <<rcv, disk>> ELSE ReceiverCancelled
    /\ UNCHANGED <<task, toSnd>>

HandleErrorReceived ==
    /\ Gets("error")
    /\ rcv' = Failed(rcv)
    /\ UNCHANGED <<task, disk, toSnd>>

\* The buttons of the receiver's list.
AcceptIncoming ==
    /\ rcv.status = "waiting" /\ task["click"] = NoTask
    /\ Spend("click")
    /\ task' = [task EXCEPT !["click"] = [op |-> "prepare"]]
    /\ UNCHANGED <<sender, rcv, disk, toRcv, toSnd, open>>

ClickReject ==
    /\ rcv.status = "waiting"
    /\ Spend("click")
    /\ RejectIncoming
    /\ UNCHANGED <<sender, task, disk, toRcv, open>>

CancelReceived ==
    /\ rcv.status \in {"receiving", "paused"}
    /\ ReceiverCancelled
    /\ Spend("click")
    /\ toSnd' = Sent(toSnd, [type |-> "cancel"])
    /\ UNCHANGED <<sender, task, toRcv, open>>

\* The entry is forgotten: the same transferId would be a new transfer.  A
\* bound: not while a storage call for the entry is out.
CloseReceived ==
    /\ rcv.status \in Terminal /\ task = NoTasks
    /\ Spend("close")
    /\ rcv' = [rcv EXCEPT !.status = "none"]
    /\ UNCHANGED <<sender, task, disk, toRcv, toSnd, open>>

----------------------------------------------------------------------------
(* The channel, and the file behind the source.                            *)

Paused(transfer) ==
    [transfer EXCEPT !.status = IF @ \in {"sending", "receiving"} THEN "paused" ELSE @,
                     !.pumping = FALSE]

\* detachChannel on both sides.  What had reached a receiveQueue is still
\* handled; the rest of what was in flight is lost.
DetachChannel ==
    /\ open /\ Spend("drop")
    /\ open' = FALSE
    /\ snd' = Paused(snd) /\ rcv' = Paused(rcv)
    /\ \E n \in 0 .. Len(toRcv) : toRcv' = SubSeq(toRcv, 1, n)
    /\ \E n \in 0 .. Len(toSnd) : toSnd' = SubSeq(toSnd, 1, n)
    /\ UNCHANGED <<pump, verifying, resend, source, task, disk>>

\* attachChannel with a new channel, and handleChannelOpen.
HandleChannelOpen ==
    /\ ~open
    /\ open' = TRUE
    /\ IF Ended(snd)
       THEN UNCHANGED <<snd, toRcv>>
       ELSE /\ snd' = [snd EXCEPT !.status = "waiting", !.pumping = FALSE, !.completionSent = FALSE]
            /\ toRcv' = Append(toRcv, [type |-> "request"])
    /\ UNCHANGED <<pump, verifying, resend, source, receiver, toSnd, left>>

\* The receiver's application is started again while it is disconnected: the
\* partial files are still there, what its two processes knew is not.
ReceiverRestarts ==
    /\ ~open /\ Spend("restart")
    /\ rcv' = [NewTransfer EXCEPT !.status = "none"]
    /\ task' = NoTasks
    /\ disk' = [disk EXCEPT !.record = FALSE]
    /\ toRcv' = <<>>
    /\ UNCHANGED <<sender, toSnd, open>>

\* Somebody edits the file on the sender's disk, or puts it back.
EditSource ==
    /\ Spend("edit")
    /\ source' = [source EXCEPT !.intact = ~@]
    /\ UNCHANGED <<snd, pump, verifying, resend, receiver, toRcv, toSnd, open>>

----------------------------------------------------------------------------
Init ==
    /\ snd = [NewTransfer EXCEPT !.status = "none"]
    /\ pump = [p \in Pumps |-> Idle]
    /\ verifying = 0
    /\ resend = NoResend
    /\ source \in [total : Sizes, kept : {FALSE}, intact : {TRUE}]
    /\ rcv = [NewTransfer EXCEPT !.status = "none"]
    /\ task = NoTasks
    /\ disk = [record |-> FALSE, partial |-> FALSE, next |-> 0,
               chunks |-> NoChunks, final |-> NoChunks]
    /\ toRcv = <<>> /\ toSnd = <<>>
    /\ open = TRUE
    /\ left \in Limits

\* What the two programs do by themselves.
Program ==
    \/ \E p \in Pumps : PumpSends(p) \/ PumpFails(p)
    \/ CompleteOutgoing \/ ResendChunk \/ ResendFails \/ ResendDone
    \/ HandleAccepted \/ HandleAcknowledgement \/ HandleRejected \/ HandleVerified
    \/ HandleRetry \/ HandleCancelSent \/ HandleErrorSent
    \/ \E by \in {"queue", "click"} : PrepareReceive(by) \/ PrepareAndAccept(by)
    \/ WriteChunk \/ FrameWritten \/ CompleteReceive \/ IncomingVerified
    \/ HandleIncomingRequest \/ HandleBinaryFrame \/ VerifyIncoming
    \/ HandleCancelReceived \/ HandleErrorReceived
    \/ HandleChannelOpen

\* What the two people, the network and other programs do.
World ==
    \/ EnqueueFiles \/ CancelSent \/ RetryTransfer \/ CloseSent
    \/ AcceptIncoming \/ ClickReject \/ CancelReceived \/ CloseReceived
    \/ DetachChannel \/ ReceiverRestarts \/ EditSource

Next == Program \/ World

Spec == Init /\ [][Next]_vars

\* The event loops, the disk and a reliable channel keep going.
FairSpec == Spec /\ WF_vars(Program) /\ WF_vars(CompleteOutgoing)

----------------------------------------------------------------------------
\* Type invariant: every variable of the two clients keeps its shape.
TypeOK ==
    /\ snd.status \in Statuses /\ rcv.status \in Statuses
    /\ snd.next \in Nat /\ snd.ack \in 0 .. TotalChunks
    /\ pump \in [Pumps -> Chunks \cup {Idle}]
    /\ verifying \in Nat
    /\ resend \in SUBSET Chunks \cup {NoResend}
    /\ disk.next \in 0 .. TotalChunks
    /\ disk.chunks \in [Chunks -> {"absent", "good", "changed"}]
    /\ disk.final \in [Chunks -> {"absent", "good", "changed"}]

\* What stands under the final name is the file the sender registered.
Delivered == \A k \in Chunks : disk.final[k] = "good"

\* The sender shows or records a transfer as completed only when the file
\* stands whole on the receiver's disk: through resends, resumptions, files
\* edited meanwhile and a receiver started again (completeReceive, handleVerified).
SentMeansDelivered ==
    snd.status = "completed" \/ snd.audit = "completed" => Delivered

\* A new starting point is being asked for or worked out, or it is lost with
\* the channel: what was acknowledged before is about to be replaced.
StartsAgain ==
    \/ ~open
    \/ \E i \in DOMAIN toRcv : toRcv[i].type = "request"
    \/ \E by \in DOMAIN task :
          task[by].op \in {"prepare", "prepared", "refused", "prepare failed"}

\* Flow control and resumption rest on acknowledgements: every chunk the
\* sender takes as acknowledged is on the receiver's disk, while the transfer
\* is under way on both sides and no new starting point is (writeChunk,
\* prepareReceive, handleAcknowledgement).
AcknowledgedIsOnDisk ==
    /\ snd.status = "sending" /\ snd.audit = NoAudit
    /\ rcv.status = "receiving" /\ rcv.audit = NoAudit
    /\ ~StartsAgain
    /\ \A i \in DOMAIN toSnd : toSnd[i].type # "accept"
    => \A k \in Chunks : k < snd.ack => disk.chunks[k] # "absent"

\* A receiver that shows a transfer as cancelled, with nothing running for
\* it, has let go of it: the storage would accept no further chunk
\* (cancelReceive, against a preparation running beside it).
CancelledLeavesNothing ==
    rcv.status = "cancelled" /\ task = NoTasks => ~disk.record

\* Said of the first state of a behaviour: the channel is never lost; no entry
\* is closed; and there is at most one click, closed entry or edit.
ChannelStays == left["drop"] = 0
EntriesStay  == left["close"] = 0
Undisturbed  == ChannelStays /\ left["click"] + left["close"] + left["edit"] <= 1

BothEnded ==
    /\ snd.status \in Terminal /\ rcv.status \in Terminal
    /\ toSnd = <<>> /\ toRcv = <<>> /\ task = NoTasks /\ resend = NoResend
    /\ verifying = 0 /\ \A p \in Pumps : pump[p] = Idle

\* When a transfer has ended on both sides and nothing is under way on the
\* channel that stayed, a completion the receiver shows is one the sender shows,
\* whatever crossed what (verified against cancel or retry, cancel against the
\* rename).  The converse needs the receiver's entry: a request that comes when
\* it is closed makes another one, which the same cancel may end.
OutcomesAgree ==
    /\ ChannelStays =>
          [](BothEnded => (rcv.status = "completed" => snd.status = "completed"))
    /\ ChannelStays /\ EntriesStay =>
          [](BothEnded => (snd.status = "completed" => rcv.status = "completed"))

\* Undisturbed, every transfer comes to an end by itself, through corrupt
\* chunks, full disks or a source edited meanwhile, unless the receiver
\* is to answer the request or somebody cancels (a cancel that crosses the
\* accept revives the sender's side).
TransferResolves ==
    Undisturbed =>
        (snd.status \in {"waiting", "sending"} ~>
            \/ Ended(snd)
            \/ rcv.status = "waiting" /\ task = NoTasks
            \/ "cancelled" \in {snd.audit, rcv.audit})
====
