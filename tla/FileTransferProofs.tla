------------------------- MODULE FileTransferProofs -------------------------
(***************************************************************************)
(* What a transfer promises of the file, for every size of the file, every *)
(* window, every number of concurrent pumps and every bound on the events  *)
(* around it; and that its two ends agree on how it ended.                 *)
(***************************************************************************)
EXTENDS FileTransfer, SequenceTheorems, WellFoundedInduction, TLAPS

\* The record has the fields of a TransferState.
Whole(transfer) ==
    {"status", "next", "ack", "pumping", "completionSent", "audit"} \subseteq DOMAIN transfer

\* The transfer is shown or recorded as completed.
Claims(transfer) == transfer.status = "completed" \/ transfer.audit = "completed"

\* A sequence, whatever its elements are.
IsSeq(queue) == queue \in Seq({queue[i] : i \in DOMAIN queue})

\* A confirmation is on its way to the sender.
Confirms(queue) == \E i \in DOMAIN queue : queue[i].type = "verified"

Shape ==
    /\ Whole(snd) /\ Whole(rcv)
    /\ DOMAIN task = {"queue", "click"}
    /\ {"total", "kept", "intact"} \subseteq DOMAIN source
    /\ {"record", "partial", "next", "chunks", "final"} \subseteq DOMAIN disk
    /\ disk.chunks \in [Chunks -> {"absent", "good", "changed"}]
    /\ IsSeq(toSnd)

\* The claim of completion travels from the storage's answer over the
\* receiver's state and a confirmation to the sender; at every stage the
\* file stands.
Confirmed ==
    Claims(snd) \/ Confirms(toSnd) \/ rcv.status = "completed" \/ task["queue"].op = "valid"
    => Delivered

\* A cancelled receive whose record is there again has a preparation that has
\* not been answered to the renderer.
CancelledIsPrepared ==
    rcv.status = "cancelled" /\ disk.record => \E by \in {"queue", "click"} : task[by].op = "prepared"

TransferInv == Shape /\ Confirmed /\ CancelledIsPrepared

----------------------------------------------------------------------------
\* A sequence over any set is one over its own elements.
LEMMA IsSeqLemma ==
    ASSUME NEW S, NEW queue \in Seq(S)
    PROVE  IsSeq(queue)
<1>1. queue \in [1 .. Len(queue) -> S] /\ Len(queue) \in Nat
  BY LenProperties
<1>2. queue \in [1 .. Len(queue) -> {queue[i] : i \in DOMAIN queue}]
  BY <1>1
<1> QED BY <1>1, <1>2, SeqDef DEF IsSeq

\* Appending a message confirms only what was confirmed, or the message.
LEMMA AppendLemma ==
    ASSUME NEW queue, IsSeq(queue), NEW message
    PROVE  /\ IsSeq(Append(queue, message))
           /\ Confirms(Append(queue, message)) => Confirms(queue) \/ message.type = "verified"
<1> DEFINE S == {queue[i] : i \in DOMAIN queue} \cup {message}
<1>1. queue \in Seq({queue[i] : i \in DOMAIN queue})
  BY DEF IsSeq
<1>2. queue \in Seq(S) /\ message \in S
  BY <1>1, SeqMonotonic
<1> HIDE DEF S
<1>3. /\ Append(queue, message) \in Seq(S)
      /\ Len(Append(queue, message)) = Len(queue) + 1
      /\ \A i \in 1 .. Len(queue) : Append(queue, message)[i] = queue[i]
      /\ Append(queue, message)[Len(queue) + 1] = message
  BY <1>2, AppendProperties
<1>4. /\ DOMAIN queue = 1 .. Len(queue) /\ Len(queue) \in Nat
      /\ DOMAIN Append(queue, message) = 1 .. Len(queue) + 1
  BY <1>2, <1>3, LenProperties
<1>5. IsSeq(Append(queue, message))
  BY <1>3, IsSeqLemma
<1>6. \A i \in 1 .. Len(queue) + 1 : i \in 1 .. Len(queue) \/ i = Len(queue) + 1
  BY <1>4
<1> QED BY <1>3, <1>4, <1>5, <1>6 DEF Confirms

\* Taking the first message confirms nothing new.
LEMMA TailLemma ==
    ASSUME NEW queue, IsSeq(queue), queue # <<>>
    PROVE  /\ IsSeq(Tail(queue))
           /\ Confirms(Tail(queue)) => Confirms(queue)
           /\ Head(queue).type = "verified" => Confirms(queue)
<1> DEFINE S == {queue[i] : i \in DOMAIN queue}
<1>1. queue \in Seq(S)
  BY DEF IsSeq
<1> HIDE DEF S
<1>2. /\ Tail(queue) \in Seq(S) /\ Len(Tail(queue)) = Len(queue) - 1
      /\ \A i \in 1 .. Len(Tail(queue)) : Tail(queue)[i] = queue[i + 1]
  BY <1>1, HeadTailProperties
<1>3. /\ DOMAIN queue = 1 .. Len(queue) /\ Len(queue) \in Nat /\ Len(queue) # 0
      /\ DOMAIN Tail(queue) = 1 .. Len(queue) - 1
  BY <1>1, <1>2, LenProperties, EmptySeq
<1>4. \A i \in DOMAIN Tail(queue) : i + 1 \in DOMAIN queue
  BY <1>3
<1>5. Head(queue) = queue[1] /\ 1 \in DOMAIN queue
  BY <1>1, <1>3, HeadTailProperties
<1> QED BY <1>2, <1>3, <1>4, <1>5, IsSeqLemma DEF Confirms

\* Losing the end of a queue confirms nothing new.
LEMMA PrefixLemma ==
    ASSUME NEW queue, IsSeq(queue), NEW n \in 0 .. Len(queue)
    PROVE  /\ IsSeq(SubSeq(queue, 1, n))
           /\ Confirms(SubSeq(queue, 1, n)) => Confirms(queue)
<1> DEFINE S == {queue[i] : i \in DOMAIN queue}
<1>1. queue \in Seq(S)
  BY DEF IsSeq
<1> HIDE DEF S
<1>2. DOMAIN queue = 1 .. Len(queue) /\ Len(queue) \in Nat /\ n \in Nat /\ n <= Len(queue)
  BY <1>1, LenProperties
<1>3. \A i \in 1 .. n : queue[i] \in S
  BY <1>1, <1>2, ElementOfSeq
<1>4. /\ SubSeq(queue, 1, n) \in Seq(S)
      /\ Len(SubSeq(queue, 1, n)) = IF 1 <= n THEN n - 1 + 1 ELSE 0
      /\ \A i \in 1 .. (n - 1 + 1) : SubSeq(queue, 1, n)[i] = queue[1 + i - 1]
  BY <1>1, <1>2, <1>3, SubSeqProperties
<1>5. DOMAIN SubSeq(queue, 1, n) = 1 .. n
  BY <1>2, <1>4, LenProperties
<1>6. \A i \in 1 .. n : SubSeq(queue, 1, n)[i] = queue[i] /\ i \in DOMAIN queue
  BY <1>2, <1>4
<1> QED BY <1>4, <1>5, <1>6, IsSeqLemma DEF Confirms

\* What is sent confirms only what was confirmed, or the message.
LEMMA SentLemma ==
    ASSUME NEW queue, IsSeq(queue), NEW message
    PROVE  /\ IsSeq(Sent(queue, message))
           /\ Confirms(Sent(queue, message)) => Confirms(queue) \/ message.type = "verified"
BY AppendLemma DEF Sent

\* The notice of a failure confirms nothing.
LEMMA FailNoticeLemma ==
    ASSUME NEW queue, IsSeq(queue), NEW transfer
    PROVE  /\ IsSeq(FailNotice(transfer, queue))
           /\ Confirms(FailNotice(transfer, queue)) => Confirms(queue)
<1>1. [type |-> "error"].type # "verified"
  OBVIOUS
<1> QED BY <1>1, SentLemma DEF FailNotice

\* An audit entry changes neither the status nor an earlier entry.
LEMMA AuditedLemma ==
    ASSUME NEW transfer, Whole(transfer), NEW result
    PROVE  /\ Whole(Audited(transfer, result))
           /\ Audited(transfer, result).status = transfer.status
           /\ Audited(transfer, result).audit \in {transfer.audit, result}
BY DEF Whole, Audited

\* A failure claims no completion and leaves what has ended alone.
LEMMA FailedLemma ==
    ASSUME NEW transfer, Whole(transfer)
    PROVE  /\ Whole(Failed(transfer))
           /\ Claims(Failed(transfer)) => Claims(transfer)
           /\ Failed(transfer).status \in {transfer.status, "failed"}
           /\ transfer.status = "cancelled" => Failed(transfer) = transfer
<1> DEFINE failed == [transfer EXCEPT !.status = "failed", !.pumping = FALSE]
<1>1. Whole(failed) /\ failed.status = "failed" /\ failed.audit = transfer.audit
  BY DEF Whole
<1>2. Failed(transfer) = IF Ended(transfer) THEN transfer ELSE Audited(failed, "failed")
  BY DEF Failed
<1>3. transfer.status = "cancelled" => Ended(transfer)
  BY DEF Ended, Terminal
<1> HIDE DEF failed
<1> QED BY <1>1, <1>2, <1>3, AuditedLemma DEF Claims

\* What a catch block leaves claims no completion.
LEMMA CaughtLemma ==
    ASSUME NEW transfer, Whole(transfer)
    PROVE  /\ Whole(Caught(transfer))
           /\ Claims(Caught(transfer)) => Claims(transfer)
           /\ Caught(transfer).status \in {transfer.status, "failed", "paused"}
<1>1. CASE open
  BY <1>1, FailedLemma DEF Caught
<1>2. CASE ~open
  BY <1>2 DEF Caught, Whole, Claims
<1> QED BY <1>1, <1>2

----------------------------------------------------------------------------
(* Steps of the sender: the receiver and its disk stay.                    *)

\* What a step of the sender has to keep.
LEMMA SenderStep ==
    ASSUME TransferInv, UNCHANGED receiver,
           Whole(snd'), Claims(snd)' => Claims(snd) \/ Confirms(toSnd),
           source'.total = source.total,
           {"total", "kept", "intact"} \subseteq DOMAIN source',
           IsSeq(toSnd)', Confirms(toSnd)' => Confirms(toSnd)
    PROVE  TransferInv'
<1>1. Chunks' = Chunks
  BY DEF Chunks, TotalChunks
<1>2. Shape'
  BY <1>1 DEF TransferInv, Shape, receiver, Whole
<1>3. Delivered' = Delivered
  BY <1>1 DEF Delivered, receiver
<1>4. Confirmed'
  BY <1>3 DEF TransferInv, Confirmed, receiver
<1> QED BY <1>2, <1>4 DEF TransferInv, CancelledIsPrepared, receiver

\* Starting the pump confirms nothing.
LEMMA StartPumpLemma ==
    ASSUME NEW transfer, Whole(transfer), StartPump(transfer)
    PROVE  Whole(snd') /\ (Claims(snd)' => Claims(transfer))
<1>1. CASE snd' = transfer
  BY <1>1 DEF Claims
<1>2. CASE snd' = [transfer EXCEPT !.pumping = TRUE]
  BY <1>2 DEF Claims, Whole
<1>3. CASE snd' = [transfer EXCEPT !.completionSent = TRUE]
  BY <1>3 DEF Claims, Whole
<1> QED BY <1>1, <1>2, <1>3 DEF StartPump, StartCompletion

\* Releasing the file changes nothing of it.
LEMMA SourceKept ==
    ASSUME Shape, NEW kept
    PROVE  LET released == [source EXCEPT !.kept = kept]
           IN  released.total = source.total /\ {"total", "kept", "intact"} \subseteq DOMAIN released
BY DEF Shape

\* A new transfer confirms nothing.
LEMMA NewTransferLemma ==
    /\ Whole(NewTransfer) /\ ~Claims(NewTransfer)
    /\ Whole([NewTransfer EXCEPT !.status = "none"])
    /\ ~Claims([NewTransfer EXCEPT !.status = "none"])
BY DEF NewTransfer, Whole, Claims, NoAudit

\* The sender's own steps, and those of its buttons.
LEMMA SenderActs ==
    ASSUME TransferInv,
           \/ EnqueueFiles \/ CancelSent \/ RetryTransfer \/ CloseSent
           \/ \E p \in Pumps : PumpSends(p) \/ PumpFails(p)
           \/ CompleteOutgoing \/ ResendChunk \/ ResendFails \/ ResendDone
           \/ EditSource \/ HandleChannelOpen
    PROVE  TransferInv'
<1>1. Whole(snd) /\ Shape
  BY DEF TransferInv, Shape
<1>2. ASSUME UNCHANGED <<receiver, toSnd>>, Whole(snd'), Claims(snd)' => Claims(snd),
             source' = source
      PROVE  TransferInv'
  BY <1>1, <1>2, SenderStep DEF Shape
<1>3. CASE EnqueueFiles
  <2>1. Whole(snd') /\ ~Claims(snd)' /\ UNCHANGED <<receiver, toSnd>>
    BY <1>3, NewTransferLemma DEF EnqueueFiles
  <2>2. source'.total = source.total /\ {"total", "kept", "intact"} \subseteq DOMAIN source'
    BY <1>1, <1>3, SourceKept DEF EnqueueFiles
  <2> QED BY <1>1, <2>1, <2>2, SenderStep DEF Shape
<1>4. CASE CancelSent
  <2> DEFINE ended == [snd EXCEPT !.status = "cancelled"]
  <2>1. Whole(ended) /\ ended.status = "cancelled" /\ ended.audit = snd.audit
    BY <1>1 DEF Whole
  <2>2. snd' = Audited(ended, "cancelled") /\ UNCHANGED <<receiver, toSnd>>
    BY <1>4 DEF CancelSent, SenderCancelled
  <2> HIDE DEF ended
  <2>3. Whole(snd') /\ (Claims(snd)' => Claims(snd))
    BY <2>1, <2>2, AuditedLemma DEF Claims
  <2>4. source'.total = source.total /\ {"total", "kept", "intact"} \subseteq DOMAIN source'
    BY <1>1, <1>4, SourceKept DEF CancelSent, SenderCancelled
  <2> QED BY <1>1, <2>2, <2>3, <2>4, SenderStep DEF Shape
<1>5. CASE RetryTransfer
  BY <1>2, <1>5, NewTransferLemma DEF RetryTransfer
<1>6. CASE CloseSent
  <2>1. Whole(snd') /\ (Claims(snd)' => Claims(snd))
    BY <1>1, <1>6 DEF CloseSent, Whole, Claims
  <2> QED BY <1>2, <1>6, <2>1 DEF CloseSent
<1>7. ASSUME NEW p \in Pumps, PumpSends(p) PROVE TransferInv'
  <2> DEFINE moved == [snd EXCEPT !.next = @ + 1]
  <2>1. Whole(moved) /\ (Claims(moved) => Claims(snd))
    BY <1>1 DEF Whole, Claims
  <2>2. snd' = moved \/ snd' = [moved EXCEPT !.pumping = FALSE]
    BY <1>7 DEF PumpSends
  <2> HIDE DEF moved
  <2>3. Whole(snd') /\ (Claims(snd)' => Claims(snd))
    BY <2>1, <2>2 DEF Whole, Claims
  <2> QED BY <1>2, <1>7, <2>3 DEF PumpSends
<1>8. ASSUME NEW p \in Pumps, PumpFails(p) PROVE TransferInv'
  <2> DEFINE caught == Caught(snd)
  <2>1. Whole(caught) /\ (Claims(caught) => Claims(snd))
    BY <1>1, CaughtLemma
  <2>2. snd' = [caught EXCEPT !.pumping = FALSE]
    BY <1>8 DEF PumpFails
  <2> HIDE DEF caught
  <2>3. Whole(snd') /\ (Claims(snd)' => Claims(snd))
    BY <2>1, <2>2 DEF Whole, Claims
  <2> QED BY <1>2, <1>8, <2>3 DEF PumpFails
<1>9. CASE CompleteOutgoing
  <2>1. snd' \in {snd, Failed(snd), Caught(snd)}
    BY <1>9 DEF CompleteOutgoing
  <2>2. Whole(snd') /\ (Claims(snd)' => Claims(snd))
    BY <1>1, <2>1, FailedLemma, CaughtLemma DEF Claims
  <2> QED BY <1>2, <1>9, <2>2 DEF CompleteOutgoing
<1>10. CASE ResendChunk
  BY <1>1, <1>2, <1>10 DEF ResendChunk, Claims
<1>11. CASE ResendFails
  <2>1. Whole(snd') /\ (Claims(snd)' => Claims(snd))
    BY <1>1, <1>11, CaughtLemma DEF ResendFails, Claims
  <2> QED BY <1>2, <1>11, <2>1 DEF ResendFails
<1>12. CASE ResendDone
  BY <1>1, <1>2, <1>12 DEF ResendDone, Claims
<1>13. CASE EditSource
  <2>1. source'.total = source.total /\ {"total", "kept", "intact"} \subseteq DOMAIN source'
    BY <1>1, <1>13 DEF EditSource, Shape
  <2> QED BY <1>1, <1>13, <2>1, SenderStep DEF EditSource, Claims, Shape
<1>14. CASE HandleChannelOpen
  <2>1. Whole(snd') /\ (Claims(snd)' => Claims(snd))
    BY <1>1, <1>14 DEF HandleChannelOpen, Whole, Claims
  <2> QED BY <1>2, <1>14, <2>1 DEF HandleChannelOpen
<1> QED BY <1>3, <1>4, <1>5, <1>6, <1>7, <1>8, <1>9, <1>10, <1>11, <1>12, <1>13, <1>14

\* The sender handles a message.
LEMMA SenderHears ==
    ASSUME TransferInv,
           \/ HandleAccepted \/ HandleAcknowledgement \/ HandleRejected \/ HandleVerified
           \/ HandleRetry \/ HandleCancelSent \/ HandleErrorSent
    PROVE  TransferInv'
<1>1. Whole(snd) /\ Shape /\ IsSeq(toSnd)
  BY DEF TransferInv, Shape
<1>2. ASSUME NEW type, Hears(type)
      PROVE  /\ UNCHANGED receiver
             /\ IsSeq(toSnd)' /\ (Confirms(toSnd)' => Confirms(toSnd))
             /\ type = "verified" => Confirms(toSnd)
  BY <1>1, <1>2, TailLemma DEF Hears
<1>3. ASSUME NEW type, Hears(type), Whole(snd'), Claims(snd)' => Claims(snd), source' = source
      PROVE  TransferInv'
  BY <1>1, <1>2, <1>3, SenderStep DEF Shape
<1>4. CASE HandleAccepted
  <2> DEFINE moved == [snd EXCEPT !.status = "sending", !.next = Head(toSnd).next,
                                  !.ack = Head(toSnd).next, !.completionSent = FALSE]
  <2>1. Whole(moved) /\ (Claims(moved) => Claims(snd))
    BY <1>1 DEF Whole, Claims
  <2>2. StartPump(moved) \/ snd' = snd
    BY <1>4 DEF HandleAccepted
  <2> HIDE DEF moved
  <2>3. Whole(snd') /\ (Claims(snd)' => Claims(snd))
    BY <1>1, <2>1, <2>2, StartPumpLemma DEF Claims
  <2> QED BY <1>3, <1>4, <2>3 DEF HandleAccepted
<1>5. CASE HandleAcknowledgement
  <2> DEFINE moved == [snd EXCEPT !.ack = Head(toSnd).next]
  <2>1. Whole(moved) /\ (Claims(moved) => Claims(snd))
    BY <1>1 DEF Whole, Claims
  <2>2. \/ StartPump(moved) \/ snd' = snd \/ snd' = moved
        \/ snd' = [moved EXCEPT !.completionSent = TRUE]
    BY <1>5 DEF HandleAcknowledgement, StartCompletion
  <2> HIDE DEF moved
  <2>3. Whole(snd') /\ (Claims(snd)' => Claims(snd))
    BY <1>1, <2>1, <2>2, StartPumpLemma DEF Claims, Whole
  <2> QED BY <1>3, <1>5, <2>3 DEF HandleAcknowledgement
<1>6. CASE HandleRejected
  <2> DEFINE ended == [snd EXCEPT !.status = "rejected"]
  <2>1. Whole(ended) /\ ended.status = "rejected" /\ ended.audit = snd.audit
    BY <1>1 DEF Whole
  <2>2. snd' = Audited(ended, "rejected") \/ snd' = snd
    BY <1>6 DEF HandleRejected
  <2> HIDE DEF ended
  <2>3. Whole(snd') /\ (Claims(snd)' => Claims(snd))
    BY <1>1, <2>1, <2>2, AuditedLemma DEF Claims
  <2> QED BY <1>3, <1>6, <2>3 DEF HandleRejected
<1>7. CASE HandleVerified
  <2> DEFINE ended == [snd EXCEPT !.status = "completed"]
  <2>1. Whole(ended)
    BY <1>1 DEF Whole
  <2>2. snd' = Audited(ended, "completed") \/ snd' = snd
    BY <1>7 DEF HandleVerified
  <2> HIDE DEF ended
  <2>3. Whole(snd') /\ Confirms(toSnd)
    BY <1>1, <1>2, <1>7, <2>1, <2>2, AuditedLemma DEF HandleVerified
  <2>4. source'.total = source.total /\ {"total", "kept", "intact"} \subseteq DOMAIN source'
    BY <1>1, <1>7, SourceKept DEF HandleVerified, Shape
  <2>5. IsSeq(toSnd)' /\ (Confirms(toSnd)' => Confirms(toSnd)) /\ UNCHANGED receiver
    BY <1>2, <1>7 DEF HandleVerified
  <2> QED BY <2>3, <2>4, <2>5, SenderStep
<1>8. CASE HandleRetry
  BY <1>1, <1>3, <1>8 DEF HandleRetry, Claims
<1>9. CASE HandleCancelSent
  <2> DEFINE ended == [snd EXCEPT !.status = "cancelled"]
  <2>1. Whole(ended) /\ ended.status = "cancelled" /\ ended.audit = snd.audit
    BY <1>1 DEF Whole
  <2>2. snd' = Audited(ended, "cancelled") \/ snd' = snd
    BY <1>9 DEF HandleCancelSent, SenderCancelled
  <2> HIDE DEF ended
  <2>3. Whole(snd') /\ (Claims(snd)' => Claims(snd))
    BY <1>1, <2>1, <2>2, AuditedLemma DEF Claims
  <2>4. source'.total = source.total /\ {"total", "kept", "intact"} \subseteq DOMAIN source'
    BY <1>1, <1>9, SourceKept DEF HandleCancelSent, SenderCancelled, Shape
  <2>5. IsSeq(toSnd)' /\ (Confirms(toSnd)' => Confirms(toSnd)) /\ UNCHANGED receiver
    BY <1>2, <1>9 DEF HandleCancelSent
  <2> QED BY <2>3, <2>4, <2>5, SenderStep
<1>10. CASE HandleErrorSent
  <2>1. Whole(snd') /\ (Claims(snd)' => Claims(snd))
    BY <1>1, <1>10, FailedLemma DEF HandleErrorSent, Claims
  <2> QED BY <1>3, <1>10, <2>1 DEF HandleErrorSent
<1> QED BY <1>4, <1>5, <1>6, <1>7, <1>8, <1>9, <1>10

----------------------------------------------------------------------------
(* Steps of the receiver and of its storage: the sender stays.             *)

\* What a step of the receiver has to keep.
LEMMA ReceiverStep ==
    ASSUME TransferInv, UNCHANGED sender,
           {"record", "partial", "next", "chunks", "final"} \subseteq DOMAIN disk',
           disk'.chunks \in [Chunks -> {"absent", "good", "changed"}],
           disk'.final = disk.final,
           Whole(rcv'), DOMAIN task' = {"queue", "click"}, IsSeq(toSnd)',
           \/ Confirms(toSnd)' \/ rcv'.status = "completed" \/ task'["queue"].op = "valid"
           => Confirms(toSnd) \/ rcv.status = "completed" \/ task["queue"].op = "valid",
           CancelledIsPrepared'
    PROVE  TransferInv'
<1>1. Chunks' = Chunks /\ snd' = snd /\ source' = source
  BY DEF Chunks, TotalChunks, sender
<1>2. Shape'
  BY <1>1 DEF TransferInv, Shape, Whole
<1>3. Delivered' = Delivered
  BY <1>1 DEF Delivered
<1>4. Claims(snd)' = Claims(snd)
  BY <1>1 DEF Claims
<1>5. Confirmed'
  BY <1>3, <1>4 DEF TransferInv, Confirmed
<1> QED BY <1>2, <1>5 DEF TransferInv

\* The storage acts on the disk.
LEMMA StorageActs ==
    ASSUME TransferInv,
           WriteChunk \/ CompleteReceive \/ \E by \in {"queue", "click"} : PrepareReceive(by)
    PROVE  TransferInv'
<1>1. Shape /\ Whole(rcv) /\ DOMAIN task = {"queue", "click"} /\ IsSeq(toSnd)
  BY DEF TransferInv, Shape
<1>2. ASSUME NEW by \in {"queue", "click"}, PrepareReceive(by) PROVE TransferInv'
  <2>1. UNCHANGED <<sender, rcv, toSnd>> /\ task[by] = [op |-> "prepare"]
    BY <1>2 DEF PrepareReceive
  <2>2. PICK answer :
          /\ task' = [task EXCEPT ![by] = answer]
          /\ \/ answer.op = "prepared"
             \/ answer.op \in {"refused", "prepare failed"} /\ disk' = disk
    <3>1. \A next : [op |-> "prepared", next |-> next].op = "prepared"
      OBVIOUS
    <3>2. [op |-> "refused"].op = "refused" /\ [op |-> "prepare failed"].op = "prepare failed"
      OBVIOUS
    <3>3. \/ \E next : task' = [task EXCEPT ![by] = [op |-> "prepared", next |-> next]]
          \/ task' = [task EXCEPT ![by] = [op |-> "refused"]] /\ disk' = disk
          \/ task' = [task EXCEPT ![by] = [op |-> "prepare failed"]] /\ disk' = disk
      BY <1>2, Zenon DEF PrepareReceive
    <3>4. CASE \E next : task' = [task EXCEPT ![by] = [op |-> "prepared", next |-> next]]
      BY <3>1, <3>4, Zenon
    <3>5. CASE task' = [task EXCEPT ![by] = [op |-> "refused"]] /\ disk' = disk
      BY <3>2, <3>5, Zenon
    <3>6. CASE task' = [task EXCEPT ![by] = [op |-> "prepare failed"]] /\ disk' = disk
      BY <3>2, <3>6, Zenon
    <3> QED BY <3>3, <3>4, <3>5, <3>6
  <2>3. /\ {"record", "partial", "next", "chunks", "final"} \subseteq DOMAIN disk'
        /\ disk'.chunks \in [Chunks -> {"absent", "good", "changed"}]
        /\ disk'.final = disk.final
    <3>1. NoChunks \in [Chunks -> {"absent", "good", "changed"}]
      BY DEF NoChunks
    <3>2. ASSUME NEW next, disk' = [disk EXCEPT !.record = TRUE, !.next = next]
          PROVE  <2>3!:
      BY <1>1, <3>2 DEF Shape
    <3>3. ASSUME disk' = [disk EXCEPT !.record = TRUE, !.partial = TRUE,
                                     !.next = 0, !.chunks = NoChunks]
          PROVE  <2>3!:
      BY <1>1, <3>1, <3>3 DEF Shape
    <3>4. ASSUME disk' = disk PROVE <2>3!:
      BY <1>1, <3>4 DEF Shape
    <3> QED BY <1>2, <3>2, <3>3, <3>4 DEF PrepareReceive
  <2>4. DOMAIN task' = {"queue", "click"} /\ task'[by] = answer
        /\ \A other \in {"queue", "click"} : other # by => task'[other] = task[other]
    BY <1>1, <2>2
  <2>5. task'["queue"].op = "valid" => task["queue"].op = "valid"
    BY <2>2, <2>4
  <2>6. CancelledIsPrepared'
    <3>1. CASE answer.op = "prepared"
      BY <2>4, <3>1 DEF CancelledIsPrepared
    <3>2. CASE answer.op \in {"refused", "prepare failed"} /\ disk' = disk
      <4>1. \A other \in {"queue", "click"} : task[other].op = "prepared" => other # by
        BY <2>1
      <4> QED BY <2>1, <2>4, <3>2, <4>1 DEF CancelledIsPrepared, TransferInv
    <3> QED BY <2>2, <3>1, <3>2
  <2> QED BY <1>1, <2>1, <2>3, <2>4, <2>5, <2>6, ReceiverStep DEF Shape
<1>3. CASE WriteChunk
  <2>1. UNCHANGED <<sender, rcv, toSnd>> /\ task["queue"].op = "write"
    BY <1>3 DEF WriteChunk
  <2>2. PICK answer :
          task' = [task EXCEPT !["queue"] = answer]
          /\ answer.op \in {"written", "write failed", "corrupt"}
    <3>1. /\ \A next : [op |-> "written", next |-> next].op = "written"
          /\ \A index : [op |-> "corrupt", index |-> index].op = "corrupt"
          /\ [op |-> "write failed"].op = "write failed"
      OBVIOUS
    <3>2. \/ \E next : task' = [task EXCEPT !["queue"] = [op |-> "written", next |-> next]]
          \/ \E index : task' = [task EXCEPT !["queue"] = [op |-> "corrupt", index |-> index]]
          \/ task' = [task EXCEPT !["queue"] = [op |-> "write failed"]]
      BY <1>3, Zenon DEF WriteChunk
    <3> QED BY <3>1, <3>2, Zenon
  <2>3. /\ {"record", "partial", "next", "chunks", "final"} \subseteq DOMAIN disk'
        /\ disk'.chunks \in [Chunks -> {"absent", "good", "changed"}]
        /\ disk'.final = disk.final /\ disk'.record = disk.record
    <3> DEFINE index == task["queue"].index
               chunks == [disk.chunks EXCEPT
                             ![index] = IF task["queue"].intact THEN "good" ELSE "changed"]
    <3>1. chunks \in [Chunks -> {"absent", "good", "changed"}]
      <4>1. disk.chunks \in [Chunks -> {"absent", "good", "changed"}]
        BY <1>1 DEF Shape
      <4>2. (IF task["queue"].intact THEN "good" ELSE "changed") \in {"absent", "good", "changed"}
        OBVIOUS
      <4> QED BY <4>1, <4>2
    <3>2. disk' = disk \/ \E next : disk' = [disk EXCEPT !.chunks = chunks, !.next = next]
      BY <1>3, Zenon DEF WriteChunk
    <3> HIDE DEF chunks
    <3> QED BY <1>1, <3>1, <3>2 DEF Shape
  <2>4. /\ DOMAIN task' = {"queue", "click"} /\ task'["queue"] = answer
        /\ task'["click"] = task["click"]
    BY <1>1, <2>2
  <2>5. CancelledIsPrepared'
    <3>1. task["queue"].op # "prepared"
      BY <2>1
    <3> QED BY <2>1, <2>3, <2>4, <3>1 DEF CancelledIsPrepared, TransferInv
  <2> QED BY <1>1, <2>1, <2>2, <2>3, <2>4, <2>5, ReceiverStep
<1>4. CASE CompleteReceive
  <2>1. /\ UNCHANGED <<sender, rcv, toSnd>> /\ task["queue"] = [op |-> "complete"]
        /\ task["queue"].op = "complete"
    <3>1. UNCHANGED <<sender, rcv, toRcv, toSnd, open>> /\ task["queue"] = [op |-> "complete"]
      BY <1>4, Zenon DEF CompleteReceive
    <3> QED BY <3>1
  <2>2. Chunks' = Chunks /\ snd' = snd /\ source' = source
    BY <2>1 DEF Chunks, TotalChunks, sender
  <2>3. CASE disk' = disk
    <3>1. PICK answer : task' = [task EXCEPT !["queue"] = answer]
                        /\ answer.op \in {"complete failed", "bad"}
      <4>1. /\ \A indexes : [op |-> "bad", indexes |-> indexes].op = "bad"
            /\ [op |-> "complete failed"].op = "complete failed"
        OBVIOUS
      <4>2. disk.record /\ disk' = disk => disk' # [disk EXCEPT !.record = FALSE, !.partial = FALSE,
                                                               !.final = disk.chunks]
        <5>1. [disk EXCEPT !.record = FALSE, !.partial = FALSE, !.final = disk.chunks].record = FALSE
          BY <1>1 DEF Shape
        <5> QED BY <5>1
      <4> QED BY <1>4, <2>3, <4>1, <4>2 DEF CompleteReceive
    <3>2. /\ DOMAIN task' = {"queue", "click"} /\ task'["queue"] = answer
          /\ task'["click"] = task["click"]
      BY <1>1, <3>1
    <3>3. CancelledIsPrepared'
      BY <2>1, <2>3, <3>1, <3>2 DEF CancelledIsPrepared, TransferInv
    <3> QED BY <1>1, <2>1, <2>3, <3>1, <3>2, <3>3, ReceiverStep DEF Shape
  <2>4. CASE /\ BadChunks = {}
             /\ disk' = [disk EXCEPT !.record = FALSE, !.partial = FALSE, !.final = disk.chunks]
             /\ task' = [task EXCEPT !["queue"] = [op |-> "valid"]]
    <3>1. /\ disk'.record = FALSE /\ disk'.final = disk.chunks /\ disk'.chunks = disk.chunks
          /\ {"record", "partial", "next", "chunks", "final"} \subseteq DOMAIN disk'
      BY <1>1, <2>4 DEF Shape
    <3>2. \A k \in Chunks : disk.chunks[k] = "good"
      <4>1. \A k \in Chunks : disk.chunks[k] \in {"absent", "good", "changed"}
        BY <1>1 DEF Shape
      <4>2. {k \in Chunks : disk.chunks[k] = "absent"} = {}
        BY <2>4 DEF BadChunks
      <4>3. ~\E k \in Chunks : disk.chunks[k] = "changed"
        BY <2>4, <4>2 DEF BadChunks
      <4> QED BY <4>1, <4>2, <4>3
    <3>3. Delivered'
      BY <2>2, <3>1, <3>2 DEF Delivered
    <3>4. DOMAIN task' = {"queue", "click"}
      BY <1>1, <2>4
    <3>5. Shape'
      BY <1>1, <2>1, <2>2, <3>1, <3>4 DEF Shape, Whole
    <3> QED BY <3>1, <3>3, <3>5 DEF TransferInv, Confirmed, CancelledIsPrepared
  <2>5. \/ UNCHANGED <<disk, left>> \/ UNCHANGED disk
        \/ /\ BadChunks = {}
           /\ disk' = [disk EXCEPT !.record = FALSE, !.partial = FALSE, !.final = disk.chunks]
           /\ task' = [task EXCEPT !["queue"] = [op |-> "valid"]]
    BY <1>4, Zenon DEF CompleteReceive
  <2> QED BY <2>3, <2>4, <2>5
<1> QED BY <1>2, <1>3, <1>4

\* A step of the receiver that leaves the disk and touches one of the tasks,
\* or none: what it does not answer stays prepared.
LEMMA RendererStep ==
    ASSUME TransferInv, UNCHANGED <<sender, disk>>,
           NEW by \in {"queue", "click"}, NEW next, next.op # "valid",
           task[by].op = "prepared" => rcv'.status # "cancelled",
           task' = task \/ task' = [task EXCEPT ![by] = next],
           Whole(rcv'), IsSeq(toSnd)',
           Confirms(toSnd)' \/ rcv'.status = "completed"
           => Confirms(toSnd) \/ rcv.status = "completed" \/ task["queue"].op = "valid",
           rcv'.status = "cancelled" => rcv.status = "cancelled"
    PROVE  TransferInv'
<1>1. Shape /\ DOMAIN task = {"queue", "click"}
  BY DEF TransferInv, Shape
<1>2. /\ DOMAIN task' = {"queue", "click"}
      /\ \A other \in {"queue", "click"} : other # by => task'[other] = task[other]
      /\ task'[by] \in {task[by], next}
  BY <1>1
<1>3. task'["queue"].op = "valid" => task["queue"].op = "valid"
  BY <1>2
<1>4. CancelledIsPrepared'
  BY <1>2 DEF TransferInv, CancelledIsPrepared
<1> QED BY <1>1, <1>2, <1>3, <1>4, ReceiverStep DEF Shape

\* The receiver's renderer reads an answer of its storage.
LEMMA ReceiverReads ==
    ASSUME TransferInv,
           FrameWritten \/ IncomingVerified \/ \E by \in {"queue", "click"} : PrepareAndAccept(by)
    PROVE  TransferInv'
<1>1. Whole(rcv) /\ IsSeq(toSnd) /\ NoTask.op # "valid"
  BY DEF TransferInv, Shape, NoTask
<1>2. /\ \A next : [type |-> "accept", next |-> next].type # "verified"
      /\ \A next : [type |-> "ack", next |-> next].type # "verified"
      /\ \A indexes : [type |-> "retry", indexes |-> indexes].type # "verified"
      /\ [type |-> "reject"].type # "verified" /\ [type |-> "error"].type # "verified"
      /\ [type |-> "cancel"].type # "verified"
  OBVIOUS
<1>3. ASSUME NEW by \in {"queue", "click"}, PrepareAndAccept(by) PROVE TransferInv'
  <2>1. UNCHANGED <<sender, disk>> /\ task' = [task EXCEPT ![by] = NoTask]
    BY <1>3 DEF PrepareAndAccept
  <2>2. CASE /\ task[by].op = "prepared"
             /\ rcv' = [rcv EXCEPT !.status = "receiving", !.ack = task[by].next]
             /\ toSnd' = Sent(toSnd, [type |-> "accept", next |-> task[by].next])
    <3>1. Whole(rcv') /\ rcv'.status = "receiving"
      BY <1>1, <2>2 DEF Whole
    <3>2. IsSeq(toSnd)' /\ (Confirms(toSnd)' => Confirms(toSnd))
      BY <1>1, <1>2, <2>2, SentLemma
    <3> QED BY <1>1, <2>1, <3>1, <3>2, RendererStep
  <2>3. CASE task[by].op = "refused" /\ RejectIncoming
    <3> DEFINE ended == [rcv EXCEPT !.status = "rejected"]
    <3>1. Whole(ended) /\ ended.status = "rejected"
      BY <1>1 DEF Whole
    <3>2. rcv' = Audited(ended, "rejected")
      BY <2>3 DEF RejectIncoming
    <3> HIDE DEF ended
    <3>3. Whole(rcv') /\ rcv'.status = "rejected"
      BY <3>1, <3>2, AuditedLemma
    <3>4. IsSeq(toSnd)' /\ (Confirms(toSnd)' => Confirms(toSnd))
      BY <1>1, <1>2, <2>3, SentLemma DEF RejectIncoming
    <3> QED BY <1>1, <2>1, <3>3, <3>4, RendererStep
  <2>4. CASE /\ task[by].op \notin {"prepared", "refused"}
             /\ rcv' = Caught(rcv)
             /\ toSnd' = IF open THEN FailNotice(rcv, toSnd) ELSE toSnd
    <3>1. Whole(rcv') /\ rcv'.status \in {rcv.status, "failed", "paused"}
      BY <1>1, <2>4, CaughtLemma
    <3>2. IsSeq(toSnd)' /\ (Confirms(toSnd)' => Confirms(toSnd))
      BY <1>1, <2>4, FailNoticeLemma
    <3> QED BY <1>1, <2>1, <2>4, <3>1, <3>2, RendererStep
  <2> QED BY <1>3, <2>2, <2>3, <2>4 DEF PrepareAndAccept
<1>4. CASE FrameWritten
  <2>1. /\ UNCHANGED <<sender, disk>> /\ task' = [task EXCEPT !["queue"] = NoTask]
        /\ task["queue"].op # "prepared"
    BY <1>4 DEF FrameWritten
  <2>2. /\ rcv' \in {rcv, [rcv EXCEPT !.ack = task["queue"].next], Failed(rcv)}
        /\ toSnd' \in {Sent(toSnd, [type |-> "ack", next |-> task["queue"].next]),
                       Sent(toSnd, [type |-> "retry", indexes |-> {task["queue"].index}]),
                       Sent(toSnd, [type |-> "error"])}
    BY <1>4 DEF FrameWritten
  <2>3. Whole(rcv') /\ rcv'.status \in {rcv.status, "failed"}
    <3>1. CASE rcv' = [rcv EXCEPT !.ack = task["queue"].next]
      BY <1>1, <3>1 DEF Whole
    <3> QED BY <1>1, <2>2, <3>1, FailedLemma
  <2>4. IsSeq(toSnd)' /\ (Confirms(toSnd)' => Confirms(toSnd))
    BY <1>1, <1>2, <2>2, SentLemma
  <2> QED BY <1>1, <2>1, <2>3, <2>4, RendererStep
<1>5. CASE IncomingVerified
  <2>1. /\ UNCHANGED <<sender, disk>> /\ task' = [task EXCEPT !["queue"] = NoTask]
        /\ task["queue"].op # "prepared"
    BY <1>5 DEF IncomingVerified
  <2>2. CASE /\ task["queue"].op = "valid"
             /\ rcv' = Audited([rcv EXCEPT !.status = "completed"], "completed")
             /\ toSnd' = Sent(toSnd, [type |-> "verified"])
    <3> DEFINE ended == [rcv EXCEPT !.status = "completed"]
    <3>1. Whole(ended) /\ ended.status = "completed"
      BY <1>1 DEF Whole
    <3>2. rcv' = Audited(ended, "completed")
      BY <2>2
    <3> HIDE DEF ended
    <3>3. Whole(rcv') /\ rcv'.status = "completed"
      BY <3>1, <3>2, AuditedLemma
    <3>4. IsSeq(toSnd)'
      BY <1>1, <2>2, SentLemma
    <3> QED BY <1>1, <2>1, <2>2, <3>3, <3>4, RendererStep
  <2>3. CASE /\ rcv' = rcv
             /\ toSnd' = Sent(toSnd, [type |-> "retry", indexes |-> task["queue"].indexes])
    <3>1. IsSeq(toSnd)' /\ (Confirms(toSnd)' => Confirms(toSnd))
      BY <1>1, <1>2, <2>3, SentLemma
    <3> QED BY <1>1, <2>1, <2>3, <3>1, RendererStep
  <2>4. CASE /\ rcv' = Caught(rcv)
             /\ toSnd' = IF open THEN FailNotice(rcv, toSnd) ELSE toSnd
    <3>1. Whole(rcv') /\ rcv'.status \in {rcv.status, "failed", "paused"}
      BY <1>1, <2>4, CaughtLemma
    <3>2. IsSeq(toSnd)' /\ (Confirms(toSnd)' => Confirms(toSnd))
      BY <1>1, <2>4, FailNoticeLemma
    <3> QED BY <1>1, <2>1, <3>1, <3>2, RendererStep
  <2> QED BY <1>5, <2>2, <2>3, <2>4 DEF IncomingVerified
<1> QED BY <1>3, <1>4, <1>5

\* A cancelled receive lets go of its record.
LEMMA ReceiverCancels ==
    ASSUME TransferInv, UNCHANGED <<sender, task>>, ReceiverCancelled,
           IsSeq(toSnd)', Confirms(toSnd)' => Confirms(toSnd)
    PROVE  TransferInv'
<1> DEFINE ended == [rcv EXCEPT !.status = "cancelled"]
<1>1. Whole(rcv) /\ Shape
  BY DEF TransferInv, Shape
<1>2. Whole(ended) /\ ended.status = "cancelled" /\ rcv' = Audited(ended, "cancelled")
  BY <1>1 DEF Whole, ReceiverCancelled
<1> HIDE DEF ended
<1>3. Whole(rcv') /\ rcv'.status = "cancelled"
  BY <1>2, AuditedLemma
<1>4. /\ {"record", "partial", "next", "chunks", "final"} \subseteq DOMAIN disk'
      /\ disk'.chunks \in [Chunks -> {"absent", "good", "changed"}]
      /\ disk'.final = disk.final /\ ~disk'.record
  <2>1. \/ disk' = disk /\ ~disk.record
        \/ disk' = [disk EXCEPT !.record = FALSE, !.partial = FALSE]
    BY DEF ReceiverCancelled, CancelReceive
  <2> QED BY <1>1, <2>1 DEF Shape
<1>5. CancelledIsPrepared'
  BY <1>4 DEF CancelledIsPrepared
<1> QED BY <1>1, <1>3, <1>4, <1>5, ReceiverStep DEF Shape

\* The receiver handles a message.
LEMMA ReceiverGets ==
    ASSUME TransferInv,
           \/ HandleIncomingRequest \/ HandleBinaryFrame \/ VerifyIncoming
           \/ HandleCancelReceived \/ HandleErrorReceived
    PROVE  TransferInv'
<1>1. Whole(rcv) /\ IsSeq(toSnd)
  BY DEF TransferInv, Shape
<1>2. task["queue"] = NoTask /\ NoTask.op # "prepared" /\ UNCHANGED sender
  BY DEF HandleIncomingRequest, HandleBinaryFrame, VerifyIncoming, HandleCancelReceived,
         HandleErrorReceived, Gets, NoTask
<1>3. /\ [op |-> "prepare"].op # "valid" /\ [op |-> "complete"].op # "valid"
      /\ \A index, intact : [op |-> "write", index |-> index, intact |-> intact].op # "valid"
  OBVIOUS
<1>4. CASE HandleIncomingRequest
  <2>1. UNCHANGED disk /\ task' \in {task, [task EXCEPT !["queue"] = [op |-> "prepare"]]}
    BY <1>4 DEF HandleIncomingRequest, PrepareIfAutomatic
  <2>2. Whole(rcv') /\ rcv'.status \in {rcv.status, "waiting"}
    <3>1. \/ rcv' = rcv \/ rcv' = NewTransfer
          \/ rcv' = [rcv EXCEPT !.status = "waiting", !.audit = NoAudit]
      <4> DEFINE again == [rcv EXCEPT !.status = "waiting", !.audit = NoAudit]
      <4>1. CASE rcv.status = "none" \/ rcv.status \in {"completed", "receiving", "paused"}
        BY <1>4, <4>1 DEF HandleIncomingRequest
      <4>2. CASE rcv.status \in {"failed", "rejected"}
        <5>1. rcv' = again
          BY <1>4, <4>2 DEF HandleIncomingRequest
        <5> QED BY <5>1
      <4>3. CASE rcv.status \notin {"none", "completed", "receiving", "paused", "failed", "rejected"}
        BY <1>4, <4>3 DEF HandleIncomingRequest
      <4> QED BY <4>1, <4>2, <4>3
    <3>2. CASE rcv' = NewTransfer
      BY <3>2 DEF NewTransfer, Whole
    <3>3. CASE rcv' = [rcv EXCEPT !.status = "waiting", !.audit = NoAudit]
      BY <1>1, <3>3 DEF Whole
    <3> QED BY <1>1, <3>1, <3>2, <3>3
  <2>3. IsSeq(toSnd)' /\ (Confirms(toSnd)' => Confirms(toSnd) \/ rcv.status = "completed")
    <3>1. CASE rcv.status = "completed"
      <4> DEFINE sent == Sent(toSnd, [type |-> "verified"])
      <4>1. toSnd' = sent
        BY <1>4, <3>1 DEF HandleIncomingRequest
      <4>2. IsSeq(sent)
        BY <1>1, SentLemma
      <4> HIDE DEF sent
      <4> QED BY <3>1, <4>1, <4>2
    <3>2. CASE rcv.status # "completed"
      <4>1. toSnd' = toSnd
        BY <1>4, <3>2 DEF HandleIncomingRequest
      <4> QED BY <1>1, <4>1
    <3> QED BY <3>1, <3>2
  <2> QED BY <1>1, <1>2, <1>3, <2>1, <2>2, <2>3, RendererStep
<1>5. CASE HandleBinaryFrame
  <2>1. /\ UNCHANGED <<disk, toSnd>>
        /\ \/ rcv' = rcv /\ task' = task
           \/ /\ rcv' = [rcv EXCEPT !.status = "receiving"]
              /\ task' = [task EXCEPT !["queue"] =
                   [op |-> "write", index |-> Head(toRcv).index, intact |-> Head(toRcv).intact]]
    BY <1>5 DEF HandleBinaryFrame
  <2>2. CASE rcv' = [rcv EXCEPT !.status = "receiving"]
    <3>1. Whole(rcv') /\ rcv'.status = "receiving"
      BY <1>1, <2>2 DEF Whole
    <3> DEFINE write == [op |-> "write", index |-> Head(toRcv).index, intact |-> Head(toRcv).intact]
    <3>2. task' = task \/ task' = [task EXCEPT !["queue"] = write]
      BY <2>1
    <3>3. write.op # "valid"
      OBVIOUS
    <3> HIDE DEF write
    <3> QED BY <1>1, <1>2, <2>1, <3>1, <3>2, <3>3, RendererStep
  <2>3. CASE rcv' = rcv /\ task' = task
    BY <1>1, <1>2, <1>3, <2>1, <2>3, RendererStep
  <2> QED BY <2>1, <2>2, <2>3
<1>6. CASE VerifyIncoming
  <2>1. /\ UNCHANGED <<rcv, disk, toSnd>>
        /\ task' \in {task, [task EXCEPT !["queue"] = [op |-> "complete"]]}
    BY <1>6 DEF VerifyIncoming
  <2> QED BY <1>1, <1>2, <1>3, <2>1, RendererStep
<1>7. CASE HandleCancelReceived
  <2>1. CASE UNCHANGED <<rcv, disk>>
    BY <1>1, <1>2, <1>3, <1>7, <2>1, RendererStep DEF HandleCancelReceived
  <2>2. CASE ReceiverCancelled
    BY <1>1, <1>2, <1>7, <2>2, ReceiverCancels DEF HandleCancelReceived
  <2> QED BY <1>7, <2>1, <2>2 DEF HandleCancelReceived
<1>8. CASE HandleErrorReceived
  <2>1. rcv' = Failed(rcv) /\ UNCHANGED <<task, disk, toSnd>>
    BY <1>8 DEF HandleErrorReceived
  <2> QED BY <1>1, <1>2, <1>3, <2>1, FailedLemma, RendererStep
<1> QED BY <1>4, <1>5, <1>6, <1>7, <1>8

\* The buttons of the receiver.
LEMMA ReceiverClicks ==
    ASSUME TransferInv, AcceptIncoming \/ ClickReject \/ CancelReceived \/ CloseReceived
    PROVE  TransferInv'
<1>1. Whole(rcv) /\ IsSeq(toSnd)
  BY DEF TransferInv, Shape
<1>2. CASE AcceptIncoming
  <2>1. /\ UNCHANGED <<sender, disk, rcv, toSnd>> /\ task["click"] = NoTask
        /\ task' = [task EXCEPT !["click"] = [op |-> "prepare"]]
        /\ [op |-> "prepare"].op # "valid" /\ NoTask.op # "prepared"
    BY <1>2 DEF AcceptIncoming, NoTask
  <2> QED BY <1>1, <2>1, RendererStep
<1>3. CASE ClickReject
  <2> DEFINE ended == [rcv EXCEPT !.status = "rejected"]
  <2>1. Whole(ended) /\ ended.status = "rejected"
    BY <1>1 DEF Whole
  <2>2. rcv' = Audited(ended, "rejected") /\ UNCHANGED <<sender, disk, task>>
    BY <1>3 DEF ClickReject, RejectIncoming
  <2> HIDE DEF ended
  <2>3. Whole(rcv') /\ rcv'.status = "rejected"
    BY <2>1, <2>2, AuditedLemma
  <2>4. [type |-> "reject"].type # "verified" /\ NoTask.op # "valid"
    BY DEF NoTask
  <2>5. IsSeq(toSnd)' /\ (Confirms(toSnd)' => Confirms(toSnd))
    BY <1>1, <1>3, <2>4, SentLemma DEF ClickReject, RejectIncoming
  <2> QED BY <2>2, <2>3, <2>4, <2>5, RendererStep
<1>4. CASE CancelReceived
  <2>1. [type |-> "cancel"].type # "verified"
    OBVIOUS
  <2>2. IsSeq(toSnd)' /\ (Confirms(toSnd)' => Confirms(toSnd))
    BY <1>1, <1>4, <2>1, SentLemma DEF CancelReceived
  <2> QED BY <1>4, <2>2, ReceiverCancels DEF CancelReceived
<1>5. CASE CloseReceived
  <2>1. Whole(rcv') /\ rcv'.status = "none"
    BY <1>1, <1>5 DEF CloseReceived, Whole
  <2>2. UNCHANGED <<sender, disk, task, toSnd>> /\ NoTask.op # "valid"
    BY <1>5 DEF CloseReceived, NoTask
  <2> QED BY <1>1, <2>1, <2>2, RendererStep
<1> QED BY <1>2, <1>3, <1>4, <1>5

\* The channel is lost on both sides.
LEMMA ChannelDetached ==
    ASSUME TransferInv, DetachChannel
    PROVE  TransferInv'
<1>1. Whole(rcv) /\ Whole(snd) /\ Shape
  BY DEF TransferInv, Shape
<1>2. /\ snd' = Paused(snd) /\ rcv' = Paused(rcv)
      /\ UNCHANGED <<source, task, disk>>
      /\ \E n \in 0 .. Len(toSnd) : toSnd' = SubSeq(toSnd, 1, n)
  BY DEF DetachChannel
<1>3. ASSUME NEW transfer, Whole(transfer)
      PROVE  /\ Whole(Paused(transfer))
             /\ Claims(Paused(transfer)) => Claims(transfer)
             /\ Paused(transfer).status \in {transfer.status, "paused"}
  BY <1>3 DEF Paused, Whole, Claims
<1>4. IsSeq(toSnd)' /\ (Confirms(toSnd)' => Confirms(toSnd))
  BY <1>1, <1>2, PrefixLemma DEF Shape
<1>5. Chunks' = Chunks /\ Delivered' = Delivered
  BY <1>2 DEF Chunks, TotalChunks, Delivered
<1>6. Shape'
  BY <1>1, <1>2, <1>3, <1>4, <1>5 DEF Shape
<1>7. (Claims(snd)' => Claims(snd)) /\ (rcv'.status = "completed" => rcv.status = "completed")
  BY <1>1, <1>2, <1>3
<1>8. Confirmed'
  BY <1>2, <1>4, <1>5, <1>7 DEF TransferInv, Confirmed
<1>9. CancelledIsPrepared'
  BY <1>1, <1>2, <1>3 DEF TransferInv, CancelledIsPrepared
<1> QED BY <1>6, <1>8, <1>9 DEF TransferInv

\* The receiver's application is started again.
LEMMA ReceiverStartsAgain ==
    ASSUME TransferInv, ReceiverRestarts
    PROVE  TransferInv'
<1>1. Shape /\ UNCHANGED <<sender, toSnd>>
  BY DEF TransferInv, ReceiverRestarts
<1>2. Whole(rcv') /\ rcv'.status = "none"
  BY NewTransferLemma DEF ReceiverRestarts, NewTransfer
<1>3. DOMAIN task' = {"queue", "click"} /\ task'["queue"].op # "valid"
  BY DEF ReceiverRestarts, NoTasks, NoTask
<1>4. /\ {"record", "partial", "next", "chunks", "final"} \subseteq DOMAIN disk'
      /\ disk'.chunks \in [Chunks -> {"absent", "good", "changed"}]
      /\ disk'.final = disk.final
  BY <1>1 DEF Shape, ReceiverRestarts
<1>5. CancelledIsPrepared'
  BY <1>2 DEF CancelledIsPrepared
<1> QED BY <1>1, <1>2, <1>3, <1>4, <1>5, ReceiverStep DEF Shape

----------------------------------------------------------------------------
\* The invariant holds at the start.
LEMMA TransferInit ==
    ASSUME Init
    PROVE  TransferInv
<1>1. Whole(snd) /\ Whole(rcv) /\ ~Claims(snd) /\ rcv.status = "none"
  BY NewTransferLemma DEF Init, NewTransfer
<1>2. DOMAIN task = {"queue", "click"} /\ task["queue"].op # "valid"
  BY DEF Init, NoTasks, NoTask
<1>3. {"total", "kept", "intact"} \subseteq DOMAIN source
  BY DEF Init
<1>4. /\ {"record", "partial", "next", "chunks", "final"} \subseteq DOMAIN disk
      /\ disk.chunks \in [Chunks -> {"absent", "good", "changed"}]
  BY DEF Init, NoChunks
<1>5. IsSeq(toSnd) /\ ~Confirms(toSnd)
  BY DEF Init, IsSeq, Confirms
<1> QED BY <1>1, <1>2, <1>3, <1>4, <1>5 DEF TransferInv, Shape, Confirmed, CancelledIsPrepared

\* Every step keeps the invariant.
LEMMA TransferNext ==
    ASSUME TransferInv, [Next]_vars
    PROVE  TransferInv'
<1>1. CASE UNCHANGED vars
  <2>1. UNCHANGED <<receiver, sender, toSnd>>
    BY <1>1 DEF vars
  <2>2. snd' = snd /\ source' = source
    BY <2>1 DEF sender
  <2> QED BY <2>1, <2>2, SenderStep DEF TransferInv, Shape, Claims
<1>2. CASE Program
  BY <1>2, SenderActs, SenderHears, StorageActs, ReceiverReads, ReceiverGets DEF Program
<1>3. CASE World
  BY <1>3, SenderActs, ReceiverClicks, ChannelDetached, ReceiverStartsAgain DEF World
<1> QED BY <1>1, <1>2, <1>3 DEF Next

\* What the sender calls completed stands whole on the receiver's disk
\* (handleVerified, completeReceive, findBadChunks).
THEOREM SentIsDelivered == Spec => []SentMeansDelivered
<1>1. Init => TransferInv
  BY TransferInit
<1>2. TransferInv /\ [Next]_vars => TransferInv'
  BY TransferNext
<1>3. TransferInv => SentMeansDelivered
  BY DEF TransferInv, Confirmed, Claims, SentMeansDelivered
<1> QED BY <1>1, <1>2, <1>3, PTL DEF Spec

\* A cancelled receive that has come to rest has let go of the file
\* (cancelReceive, prepareReceive, prepareAndAccept).
THEOREM CancelledIsLetGo == Spec => []CancelledLeavesNothing
<1>1. Init => TransferInv
  BY TransferInit
<1>2. TransferInv /\ [Next]_vars => TransferInv'
  BY TransferNext
<1>3. TransferInv => CancelledLeavesNothing
  <2>1. \A by \in {"queue", "click"} : NoTasks[by].op # "prepared"
    BY DEF NoTasks, NoTask
  <2> QED BY <2>1 DEF TransferInv, CancelledIsPrepared, CancelledLeavesNothing
<1> QED BY <1>1, <1>2, <1>3, PTL DEF Spec

----------------------------------------------------------------------------
(* Acknowledgements.  What the receiver has answered since its last accept *)
(* holds of its disk: the prefix of chunks only grows until a preparation  *)
(* starts anew, and a preparation ends in an accept or in an audit entry.  *)

\* A nonempty set of naturals has a least element.
LEMMA LeastNatural ==
    ASSUME NEW T, T \subseteq Nat, T # {}
    PROVE  \E m \in T : \A n \in T : m <= n
<1>1. PICK m \in T : \A n \in T : ~(<<n, m>> \in OpToRel(<, Nat))
  BY WFMin, NatLessThanWellFounded, Zenon
<1>2. ASSUME NEW n \in T PROVE ~(n < m)
  <2>1. n \in Nat /\ m \in Nat /\ <<n, m>> \in Nat \X Nat
    OBVIOUS
  <2> QED BY <1>1, <2>1, Zenon DEF OpToRel
<1> QED BY <1>2

\* The numbers of chunks that may be acknowledged: those before are on disk.
Reached == {n \in 0 .. TotalChunks : \A k \in Chunks : k < n => disk.chunks[k] # "absent"}

\* No accept follows the i-th message.
Latest(queue, i) == \A j \in DOMAIN queue : j > i => queue[j].type # "accept"

\* The sender's number and the answers on their way are from the set N, as far
\* as no accept will replace them.
Backs(queue, ack, N) ==
    /\ Latest(queue, 0) => ack \in N
    /\ \A i \in DOMAIN queue :
          queue[i].type \in {"accept", "ack"} /\ Latest(queue, i) => queue[i].next \in N

Asks(queue) == \E i \in DOMAIN queue : queue[i].type = "request"

UnderWay ==
    /\ snd.status # "none" /\ snd.audit = NoAudit
    /\ rcv.status \in {"receiving", "paused"} /\ rcv.audit = NoAudit
    /\ ~StartsAgain

AckInv ==
    /\ source.total \in Nat
    /\ IsSeq(toRcv)
    /\ disk.next \in Reached
    /\ \A by \in {"queue", "click"} :
          task[by].op \in {"prepared", "written"} => task[by].next \in Reached
    /\ Ended(snd) /\ snd.status # "none" => snd.audit # NoAudit
    /\ UnderWay => Backs(toSnd, snd.ack, Reached)

\* Another message, which is no answer, or one that holds of the disk.
LEMMA BacksAppend ==
    ASSUME NEW queue, IsSeq(queue), NEW ack, NEW N, NEW message,
           message.type \in {"accept", "ack"} => message.next \in N,
           message.type = "accept" \/ Backs(queue, ack, N)
    PROVE  Backs(Append(queue, message), ack, N)
<1> DEFINE longer == Append(queue, message)
           S == {queue[i] : i \in DOMAIN queue} \cup {message}
<1>1. queue \in Seq({queue[i] : i \in DOMAIN queue})
  BY DEF IsSeq
<1>2. queue \in Seq(S) /\ message \in S
  BY <1>1, SeqMonotonic
<1> HIDE DEF S
<1>3. /\ longer \in Seq(S)
      /\ Len(longer) = Len(queue) + 1
      /\ \A i \in 1 .. Len(queue) : longer[i] = queue[i]
      /\ longer[Len(queue) + 1] = message
  BY <1>2, AppendProperties
<1>4. /\ DOMAIN queue = 1 .. Len(queue) /\ Len(queue) \in Nat
      /\ DOMAIN longer = 1 .. Len(queue) + 1
  BY <1>2, <1>3, LenProperties
<1> HIDE DEF longer
<1>5. \A i \in 0 .. Len(queue) : Latest(longer, i) => Latest(queue, i) /\ message.type # "accept"
  BY <1>3, <1>4 DEF Latest
<1>6. Latest(longer, 0) => ack \in N
  BY <1>4, <1>5 DEF Backs
<1>7. ASSUME NEW i \in DOMAIN longer,
             longer[i].type \in {"accept", "ack"}, Latest(longer, i)
      PROVE  longer[i].next \in N
  <2>1. CASE i = Len(queue) + 1
    BY <1>3, <1>7, <2>1
  <2>2. CASE i \in DOMAIN queue
    <3>1. i \in 0 .. Len(queue) /\ longer[i] = queue[i]
      BY <1>3, <1>4, <2>2
    <3>2. Latest(queue, i) /\ message.type # "accept"
      BY <1>5, <1>7, <3>1
    <3> QED BY <1>7, <2>2, <3>1, <3>2 DEF Backs
  <2> QED BY <1>4, <2>1, <2>2
<1>8. Backs(longer, ack, N)
  BY <1>6, <1>7 DEF Backs
<1> QED BY <1>8 DEF longer

\* The first message is read: an answer becomes the sender's number.
LEMMA BacksTail ==
    ASSUME NEW queue, IsSeq(queue), queue # <<>>, NEW ack, NEW N, Backs(queue, ack, N)
    PROVE  /\ Head(queue).type # "accept" => Backs(Tail(queue), ack, N)
           /\ Head(queue).type \in {"accept", "ack"} => Backs(Tail(queue), Head(queue).next, N)
<1> DEFINE S == {queue[i] : i \in DOMAIN queue}
           rest == Tail(queue)
<1>1. queue \in Seq(S)
  BY DEF IsSeq
<1> HIDE DEF S
<1>2. /\ rest \in Seq(S) /\ Len(rest) = Len(queue) - 1
      /\ \A i \in 1 .. Len(rest) : rest[i] = queue[i + 1]
  BY <1>1, HeadTailProperties
<1>3. /\ DOMAIN queue = 1 .. Len(queue) /\ Len(queue) \in Nat /\ Len(queue) # 0
      /\ DOMAIN rest = 1 .. Len(queue) - 1
  BY <1>1, <1>2, LenProperties, EmptySeq
<1>4. Head(queue) = queue[1] /\ 1 \in DOMAIN queue
  BY <1>1, <1>3, HeadTailProperties
<1> HIDE DEF rest
<1>5. ASSUME NEW i \in 0 .. Len(queue) - 1, Latest(rest, i) PROVE Latest(queue, i + 1)
  <2> SUFFICES ASSUME NEW j \in DOMAIN queue, j > i + 1 PROVE queue[j].type # "accept"
    BY DEF Latest
  <2>1. j - 1 \in DOMAIN rest /\ j - 1 > i /\ j = (j - 1) + 1
    BY <1>3
  <2>2. rest[j - 1] = queue[j]
    BY <1>2, <1>3, <2>1
  <2> QED BY <1>5, <2>1, <2>2 DEF Latest
<1>6. ASSUME NEW i \in DOMAIN rest, rest[i].type \in {"accept", "ack"}, Latest(rest, i)
      PROVE  rest[i].next \in N
  <2>1. i + 1 \in DOMAIN queue /\ rest[i] = queue[i + 1] /\ i \in 0 .. Len(queue) - 1
    BY <1>2, <1>3
  <2>2. Latest(queue, i + 1)
    BY <1>5, <1>6, <2>1
  <2> QED BY <1>6, <2>1, <2>2 DEF Backs
<1>7. Latest(rest, 0) => Latest(queue, 1)
  BY <1>3, <1>5
<1>8. ASSUME Head(queue).type # "accept", Latest(rest, 0) PROVE ack \in N
  <2>1. Latest(queue, 0)
    BY <1>3, <1>4, <1>7, <1>8 DEF Latest
  <2> QED BY <2>1 DEF Backs
<1>9. ASSUME Head(queue).type \in {"accept", "ack"}, Latest(rest, 0)
      PROVE  Head(queue).next \in N
  BY <1>4, <1>7, <1>9 DEF Backs
<1>10. /\ Head(queue).type # "accept" => Backs(rest, ack, N)
       /\ Head(queue).type \in {"accept", "ack"} => Backs(rest, Head(queue).next, N)
  BY <1>6, <1>8, <1>9 DEF Backs
<1> QED BY <1>10 DEF rest

\* More chunks may be acknowledged.
LEMMA BacksMore ==
    ASSUME NEW queue, NEW ack, NEW N, NEW M, N \subseteq M, Backs(queue, ack, N)
    PROVE  Backs(queue, ack, M)
BY DEF Backs

\* A request stays in the channel until it is read.
LEMMA AsksLemma ==
    ASSUME NEW queue, IsSeq(queue)
    PROVE  /\ \A message : /\ Asks(queue) => Asks(Append(queue, message))
                           /\ message.type = "request" => Asks(Append(queue, message))
           /\ queue # <<>> /\ Asks(queue) => Head(queue).type = "request" \/ Asks(Tail(queue))
<1> DEFINE S == {queue[i] : i \in DOMAIN queue}
<1>1. queue \in Seq(S)
  BY DEF IsSeq
<1> HIDE DEF S
<1>2. DOMAIN queue = 1 .. Len(queue) /\ Len(queue) \in Nat
  BY <1>1, LenProperties
<1>3. ASSUME NEW message
      PROVE  /\ Asks(queue) => Asks(Append(queue, message))
             /\ message.type = "request" => Asks(Append(queue, message))
  <2> DEFINE longer == Append(queue, message)
  <2>1. queue \in Seq(S \cup {message}) /\ message \in S \cup {message}
    BY <1>1, SeqMonotonic
  <2>2. /\ longer \in Seq(S \cup {message})
        /\ Len(longer) = Len(queue) + 1
        /\ \A i \in 1 .. Len(queue) : longer[i] = queue[i]
        /\ longer[Len(queue) + 1] = message
    BY <2>1, AppendProperties
  <2>3. DOMAIN longer = 1 .. Len(queue) + 1
    BY <2>2, LenProperties
  <2> HIDE DEF longer
  <2>4. /\ Asks(queue) => Asks(longer)
        /\ message.type = "request" => Asks(longer)
    BY <1>2, <2>2, <2>3 DEF Asks
  <2> QED BY <2>4 DEF longer
<1>4. ASSUME queue # <<>>, Asks(queue)
      PROVE  Head(queue).type = "request" \/ Asks(Tail(queue))
  <2> DEFINE rest == Tail(queue)
  <2>1. PICK i \in DOMAIN queue : queue[i].type = "request"
    BY <1>4 DEF Asks
  <2>2. /\ rest \in Seq(S) /\ Len(rest) = Len(queue) - 1
        /\ \A n \in 1 .. Len(rest) : rest[n] = queue[n + 1]
        /\ Head(queue) = queue[1]
    BY <1>1, <1>4, HeadTailProperties
  <2>3. DOMAIN rest = 1 .. Len(queue) - 1
    BY <1>2, <2>2, LenProperties
  <2> HIDE DEF rest
  <2>4. CASE i # 1
    <3>1. i - 1 \in DOMAIN rest /\ i = (i - 1) + 1
      BY <1>2, <2>3, <2>4
    <3>2. rest[i - 1].type = "request"
      BY <2>1, <2>2, <2>3, <3>1
    <3>3. Asks(rest)
      BY <3>1, <3>2 DEF Asks
    <3> QED BY <3>3 DEF rest
  <2> QED BY <2>1, <2>2, <2>4
<1> QED BY <1>3, <1>4

\* findNextChunkIndex returns a number that may be acknowledged.
LEMMA NextChunkLemma ==
    ASSUME source.total \in Nat, NEW chunks, NEW start \in 0 .. TotalChunks,
           \A k \in Chunks : k < start => chunks[k] # "absent"
    PROVE  /\ NextChunkIndex(chunks, start) \in 0 .. TotalChunks
           /\ \A k \in Chunks : k < NextChunkIndex(chunks, start) => chunks[k] # "absent"
<1> DEFINE T == {k \in start .. TotalChunks : k = TotalChunks \/ chunks[k] = "absent"}
           next == NextChunkIndex(chunks, start)
<1>1. T \subseteq Nat /\ T # {} /\ TotalChunks \in Nat
  BY DEF TotalChunks
<1>2. \E m \in T : \A n \in T : m <= n
  <2> HIDE DEF T
  <2> QED BY <1>1, LeastNatural
<1>3. next \in T /\ \A n \in T : next <= n
  BY <1>2 DEF NextChunkIndex, Min
<1> HIDE DEF next
<1>4. next \in start .. TotalChunks /\ next \in 0 .. TotalChunks
  BY <1>1, <1>3
<1>5. ASSUME NEW k \in Chunks, k < next PROVE chunks[k] # "absent"
  <2>1. k \in Nat /\ k < TotalChunks
    BY <1>1 DEF Chunks
  <2>2. CASE k < start
    BY <2>2
  <2>3. CASE ~(k < start)
    <3>1. k \in start .. TotalChunks
      BY <1>1, <2>1, <2>3
    <3>2. k \notin T
      BY <1>1, <1>3, <1>4, <1>5, <2>1
    <3> QED BY <3>1, <3>2
  <2> QED BY <2>2, <2>3
<1> QED BY <1>4, <1>5 DEF next

\* A larger disk has reached no less.
LEMMA ReachedLemma ==
    ASSUME source'.total = source.total,
           \A k \in Chunks : disk.chunks[k] # "absent" => disk'.chunks[k] # "absent"
    PROVE  Reached \subseteq Reached' /\ Chunks' = Chunks /\ TotalChunks' = TotalChunks
BY DEF Reached, Chunks, TotalChunks

\* A failure is recorded, unless the transfer had ended.
LEMMA FailedAudits ==
    ASSUME NEW transfer, Whole(transfer)
    PROVE  \/ Ended(transfer) /\ Failed(transfer) = transfer
           \/ Failed(transfer).status = "failed" /\ Failed(transfer).audit # NoAudit
<1> DEFINE failed == [transfer EXCEPT !.status = "failed", !.pumping = FALSE]
<1>1. Whole(failed) /\ failed.status = "failed" /\ failed.audit = transfer.audit
  BY DEF Whole
<1>2. Failed(transfer) = IF Ended(transfer) THEN transfer ELSE Audited(failed, "failed")
  BY DEF Failed
<1> HIDE DEF failed
<1>3. Audited(failed, "failed").status = "failed" /\ Audited(failed, "failed").audit # NoAudit
  BY <1>1 DEF Audited, Whole, NoAudit
<1> QED BY <1>2, <1>3

\* An audit entry stays.
LEMMA AuditStays ==
    ASSUME NEW transfer, Whole(transfer), NEW result, result # NoAudit
    PROVE  Audited(transfer, result).audit # NoAudit
BY DEF Audited, Whole

\* The transfer was under way before a step that starts nothing again.
LEMMA StillUnderWay ==
    ASSUME TransferInv, UnderWay', DOMAIN task' = {"queue", "click"},
           open' => open, Asks(toRcv) => Asks(toRcv)',
           \A by \in {"queue", "click"} :
              task[by].op \in {"prepare", "prepared", "refused", "prepare failed"}
              => task'[by].op \in {"prepare", "prepared", "refused", "prepare failed"},
           snd'.status # "none" /\ snd'.audit = NoAudit
           => snd.status # "none" /\ snd.audit = NoAudit,
           rcv'.status \in {"receiving", "paused"} /\ rcv'.audit = NoAudit
           => rcv.status \in {"receiving", "paused"} /\ rcv.audit = NoAudit
    PROVE  UnderWay
<1>1. DOMAIN task = {"queue", "click"}
  BY DEF TransferInv, Shape
<1> QED BY <1>1 DEF UnderWay, StartsAgain, Asks

\* A step of the sender: the receiver and its disk stay.
LEMMA SenderKeepsAcks ==
    ASSUME TransferInv, AckInv, UNCHANGED receiver, source'.total = source.total,
           IsSeq(toRcv)', Ended(snd)' /\ snd'.status # "none" => snd'.audit # NoAudit,
           UnderWay' => Backs(toSnd', snd'.ack, Reached)
    PROVE  AckInv'
<1>1. task' = task /\ disk' = disk /\ Reached' = Reached
  BY DEF receiver, Reached, Chunks, TotalChunks
<1> QED BY <1>1 DEF AckInv

\* A step of the sender that reads no message: it takes nothing for
\* acknowledged, or the transfer is not under way after it.
LEMMA SenderAside ==
    ASSUME TransferInv, AckInv, UNCHANGED <<receiver, toSnd>>, source'.total = source.total,
           IsSeq(toRcv)', open' => open \/ Asks(toRcv)' \/ snd'.audit # NoAudit \/ snd'.status = "none",
           Asks(toRcv) => Asks(toRcv)',
           Ended(snd)' /\ snd'.status # "none" => snd'.audit # NoAudit,
           \/ snd'.audit # NoAudit \/ snd'.status = "none" \/ ~open' \/ Asks(toRcv)'
           \/ snd.status # "none" /\ snd'.audit = snd.audit /\ snd'.ack = snd.ack
    PROVE  AckInv'
<1> SUFFICES ASSUME UnderWay' PROVE Backs(toSnd', snd'.ack, Reached)
  BY SenderKeepsAcks
<1>1. snd'.audit = NoAudit /\ snd'.status # "none" /\ open' /\ ~Asks(toRcv)'
  BY DEF UnderWay, StartsAgain, Asks
<1>2. snd.status # "none" /\ snd'.audit = snd.audit /\ snd'.ack = snd.ack
  BY <1>1
<1>3. DOMAIN task' = {"queue", "click"} /\ task' = task /\ rcv' = rcv
  BY DEF TransferInv, Shape, receiver
<1>4. UnderWay
  BY <1>1, <1>2, <1>3, StillUnderWay
<1> QED BY <1>2, <1>4 DEF AckInv

\* What is sent to the receiver, and what it asks.
LEMMA SentAsks ==
    ASSUME IsSeq(toRcv), NEW message
    PROVE  /\ IsSeq(Sent(toRcv, message))
           /\ Asks(toRcv) => Asks(Sent(toRcv, message))
           /\ open /\ message.type = "request" => Asks(Sent(toRcv, message))
BY AppendLemma, AsksLemma DEF Sent

\* The notice of a failure asks nothing and loses nothing.
LEMMA NoticeAsks ==
    ASSUME IsSeq(toRcv), NEW transfer
    PROVE  /\ IsSeq(FailNotice(transfer, toRcv))
           /\ Asks(toRcv) => Asks(FailNotice(transfer, toRcv))
BY SentAsks DEF FailNotice

\* What a failure or a catch block makes of the sender's transfer.
LEMMA GivenUp ==
    ASSUME TransferInv, AckInv, NEW new, new \in {Failed(snd), Caught(snd)}
    PROVE  /\ Ended(new) /\ new.status # "none" => new.audit # NoAudit
           /\ new.audit # NoAudit \/ ~open \/ (new = snd /\ Ended(snd))
           /\ Whole(new)
<1>1. Whole(snd) /\ (Ended(snd) /\ snd.status # "none" => snd.audit # NoAudit)
  BY DEF TransferInv, Shape, AckInv
<1>2. CASE new = Failed(snd)
  <2>1. Whole(new)
    BY <1>1, <1>2, FailedLemma
  <2>2. (Ended(snd) /\ new = snd) \/ new.audit # NoAudit
    BY <1>1, <1>2, FailedAudits
  <2>3. Ended(new) /\ new.status # "none" => new.audit # NoAudit
    BY <1>1, <2>2
  <2>4. new.audit # NoAudit \/ (new = snd /\ Ended(snd))
    BY <2>2
  <2> QED BY <2>1, <2>3, <2>4
<1>3. CASE ~open /\ new = [snd EXCEPT !.status = "paused"]
  <2>1. Whole(new) /\ new.status = "paused"
    BY <1>1, <1>3 DEF Whole
  <2>2. ~Ended(new)
    BY <2>1 DEF Ended, Terminal
  <2> QED BY <1>3, <2>1, <2>2
<1> QED BY <1>2, <1>3 DEF Caught

\* The sender's own steps.
LEMMA SenderActsOnAcks ==
    ASSUME TransferInv, AckInv,
           \/ EnqueueFiles \/ CancelSent \/ RetryTransfer \/ CloseSent
           \/ \E p \in Pumps : PumpSends(p) \/ PumpFails(p)
           \/ CompleteOutgoing \/ ResendChunk \/ ResendFails \/ ResendDone
           \/ EditSource \/ HandleChannelOpen
    PROVE  AckInv'
<1>1. /\ Whole(snd) /\ IsSeq(toRcv)
      /\ {"total", "kept", "intact"} \subseteq DOMAIN source
      /\ Ended(snd) /\ snd.status # "none" => snd.audit # NoAudit
  BY DEF TransferInv, Shape, AckInv
<1>2. [type |-> "request"].type = "request"
  OBVIOUS
<1>3. CASE EnqueueFiles
  <2>1. /\ UNCHANGED <<receiver, toSnd, open>> /\ snd'.status = "waiting"
        /\ source'.total = source.total
    BY <1>1, <1>3 DEF EnqueueFiles, NewTransfer
  <2>2. toRcv' = Sent(toRcv, [type |-> "request"])
    BY <1>3 DEF EnqueueFiles
  <2>3. IsSeq(toRcv)' /\ (Asks(toRcv) => Asks(toRcv)') /\ (open => Asks(toRcv)')
    BY <1>1, <1>2, <2>2, SentAsks
  <2> QED BY <2>1, <2>3, SenderAside DEF Ended, Terminal
<1>4. CASE CancelSent
  <2> DEFINE ended == [snd EXCEPT !.status = "cancelled"]
  <2>1. Whole(ended)
    BY <1>1 DEF Whole
  <2>2. snd' = Audited(ended, "cancelled") /\ UNCHANGED <<receiver, toSnd, open>>
    BY <1>4 DEF CancelSent, SenderCancelled
  <2> HIDE DEF ended
  <2>3. snd'.audit # NoAudit
    BY <2>1, <2>2, AuditStays DEF NoAudit
  <2>4. source'.total = source.total
    BY <1>1, <1>4 DEF CancelSent, SenderCancelled
  <2>5. toRcv' = Sent(toRcv, [type |-> "cancel"])
    BY <1>4 DEF CancelSent
  <2>6. IsSeq(toRcv)' /\ (Asks(toRcv) => Asks(toRcv)')
    BY <1>1, <2>5, SentAsks
  <2> QED BY <2>2, <2>3, <2>4, <2>6, SenderAside
<1>5. CASE RetryTransfer
  <2>1. UNCHANGED <<receiver, toSnd, open, source>> /\ snd'.status = "waiting" /\ open
    BY <1>5 DEF RetryTransfer, NewTransfer
  <2>2. toRcv' = Sent(toRcv, [type |-> "request"])
    BY <1>5 DEF RetryTransfer
  <2>3. IsSeq(toRcv)' /\ Asks(toRcv)'
    BY <1>1, <1>2, <2>1, <2>2, SentAsks
  <2> QED BY <2>1, <2>3, SenderAside DEF Ended, Terminal
<1>6. CASE CloseSent
  <2>1. snd'.audit = snd.audit /\ snd.audit # NoAudit
    BY <1>1, <1>6 DEF CloseSent, Whole, Ended, Terminal
  <2>2. UNCHANGED <<receiver, toSnd, toRcv, open, source>>
    BY <1>6 DEF CloseSent
  <2> QED BY <1>1, <2>1, <2>2, SenderAside DEF Asks
<1>7. ASSUME NEW p \in Pumps, PumpSends(p) PROVE AckInv'
  <2> DEFINE moved == [snd EXCEPT !.next = @ + 1]
  <2>1. /\ Whole(moved) /\ moved.audit = snd.audit /\ moved.status = snd.status
        /\ moved.ack = snd.ack
    BY <1>1 DEF Whole
  <2>2. snd' = moved \/ snd' = [moved EXCEPT !.pumping = FALSE]
    BY <1>7 DEF PumpSends
  <2> HIDE DEF moved
  <2>3. snd'.audit = snd.audit /\ snd'.status = snd.status /\ snd'.ack = snd.ack
    BY <2>1, <2>2 DEF Whole
  <2>4. UNCHANGED <<receiver, toSnd, open, source>>
        /\ \E message : toRcv' = Append(toRcv, message)
    BY <1>7 DEF PumpSends
  <2>5. IsSeq(toRcv)' /\ (Asks(toRcv) => Asks(toRcv)')
    BY <1>1, <2>4, AppendLemma, AsksLemma
  <2> QED BY <1>1, <2>3, <2>4, <2>5, SenderAside DEF Ended
<1>8. ASSUME NEW p \in Pumps, PumpFails(p) PROVE AckInv'
  <2> DEFINE caught == Caught(snd)
  <2>1. /\ Ended(caught) /\ caught.status # "none" => caught.audit # NoAudit
        /\ caught.audit # NoAudit \/ ~open \/ (caught = snd /\ Ended(snd))
        /\ Whole(caught)
    BY GivenUp
  <2>2. snd' = [caught EXCEPT !.pumping = FALSE] /\ UNCHANGED <<receiver, toSnd, open, source>>
    BY <1>8 DEF PumpFails
  <2> HIDE DEF caught
  <2>3. snd'.audit = caught.audit /\ snd'.status = caught.status
    BY <2>1, <2>2 DEF Whole
  <2>4. toRcv' \in {toRcv, FailNotice(snd, toRcv)}
    BY <1>8 DEF PumpFails
  <2>5. IsSeq(toRcv)' /\ (Asks(toRcv) => Asks(toRcv)')
    BY <1>1, <2>4, NoticeAsks
  <2> QED BY <1>1, <2>1, <2>2, <2>3, <2>5, SenderAside DEF Ended
<1>9. CASE CompleteOutgoing
  <2>1. /\ snd' = snd \/ snd' \in {Failed(snd), Caught(snd)}
        /\ UNCHANGED <<receiver, toSnd, open, source>>
        /\ toRcv' \in {toRcv, FailNotice(snd, toRcv), Sent(toRcv, [type |-> "complete"])}
    BY <1>9 DEF CompleteOutgoing
  <2>2. IsSeq(toRcv)' /\ (Asks(toRcv) => Asks(toRcv)')
    BY <1>1, <2>1, NoticeAsks, SentAsks
  <2>3. CASE snd' = snd
    BY <1>1, <2>1, <2>2, <2>3, SenderAside DEF Ended
  <2>4. CASE snd' \in {Failed(snd), Caught(snd)}
    <3>1. /\ Ended(snd)' /\ snd'.status # "none" => snd'.audit # NoAudit
          /\ snd'.audit # NoAudit \/ ~open \/ snd' = snd
      BY <2>4, GivenUp DEF Ended
    <3> QED BY <1>1, <2>1, <2>2, <2>3, <3>1, SenderAside
  <2> QED BY <2>1, <2>3, <2>4
<1>10. CASE ResendChunk
  <2>1. /\ UNCHANGED <<snd, receiver, toSnd, open, source>>
        /\ \E message : toRcv' = Append(toRcv, message)
    BY <1>10 DEF ResendChunk
  <2>2. IsSeq(toRcv)' /\ (Asks(toRcv) => Asks(toRcv)')
    BY <1>1, <2>1, AppendLemma, AsksLemma
  <2> QED BY <1>1, <2>1, <2>2, SenderAside DEF Ended
<1>11. CASE ResendFails
  <2>1. /\ snd' \in {Failed(snd), Caught(snd)}
        /\ UNCHANGED <<receiver, toSnd, open, source>>
        /\ toRcv' \in {toRcv, FailNotice(snd, toRcv)}
    BY <1>11 DEF ResendFails
  <2>2. IsSeq(toRcv)' /\ (Asks(toRcv) => Asks(toRcv)')
    BY <1>1, <2>1, NoticeAsks
  <2>3. /\ Ended(snd)' /\ snd'.status # "none" => snd'.audit # NoAudit
        /\ snd'.audit # NoAudit \/ ~open \/ snd' = snd
    BY <2>1, GivenUp DEF Ended
  <2> QED BY <1>1, <2>1, <2>2, <2>3, SenderAside
<1>12. CASE ResendDone
  <2>1. /\ UNCHANGED <<snd, receiver, toSnd, open, source>>
        /\ toRcv' = Sent(toRcv, [type |-> "complete"])
    BY <1>12 DEF ResendDone
  <2>2. IsSeq(toRcv)' /\ (Asks(toRcv) => Asks(toRcv)')
    BY <1>1, <2>1, SentAsks
  <2> QED BY <1>1, <2>1, <2>2, SenderAside DEF Ended
<1>13. CASE EditSource
  <2>1. /\ UNCHANGED <<snd, receiver, toSnd, toRcv, open>>
        /\ source'.total = source.total
    BY <1>1, <1>13 DEF EditSource
  <2> QED BY <1>1, <2>1, SenderAside DEF Ended, Asks, IsSeq
<1>14. CASE HandleChannelOpen
  <2>1. UNCHANGED <<receiver, toSnd, source>> /\ open'
    BY <1>14 DEF HandleChannelOpen
  <2>2. CASE Ended(snd)
    <3>1. UNCHANGED <<snd, toRcv>>
      BY <1>14, <2>2 DEF HandleChannelOpen
    <3> QED BY <1>1, <2>1, <2>2, <3>1, SenderAside DEF Ended, Asks, IsSeq
  <2>3. CASE ~Ended(snd)
    <3>1. /\ snd'.status = "waiting"
          /\ toRcv' = Append(toRcv, [type |-> "request"])
      BY <1>1, <1>14, <2>3 DEF HandleChannelOpen, Whole
    <3>2. IsSeq(toRcv)' /\ Asks(toRcv)'
      BY <1>1, <1>2, <3>1, AppendLemma, AsksLemma
    <3> QED BY <2>1, <3>1, <3>2, SenderAside DEF Ended, Terminal
  <2> QED BY <2>2, <2>3
<1> QED BY <1>3, <1>4, <1>5, <1>6, <1>7, <1>8, <1>9, <1>10, <1>11, <1>12, <1>13, <1>14

\* The first message to the sender is read.
LEMMA HearsAcks ==
    ASSUME TransferInv, AckInv, UNCHANGED <<receiver, toRcv, open>>,
           source'.total = source.total,
           toSnd # <<>>, toSnd' = Tail(toSnd),
           Ended(snd)' /\ snd'.status # "none" => snd'.audit # NoAudit,
           \/ snd'.audit # NoAudit \/ snd'.status = "none"
           \/ /\ snd'.audit = snd.audit /\ snd.status # "none"
              /\ \/ snd'.ack = snd.ack /\ Head(toSnd).type # "accept"
                 \/ snd'.ack = Head(toSnd).next /\ Head(toSnd).type \in {"accept", "ack"}
    PROVE  AckInv'
<1>1. IsSeq(toSnd) /\ IsSeq(toRcv)'
  BY DEF TransferInv, Shape, AckInv, IsSeq
<1> SUFFICES ASSUME UnderWay' PROVE Backs(toSnd', snd'.ack, Reached)
  BY <1>1, SenderKeepsAcks
<1>2. snd'.audit = NoAudit /\ snd'.status # "none"
  BY DEF UnderWay
<1>3. DOMAIN task' = {"queue", "click"} /\ task' = task /\ rcv' = rcv
  BY DEF TransferInv, Shape, receiver
<1>4. UnderWay
  BY <1>2, <1>3, StillUnderWay DEF Asks
<1>5. Backs(toSnd, snd.ack, Reached)
  BY <1>4 DEF AckInv
<1>6. /\ Head(toSnd).type # "accept" => Backs(Tail(toSnd), snd.ack, Reached)
      /\ Head(toSnd).type \in {"accept", "ack"} => Backs(Tail(toSnd), Head(toSnd).next, Reached)
  BY <1>1, <1>5, BacksTail
<1> QED BY <1>2, <1>6

\* Starting the pump takes nothing for acknowledged.
LEMMA PumpAcks ==
    ASSUME NEW transfer, Whole(transfer), StartPump(transfer)
    PROVE  /\ snd'.ack = transfer.ack /\ snd'.audit = transfer.audit
           /\ snd'.status = transfer.status
<1>1. CASE snd' = transfer
  BY <1>1
<1>2. CASE snd' = [transfer EXCEPT !.pumping = TRUE]
  BY <1>2 DEF Whole
<1>3. CASE snd' = [transfer EXCEPT !.completionSent = TRUE]
  BY <1>3 DEF Whole
<1> QED BY <1>1, <1>2, <1>3 DEF StartPump, StartCompletion

\* The sender handles a message.
LEMMA SenderHearsAcks ==
    ASSUME TransferInv, AckInv,
           \/ HandleAccepted \/ HandleAcknowledgement \/ HandleRejected \/ HandleVerified
           \/ HandleRetry \/ HandleCancelSent \/ HandleErrorSent
    PROVE  AckInv'
<1>1. /\ Whole(snd) /\ {"total", "kept", "intact"} \subseteq DOMAIN source
      /\ Ended(snd) /\ snd.status # "none" => snd.audit # NoAudit
  BY DEF TransferInv, Shape, AckInv
<1>2. ASSUME NEW type, Hears(type), UNCHANGED toRcv
      PROVE  /\ UNCHANGED <<receiver, toRcv, open>>
             /\ toSnd # <<>> /\ toSnd' = Tail(toSnd) /\ Head(toSnd).type = type
  BY <1>2 DEF Hears
<1>3. ASSUME NEW type, type # "accept", Hears(type), UNCHANGED toRcv, snd' = snd,
             source'.total = source.total
      PROVE  AckInv'
  <2>1. /\ UNCHANGED <<receiver, toRcv, open>>
        /\ toSnd # <<>> /\ toSnd' = Tail(toSnd) /\ Head(toSnd).type = type
    BY <1>2, <1>3
  <2>2. Ended(snd)' /\ snd'.status # "none" => snd'.audit # NoAudit
    BY <1>1, <1>3 DEF Ended
  <2> QED BY <1>3, <2>1, <2>2, HearsAcks
<1>4. ASSUME NEW type, Hears(type), UNCHANGED toRcv, snd'.audit # NoAudit,
             source'.total = source.total
      PROVE  AckInv'
  <2>1. /\ UNCHANGED <<receiver, toRcv, open>>
        /\ toSnd # <<>> /\ toSnd' = Tail(toSnd)
    BY <1>2, <1>4
  <2> QED BY <1>4, <2>1, HearsAcks
<1>5. ASSUME NEW status, NEW result, result # NoAudit,
             snd' = Audited([snd EXCEPT !.status = status], result)
      PROVE  snd'.audit # NoAudit
  <2> DEFINE ended == [snd EXCEPT !.status = status]
  <2>1. Whole(ended) /\ snd' = Audited(ended, result)
    BY <1>1, <1>5 DEF Whole
  <2> HIDE DEF ended
  <2> QED BY <1>5, <2>1, AuditStays
<1>6. CASE HandleAccepted
  <2> DEFINE moved == [snd EXCEPT !.status = "sending", !.next = Head(toSnd).next,
                                  !.ack = Head(toSnd).next, !.completionSent = FALSE]
  <2>1. /\ UNCHANGED <<receiver, toRcv, open, source>>
        /\ toSnd # <<>> /\ toSnd' = Tail(toSnd) /\ Head(toSnd).type = "accept"
    BY <1>2, <1>6 DEF HandleAccepted
  <2>2. CASE ~SenderKnows
    <3>1. snd' = snd /\ snd.status \in {"none", "closed"}
      BY <1>6, <2>2 DEF HandleAccepted, SenderKnows
    <3>2. /\ Ended(snd)' /\ snd'.status # "none" => snd'.audit # NoAudit
          /\ snd'.audit # NoAudit \/ snd'.status = "none"
      BY <1>1, <3>1 DEF Ended
    <3> QED BY <2>1, <3>2, HearsAcks
  <2>3. CASE SenderKnows
    <3>1. StartPump(moved)
      BY <1>6, <2>3 DEF HandleAccepted
    <3>2. /\ Whole(moved) /\ moved.status = "sending" /\ moved.audit = snd.audit
          /\ moved.ack = Head(toSnd).next
      BY <1>1 DEF Whole
    <3> HIDE DEF moved
    <3>3. /\ snd'.status = "sending" /\ snd'.audit = snd.audit
          /\ snd'.ack = Head(toSnd).next
      BY <3>1, <3>2, PumpAcks
    <3>4. ~Ended(snd)' /\ snd.status # "none"
      BY <2>3, <3>3 DEF Ended, Terminal, SenderKnows
    <3> QED BY <2>1, <3>3, <3>4, HearsAcks
  <2> QED BY <2>2, <2>3
<1>7. CASE HandleAcknowledgement
  <2> DEFINE moved == [snd EXCEPT !.ack = Head(toSnd).next]
  <2>1. /\ UNCHANGED <<receiver, toRcv, open, source>> /\ Hears("ack")
        /\ toSnd # <<>> /\ toSnd' = Tail(toSnd) /\ Head(toSnd).type = "ack"
    BY <1>2, <1>7 DEF HandleAcknowledgement
  <2>2. CASE snd' = snd
    BY <1>3, <2>1, <2>2
  <2>3. CASE /\ snd.status = "sending"
             /\ \/ StartPump(moved) \/ snd' = moved
                \/ snd' = [moved EXCEPT !.completionSent = TRUE]
    <3>1. /\ Whole(moved) /\ moved.status = "sending" /\ moved.audit = snd.audit
          /\ moved.ack = Head(toSnd).next
      BY <1>1, <2>3 DEF Whole
    <3> HIDE DEF moved
    <3>2. CASE StartPump(moved) \/ snd' = moved
      <4>1. /\ snd'.status = "sending" /\ snd'.audit = snd.audit
            /\ snd'.ack = Head(toSnd).next
        BY <3>1, <3>2, PumpAcks
      <4>2. ~Ended(snd)' /\ snd.status # "none"
        BY <2>3, <4>1 DEF Ended, Terminal
      <4> QED BY <2>1, <4>1, <4>2, HearsAcks
    <3>3. CASE snd' = [moved EXCEPT !.completionSent = TRUE]
      <4>1. /\ snd'.status = "sending" /\ snd'.audit = snd.audit
            /\ snd'.ack = Head(toSnd).next
        BY <3>1, <3>3 DEF Whole
      <4>2. ~Ended(snd)' /\ snd.status # "none"
        BY <2>3, <4>1 DEF Ended, Terminal
      <4> QED BY <2>1, <4>1, <4>2, HearsAcks
    <3> QED BY <2>3, <3>2, <3>3
  <2>4. \/ snd' = snd
        \/ /\ snd.status = "sending"
           /\ \/ StartPump(moved) \/ snd' = moved
              \/ snd' = [moved EXCEPT !.completionSent = TRUE]
    BY <1>7 DEF HandleAcknowledgement, StartCompletion
  <2> QED BY <2>2, <2>3, <2>4
<1>8. CASE HandleRejected
  <2>1. Hears("reject") /\ UNCHANGED <<source, toRcv>>
    BY <1>8 DEF HandleRejected
  <2>2. snd' = snd \/ snd' = Audited([snd EXCEPT !.status = "rejected"], "rejected")
    BY <1>8 DEF HandleRejected
  <2> QED BY <1>3, <1>4, <1>5, <2>1, <2>2 DEF NoAudit
<1>9. CASE HandleVerified
  <2>1. Hears("verified") /\ UNCHANGED toRcv /\ source'.total = source.total
    BY <1>1, <1>9 DEF HandleVerified
  <2>2. snd' = snd \/ snd' = Audited([snd EXCEPT !.status = "completed"], "completed")
    BY <1>9 DEF HandleVerified
  <2> QED BY <1>3, <1>4, <1>5, <2>1, <2>2 DEF NoAudit
<1>10. CASE HandleRetry
  BY <1>3, <1>10 DEF HandleRetry
<1>11. CASE HandleCancelSent
  <2>1. Hears("cancel") /\ UNCHANGED toRcv /\ source'.total = source.total
    BY <1>1, <1>11 DEF HandleCancelSent, SenderCancelled
  <2>2. snd' = snd \/ snd' = Audited([snd EXCEPT !.status = "cancelled"], "cancelled")
    BY <1>11 DEF HandleCancelSent, SenderCancelled
  <2> QED BY <1>3, <1>4, <1>5, <2>1, <2>2 DEF NoAudit
<1>12. CASE HandleErrorSent
  <2>1. Hears("error") /\ UNCHANGED <<source, toRcv>> /\ snd' = Failed(snd)
    BY <1>12 DEF HandleErrorSent
  <2>2. snd' = snd \/ snd'.audit # NoAudit
    BY <1>1, <2>1, FailedAudits
  <2> QED BY <1>3, <1>4, <2>1, <2>2
<1> QED BY <1>6, <1>7, <1>8, <1>9, <1>10, <1>11, <1>12

\* A step of the receiver: the sender stays.
LEMMA ReceiverKeepsAcks ==
    ASSUME TransferInv, AckInv, UNCHANGED sender, IsSeq(toRcv)', DOMAIN task' = {"queue", "click"},
           \A k \in Chunks : disk.chunks[k] # "absent" => disk'.chunks[k] # "absent",
           disk'.next = disk.next \/ disk'.next \in Reached',
           \A by \in {"queue", "click"} :
              task'[by].op \in {"prepared", "written"} =>
                 task'[by] = task[by] \/ task'[by].next \in Reached',
           UnderWay' => Backs(toSnd', snd.ack, Reached)
    PROVE  AckInv'
<1>1. snd' = snd /\ source' = source
  BY DEF sender
<1>2. Reached \subseteq Reached'
  BY <1>1, ReachedLemma
<1>3. disk'.next \in Reached'
  BY <1>2 DEF AckInv
<1>4. \A by \in {"queue", "click"} :
        task'[by].op \in {"prepared", "written"} => task'[by].next \in Reached'
  BY <1>2 DEF AckInv
<1>5. UnderWay' => Backs(toSnd', snd'.ack, Reached')
  BY <1>1, <1>2, BacksMore
<1>6. source'.total \in Nat /\ (Ended(snd)' /\ snd'.status # "none" => snd'.audit # NoAudit)
  BY <1>1 DEF AckInv, Ended
<1> QED BY <1>3, <1>4, <1>5, <1>6 DEF AckInv

\* A step of the receiver's renderer: the disk stays, and one of the tasks
\* changes, or none.  Either the transfer is not under way after it, or it was
\* before it and what is sent is no answer or one that holds of the disk.
LEMMA RendererKeepsAcks ==
    ASSUME TransferInv, AckInv, UNCHANGED sender, open' = open, disk'.chunks = disk.chunks,
           disk'.next = disk.next, IsSeq(toRcv)',
           NEW by \in {"queue", "click"}, NEW next, next.op \notin {"prepared", "written"},
           task' = task \/ task' = [task EXCEPT ![by] = next],
           UnderWay' => Backs(toSnd', snd.ack, Reached)
    PROVE  AckInv'
<1>1. DOMAIN task = {"queue", "click"}
  BY DEF TransferInv, Shape
<1>2. DOMAIN task' = {"queue", "click"}
  BY <1>1
<1>3. \A other \in {"queue", "click"} : task'[other] \in {task[other], next}
  BY <1>1
<1> QED BY <1>2, <1>3, ReceiverKeepsAcks

\* The storage acts on the disk.
LEMMA StorageActsOnAcks ==
    ASSUME TransferInv, AckInv,
           WriteChunk \/ CompleteReceive \/ \E by \in {"queue", "click"} : PrepareReceive(by)
    PROVE  AckInv'
<1>1. /\ Shape /\ DOMAIN task = {"queue", "click"} /\ IsSeq(toRcv)
      /\ source.total \in Nat /\ disk.next \in Reached
  BY DEF TransferInv, Shape, AckInv
<1>2. ASSUME UNCHANGED <<sender, rcv, toRcv, toSnd, open>>, DOMAIN task' = {"queue", "click"},
             \A by \in {"queue", "click"} :
                task[by].op \in {"prepare", "prepared", "refused", "prepare failed"}
                => task'[by].op \in {"prepare", "prepared", "refused", "prepare failed"}
      PROVE  UnderWay' => Backs(toSnd', snd.ack, Reached)
  <2> SUFFICES ASSUME UnderWay' PROVE Backs(toSnd', snd.ack, Reached)
    OBVIOUS
  <2>1. snd' = snd
    BY <1>2 DEF sender
  <2>2. UnderWay
    BY <1>2, <2>1, StillUnderWay DEF Asks
  <2> QED BY <1>2, <2>2 DEF AckInv
<1>3. ASSUME NEW by \in {"queue", "click"}, PrepareReceive(by) PROVE AckInv'
  <2>1. /\ UNCHANGED <<sender, rcv, toRcv, toSnd, open>> /\ task[by].op = "prepare"
        /\ AnswersRead
    <3>1. UNCHANGED <<sender, rcv, toRcv, toSnd, open>> /\ task[by] = [op |-> "prepare"] /\ AnswersRead
      BY <1>3, Zenon DEF PrepareReceive
    <3> QED BY <3>1
  <2>2. \A next : [op |-> "prepared", next |-> next].op = "prepared"
                  /\ [op |-> "prepared", next |-> next].next = next
    OBVIOUS
  <2>3. IsSeq(toRcv)'
    BY <1>1, <2>1 DEF IsSeq
  <2>4. CASE /\ disk' = [disk EXCEPT !.record = TRUE, !.next = NextChunkIndex(disk.chunks, 0)]
             /\ task' = [task EXCEPT ![by] = [op |-> "prepared",
                                              next |-> NextChunkIndex(disk.chunks, 0)]]
    <3> DEFINE next == NextChunkIndex(disk.chunks, 0)
    <3>1. 0 \in 0 .. TotalChunks /\ \A k \in Chunks : ~(k < 0)
      BY <1>1 DEF TotalChunks, Chunks
    <3>2. next \in Reached
      BY <1>1, <3>1, NextChunkLemma DEF Reached
    <3>3. /\ disk' = [disk EXCEPT !.record = TRUE, !.next = next]
          /\ task' = [task EXCEPT ![by] = [op |-> "prepared", next |-> next]]
      BY <2>4
    <3> HIDE DEF next
    <3>4. disk'.chunks = disk.chunks /\ disk'.next = next
      BY <1>1, <3>3 DEF Shape
    <3>5. Reached' = Reached
      BY <2>1, <3>4 DEF Reached, Chunks, TotalChunks, sender
    <3>6. /\ DOMAIN task' = {"queue", "click"}
          /\ task'[by].op = "prepared" /\ task'[by].next = next
          /\ \A other \in {"queue", "click"} : other # by => task'[other] = task[other]
      BY <1>1, <2>2, <3>3
    <3>7. UnderWay' => Backs(toSnd', snd.ack, Reached)
      BY <1>2, <2>1, <3>6
    <3> QED BY <2>1, <2>3, <3>2, <3>4, <3>5, <3>6, <3>7, ReceiverKeepsAcks
  <2>5. CASE /\ disk' = [disk EXCEPT !.record = TRUE, !.partial = TRUE,
                                     !.next = 0, !.chunks = NoChunks]
             /\ task' = [task EXCEPT ![by] = [op |-> "prepared", next |-> 0]]
    <3>1. disk'.next = 0 /\ snd' = snd /\ source' = source
      BY <1>1, <2>1, <2>5 DEF Shape, sender
    <3>2. 0 \in Reached'
      BY <1>1, <3>1 DEF Reached, Chunks, TotalChunks
    <3>3. /\ DOMAIN task' = {"queue", "click"}
          /\ task'[by].op = "prepared" /\ task'[by].next = 0
          /\ \A other \in {"queue", "click"} : other # by => task'[other] = task[other]
      BY <1>1, <2>2, <2>5
    <3>4. \A other \in {"queue", "click"} : task[other].op \notin {"prepared", "written"}
      BY <1>1, <2>1 DEF AnswersRead
    <3>5. \A other \in {"queue", "click"} :
             task'[other].op \in {"prepared", "written"} => task'[other].next \in Reached'
      BY <3>2, <3>3, <3>4
    <3>6. ~UnderWay'
      BY <3>3 DEF UnderWay, StartsAgain
    <3>7. source'.total \in Nat /\ (Ended(snd)' /\ snd'.status # "none" => snd'.audit # NoAudit)
      BY <3>1 DEF AckInv, Ended
    <3> QED BY <2>3, <3>1, <3>2, <3>5, <3>6, <3>7 DEF AckInv
  <2>6. CASE /\ disk' = disk
             /\ \/ task' = [task EXCEPT ![by] = [op |-> "refused"]]
                \/ task' = [task EXCEPT ![by] = [op |-> "prepare failed"]]
    <3>1. PICK answer : /\ task' = [task EXCEPT ![by] = answer]
                        /\ answer.op \in {"refused", "prepare failed"}
      <4>1. [op |-> "refused"].op = "refused" /\ [op |-> "prepare failed"].op = "prepare failed"
        OBVIOUS
      <4> QED BY <2>6, <4>1
    <3>2. /\ DOMAIN task' = {"queue", "click"} /\ task'[by] = answer
          /\ \A other \in {"queue", "click"} : other # by => task'[other] = task[other]
      BY <1>1, <3>1
    <3>3. UnderWay' => Backs(toSnd', snd.ack, Reached)
      BY <1>2, <2>1, <3>1, <3>2
    <3> QED BY <2>1, <2>3, <2>6, <3>1, <3>2, <3>3, ReceiverKeepsAcks
  <2> QED BY <1>3, <2>4, <2>5, <2>6, Zenon DEF PrepareReceive
<1>4. CASE WriteChunk
  <2> DEFINE chunks == [disk.chunks EXCEPT ![task["queue"].index] =
                          IF task["queue"].intact THEN "good" ELSE "changed"]
             next == IF task["queue"].index = disk.next
                     THEN NextChunkIndex(chunks, disk.next) ELSE disk.next
  <2>1. /\ UNCHANGED <<sender, rcv, toRcv, toSnd, open>> /\ task["queue"].op = "write"
        /\ \/ disk' = disk
              /\ \/ task' = [task EXCEPT !["queue"] = [op |-> "write failed"]]
                 \/ task' = [task EXCEPT !["queue"] =
                              [op |-> "corrupt", index |-> task["queue"].index]]
           \/ /\ disk' = [disk EXCEPT !.chunks = chunks, !.next = next]
              /\ task' = [task EXCEPT !["queue"] = [op |-> "written", next |-> next]]
    BY <1>4, Zenon DEF WriteChunk
  <2>2. IsSeq(toRcv)' /\ Reached' = {n \in 0 .. TotalChunks :
                                        \A k \in Chunks : k < n => disk'.chunks[k] # "absent"}
    <3>1. source' = source /\ toRcv' = toRcv
      BY <2>1 DEF sender
    <3>2. TotalChunks' = TotalChunks /\ Chunks' = Chunks
      BY <3>1 DEF TotalChunks, Chunks
    <3> QED BY <1>1, <3>1, <3>2 DEF IsSeq, Reached
  <2>3. CASE /\ disk' = disk
             /\ \/ task' = [task EXCEPT !["queue"] = [op |-> "write failed"]]
                \/ task' = [task EXCEPT !["queue"] =
                              [op |-> "corrupt", index |-> task["queue"].index]]
    <3>1. PICK answer : /\ task' = [task EXCEPT !["queue"] = answer]
                        /\ answer.op \in {"write failed", "corrupt"}
      <4>1. /\ [op |-> "write failed"].op = "write failed"
            /\ \A index : [op |-> "corrupt", index |-> index].op = "corrupt"
        OBVIOUS
      <4> QED BY <2>3, <4>1
    <3>2. /\ DOMAIN task' = {"queue", "click"} /\ task'["queue"] = answer
          /\ task'["click"] = task["click"]
      BY <1>1, <3>1
    <3>3. UnderWay' => Backs(toSnd', snd.ack, Reached)
      BY <1>2, <2>1, <3>1, <3>2
    <3> QED BY <2>1, <2>2, <2>3, <3>1, <3>2, <3>3, ReceiverKeepsAcks
  <2>4. CASE /\ disk' = [disk EXCEPT !.chunks = chunks, !.next = next]
             /\ task' = [task EXCEPT !["queue"] = [op |-> "written", next |-> next]]
    <3> HIDE DEF next
    <3>1. disk'.chunks = chunks /\ disk'.next = next
      BY <1>1, <2>4 DEF Shape
    <3>2. \A k \in Chunks : disk.chunks[k] # "absent" => chunks[k] # "absent"
      <4>1. (IF task["queue"].intact THEN "good" ELSE "changed") # "absent"
        OBVIOUS
      <4>2. disk.chunks \in [Chunks -> {"absent", "good", "changed"}]
        BY <1>1 DEF Shape
      <4> QED BY <4>1, <4>2
    <3> HIDE DEF chunks
    <3>3. disk.next \in 0 .. TotalChunks /\ \A k \in Chunks : k < disk.next => chunks[k] # "absent"
      BY <1>1, <3>2 DEF Reached
    <3>4. next \in 0 .. TotalChunks /\ \A k \in Chunks : k < next => chunks[k] # "absent"
      <4>1. CASE next = disk.next
        BY <3>3, <4>1
      <4>2. CASE next = NextChunkIndex(chunks, disk.next)
        BY <1>1, <3>3, <4>2, NextChunkLemma
      <4> QED BY <4>1, <4>2 DEF next
    <3>5. next \in Reached'
      BY <2>2, <3>1, <3>4
    <3>6. /\ DOMAIN task' = {"queue", "click"}
          /\ task'["queue"].next = next /\ task'["queue"].op = "written"
          /\ task'["click"] = task["click"]
      BY <1>1, <2>4
    <3>7. UnderWay' => Backs(toSnd', snd.ack, Reached)
      BY <1>2, <2>1, <3>6
    <3> QED BY <2>1, <2>2, <3>1, <3>2, <3>5, <3>6, <3>7, ReceiverKeepsAcks
  <2> HIDE DEF chunks, next
  <2> QED BY <2>1, <2>3, <2>4
<1>5. CASE CompleteReceive
  <2>1. /\ UNCHANGED <<sender, rcv, toRcv, toSnd, open>> /\ task["queue"] = [op |-> "complete"]
        /\ \/ disk' = disk
           \/ disk' = [disk EXCEPT !.record = FALSE, !.partial = FALSE, !.final = disk.chunks]
        /\ \/ task' = [task EXCEPT !["queue"] = [op |-> "complete failed"]]
           \/ task' = [task EXCEPT !["queue"] = [op |-> "bad", indexes |-> BadChunks]]
           \/ task' = [task EXCEPT !["queue"] = [op |-> "valid"]]
    BY <1>5, Zenon DEF CompleteReceive
  <2>2. task["queue"].op = "complete"
    <3>1. task["queue"] = [op |-> "complete"]
      BY <2>1
    <3> QED BY <3>1
  <2>3. disk'.chunks = disk.chunks /\ disk'.next = disk.next
    BY <1>1, <2>1 DEF Shape
  <2>4. PICK answer : /\ task' = [task EXCEPT !["queue"] = answer]
                      /\ answer.op \in {"complete failed", "bad", "valid"}
    <3>1. /\ [op |-> "complete failed"].op = "complete failed" /\ [op |-> "valid"].op = "valid"
          /\ \A indexes : [op |-> "bad", indexes |-> indexes].op = "bad"
      OBVIOUS
    <3>2. \/ task' = [task EXCEPT !["queue"] = [op |-> "complete failed"]]
          \/ \E indexes : task' = [task EXCEPT !["queue"] = [op |-> "bad", indexes |-> indexes]]
          \/ task' = [task EXCEPT !["queue"] = [op |-> "valid"]]
      BY <2>1, Zenon
    <3> QED BY <3>1, <3>2, Zenon
  <2>5. /\ DOMAIN task' = {"queue", "click"} /\ task'["queue"] = answer
        /\ task'["click"] = task["click"]
    BY <1>1, <2>4
  <2>6. UnderWay' => Backs(toSnd', snd.ack, Reached)
    BY <1>2, <2>1, <2>2, <2>4, <2>5
  <2>7. IsSeq(toRcv)'
    <3>1. toRcv' = toRcv
      BY <2>1
    <3> QED BY <1>1, <3>1 DEF IsSeq
  <2> QED BY <2>1, <2>3, <2>4, <2>5, <2>6, <2>7, ReceiverKeepsAcks
<1> QED BY <1>3, <1>4, <1>5

\* A transfer that a catch block or a failure has been at is not under way
\* on a channel that is open.
LEMMA GivenUpReceive ==
    ASSUME Whole(rcv), rcv' \in {Failed(rcv), Caught(rcv)}, open' = open,
           rcv' = Caught(rcv) \/ rcv' = Failed(rcv)
    PROVE  ~UnderWay'
<1> SUFFICES ASSUME UnderWay' PROVE FALSE
  OBVIOUS
<1>1. open /\ rcv'.status \in {"receiving", "paused"}
  BY DEF UnderWay, StartsAgain
<1>2. rcv' = Failed(rcv)
  BY <1>1 DEF Caught
<1>3. Ended(rcv) /\ rcv' = rcv
  BY <1>1, <1>2, FailedAudits
<1> QED BY <1>1, <1>3 DEF Ended, Terminal

\* What is sent on a channel, if the transfer is under way after it.
LEMMA SentAcks ==
    ASSUME TransferInv, UnderWay', open' = open, NEW message,
           toSnd' = Sent(toSnd, message),
           message.type \in {"accept", "ack"} => message.next \in Reached,
           message.type = "accept" \/ Backs(toSnd, snd.ack, Reached)
    PROVE  Backs(toSnd', snd.ack, Reached)
<1>1. open /\ IsSeq(toSnd)
  BY DEF UnderWay, StartsAgain, TransferInv, Shape
<1>2. toSnd' = Append(toSnd, message)
  BY <1>1 DEF Sent
<1>3. Backs(Append(toSnd, message), snd.ack, Reached)
  BY <1>1, BacksAppend
<1> QED BY <1>2, <1>3

\* The receiver's renderer reads an answer of its storage.
LEMMA ReceiverReadsOnAcks ==
    ASSUME TransferInv, AckInv,
           FrameWritten \/ IncomingVerified \/ \E by \in {"queue", "click"} : PrepareAndAccept(by)
    PROVE  AckInv'
<1>1. /\ Shape /\ Whole(rcv) /\ DOMAIN task = {"queue", "click"}
      /\ IsSeq(toRcv) /\ NoTask.op = "none"
  BY DEF TransferInv, Shape, AckInv, NoTask
<1>2. /\ \A next : /\ [type |-> "accept", next |-> next].type = "accept"
                   /\ [type |-> "accept", next |-> next].next = next
                   /\ [type |-> "ack", next |-> next].type = "ack"
                   /\ [type |-> "ack", next |-> next].next = next
      /\ \A indexes : [type |-> "retry", indexes |-> indexes].type = "retry"
  OBVIOUS
<1>3. ASSUME NEW by \in {"queue", "click"}, UNCHANGED <<sender, disk, toRcv, open>>,
             task' = [task EXCEPT ![by] = NoTask],
             UnderWay' => Backs(toSnd', snd.ack, Reached)
      PROVE  AckInv'
  <2>1. disk'.chunks = disk.chunks /\ disk'.next = disk.next /\ IsSeq(toRcv)'
    BY <1>1, <1>3 DEF IsSeq
  <2> QED BY <1>1, <1>3, <2>1, RendererKeepsAcks
<1>4. ASSUME task' = [task EXCEPT !["queue"] = NoTask], UNCHANGED <<sender, disk, toRcv, open>>,
             task["queue"].op \notin {"prepare", "prepared", "refused", "prepare failed"},
             rcv'.status = rcv.status, rcv'.audit = rcv.audit, UnderWay'
      PROVE  Backs(toSnd, snd.ack, Reached)
  <2>1. /\ DOMAIN task' = {"queue", "click"} /\ task'["click"] = task["click"]
        /\ snd' = snd
    BY <1>1, <1>4 DEF sender
  <2>2. UnderWay
    BY <1>4, <2>1, StillUnderWay DEF Asks
  <2> QED BY <2>2 DEF AckInv
<1>5. ASSUME NEW by \in {"queue", "click"}, PrepareAndAccept(by) PROVE AckInv'
  <2>1. UNCHANGED <<sender, disk, toRcv, open>> /\ task' = [task EXCEPT ![by] = NoTask]
    BY <1>5 DEF PrepareAndAccept
  <2>2. CASE /\ task[by].op = "prepared"
             /\ toSnd' = Sent(toSnd, [type |-> "accept", next |-> task[by].next])
    <3> DEFINE message == [type |-> "accept", next |-> task[by].next]
    <3>1. message.type = "accept" /\ message.next \in Reached /\ toSnd' = Sent(toSnd, message)
      BY <2>2 DEF AckInv
    <3> HIDE DEF message
    <3>2. UnderWay' => Backs(toSnd', snd.ack, Reached)
      BY <2>1, <3>1, SentAcks
    <3> QED BY <1>3, <2>1, <3>2
  <2>3. CASE task[by].op = "refused" /\ RejectIncoming
    <3> DEFINE ended == [rcv EXCEPT !.status = "rejected"]
    <3>1. Whole(ended) /\ ended.status = "rejected" /\ rcv' = Audited(ended, "rejected")
      BY <1>1, <2>3 DEF Whole, RejectIncoming
    <3> HIDE DEF ended
    <3>2. ~UnderWay'
      BY <3>1, AuditedLemma DEF UnderWay
    <3> QED BY <1>3, <2>1, <3>2
  <2>4. CASE rcv' = Caught(rcv)
    <3>1. ~UnderWay'
      BY <1>1, <2>1, <2>4, GivenUpReceive
    <3> QED BY <1>3, <2>1, <3>1
  <2> QED BY <1>5, <2>2, <2>3, <2>4 DEF PrepareAndAccept
<1>6. CASE FrameWritten
  <2>1. UNCHANGED <<sender, disk, toRcv, open>> /\ task' = [task EXCEPT !["queue"] = NoTask]
        /\ task["queue"].op \notin {"prepare", "prepared", "refused", "prepare failed"}
    BY <1>6 DEF FrameWritten
  <2>2. CASE /\ task["queue"].op = "written"
             /\ rcv' = [rcv EXCEPT !.ack = task["queue"].next]
             /\ toSnd' = Sent(toSnd, [type |-> "ack", next |-> task["queue"].next])
    <3> DEFINE message == [type |-> "ack", next |-> task["queue"].next]
    <3>1. message.type = "ack" /\ message.next \in Reached /\ toSnd' = Sent(toSnd, message)
      BY <2>2 DEF AckInv
    <3>2. rcv'.status = rcv.status /\ rcv'.audit = rcv.audit
      BY <1>1, <2>2 DEF Whole
    <3> HIDE DEF message
    <3>3. UnderWay' => Backs(toSnd', snd.ack, Reached)
      BY <1>4, <2>1, <3>1, <3>2, SentAcks
    <3> QED BY <1>3, <2>1, <3>3
  <2>3. CASE /\ rcv' = rcv
             /\ toSnd' = Sent(toSnd, [type |-> "retry", indexes |-> {task["queue"].index}])
    <3> DEFINE message == [type |-> "retry", indexes |-> {task["queue"].index}]
    <3>1. message.type = "retry" /\ toSnd' = Sent(toSnd, message)
      BY <2>3
    <3> HIDE DEF message
    <3>2. UnderWay' => Backs(toSnd', snd.ack, Reached)
      BY <1>4, <2>1, <2>3, <3>1, SentAcks
    <3> QED BY <1>3, <2>1, <3>2
  <2>4. CASE rcv' = Failed(rcv)
    <3>1. ~UnderWay'
      BY <1>1, <2>1, <2>4, GivenUpReceive
    <3> QED BY <1>3, <2>1, <3>1
  <2> QED BY <1>6, <2>2, <2>3, <2>4 DEF FrameWritten
<1>7. CASE IncomingVerified
  <2>1. UNCHANGED <<sender, disk, toRcv, open>> /\ task' = [task EXCEPT !["queue"] = NoTask]
        /\ task["queue"].op \notin {"prepare", "prepared", "refused", "prepare failed"}
    BY <1>7 DEF IncomingVerified
  <2>2. CASE rcv' = Audited([rcv EXCEPT !.status = "completed"], "completed")
    <3> DEFINE ended == [rcv EXCEPT !.status = "completed"]
    <3>1. Whole(ended) /\ ended.status = "completed" /\ rcv' = Audited(ended, "completed")
      BY <1>1, <2>2 DEF Whole
    <3> HIDE DEF ended
    <3>2. ~UnderWay'
      BY <3>1, AuditedLemma DEF UnderWay
    <3> QED BY <1>3, <2>1, <3>2
  <2>3. CASE /\ rcv' = rcv
             /\ toSnd' = Sent(toSnd, [type |-> "retry", indexes |-> task["queue"].indexes])
    <3> DEFINE message == [type |-> "retry", indexes |-> task["queue"].indexes]
    <3>1. message.type = "retry" /\ toSnd' = Sent(toSnd, message)
      BY <2>3
    <3> HIDE DEF message
    <3>2. UnderWay' => Backs(toSnd', snd.ack, Reached)
      BY <1>4, <2>1, <2>3, <3>1, SentAcks
    <3> QED BY <1>3, <2>1, <3>2
  <2>4. CASE rcv' = Caught(rcv)
    <3>1. ~UnderWay'
      BY <1>1, <2>1, <2>4, GivenUpReceive
    <3> QED BY <1>3, <2>1, <3>1
  <2> QED BY <1>7, <2>2, <2>3, <2>4 DEF IncomingVerified
<1> QED BY <1>5, <1>6, <1>7

\* A cancelled receive is not under way; its disk has the same chunks.
LEMMA CancelsOnAcks ==
    ASSUME Shape, ReceiverCancelled
    PROVE  disk'.chunks = disk.chunks /\ disk'.next = disk.next /\ ~UnderWay'
<1> DEFINE ended == [rcv EXCEPT !.status = "cancelled"]
<1>1. Whole(ended) /\ ended.status = "cancelled" /\ rcv' = Audited(ended, "cancelled")
  BY DEF Shape, Whole, ReceiverCancelled
<1> HIDE DEF ended
<1>2. ~UnderWay'
  BY <1>1, AuditedLemma DEF UnderWay
<1>3. disk' = disk \/ disk' = [disk EXCEPT !.record = FALSE, !.partial = FALSE]
  BY DEF ReceiverCancelled, CancelReceive
<1> QED BY <1>2, <1>3 DEF Shape

\* The receiver handles a message.
LEMMA ReceiverGetsOnAcks ==
    ASSUME TransferInv, AckInv,
           \/ HandleIncomingRequest \/ HandleBinaryFrame \/ VerifyIncoming
           \/ HandleCancelReceived \/ HandleErrorReceived
    PROVE  AckInv'
<1>1. /\ Shape /\ Whole(rcv) /\ DOMAIN task = {"queue", "click"} /\ IsSeq(toRcv)
  BY DEF TransferInv, Shape, AckInv
<1>2. ASSUME NEW type, Gets(type)
      PROVE  /\ task["queue"] = NoTask /\ task["queue"].op = "none"
             /\ UNCHANGED <<sender, open>> /\ snd' = snd /\ IsSeq(toRcv)'
             /\ type # "request" /\ Asks(toRcv) => Asks(toRcv)'
  <2>1. /\ task["queue"] = NoTask /\ toRcv # <<>> /\ Head(toRcv).type = type
        /\ toRcv' = Tail(toRcv) /\ UNCHANGED <<sender, open>>
    BY <1>2 DEF Gets
  <2>2. IsSeq(Tail(toRcv)) /\ (Asks(toRcv) => Head(toRcv).type = "request" \/ Asks(Tail(toRcv)))
    BY <1>1, <2>1, TailLemma, AsksLemma
  <2>3. IsSeq(toRcv)' /\ (type # "request" /\ Asks(toRcv) => Asks(toRcv)')
    BY <2>1, <2>2 DEF IsSeq, Asks
  <2> QED BY <2>1, <2>3 DEF NoTask, sender
<1>3. ASSUME NEW type, Gets(type), disk'.chunks = disk.chunks, disk'.next = disk.next,
             NEW next, next.op \notin {"prepared", "written"},
             task' = task \/ task' = [task EXCEPT !["queue"] = next],
             \/ ~UnderWay'
             \/ /\ type # "request" /\ toSnd' = toSnd
                /\ rcv.status \in {"receiving", "paused"} /\ rcv.audit = rcv'.audit
      PROVE  AckInv'
  <2>1. /\ task["queue"].op = "none" /\ UNCHANGED <<sender, open>> /\ snd' = snd /\ IsSeq(toRcv)'
        /\ type # "request" /\ Asks(toRcv) => Asks(toRcv)'
    BY <1>2, <1>3
  <2>2. ASSUME UnderWay' PROVE Backs(toSnd', snd.ack, Reached)
    <3>1. DOMAIN task' = {"queue", "click"} /\ task'["click"] = task["click"]
      BY <1>1, <1>3
    <3>2. UnderWay
      BY <1>3, <2>1, <2>2, <3>1, StillUnderWay
    <3> QED BY <1>3, <2>2, <3>2 DEF AckInv
  <2> QED BY <1>3, <2>1, <2>2, RendererKeepsAcks
<1>4. NoTask.op \notin {"prepared", "written"} /\ [op |-> "prepare"].op = "prepare"
      /\ [op |-> "complete"].op = "complete"
  BY DEF NoTask
<1>5. CASE HandleIncomingRequest
  <2>1. Gets("request") /\ UNCHANGED disk
    BY <1>5 DEF HandleIncomingRequest
  <2>2. task' \in {task, [task EXCEPT !["queue"] = [op |-> "prepare"]]}
    BY <1>5 DEF HandleIncomingRequest, PrepareIfAutomatic
  <2>3. ~UnderWay'
    <3>1. CASE rcv.status = "none"
      <4>1. rcv' = NewTransfer
        BY <1>5, <3>1 DEF HandleIncomingRequest
      <4> QED BY <4>1 DEF UnderWay, NewTransfer
    <3>2. CASE rcv.status \in {"receiving", "paused"}
      <4>1. task' = [task EXCEPT !["queue"] = [op |-> "prepare"]]
        BY <1>5, <3>2 DEF HandleIncomingRequest
      <4>2. "queue" \in DOMAIN task' /\ task'["queue"].op = "prepare"
        BY <1>1, <1>4, <4>1
      <4> QED BY <4>2 DEF UnderWay, StartsAgain
    <3>3. CASE rcv.status \in {"failed", "rejected"}
      <4>1. rcv' = [rcv EXCEPT !.status = "waiting", !.audit = NoAudit]
        BY <1>5, <3>3 DEF HandleIncomingRequest
      <4>2. rcv'.status = "waiting"
        BY <1>1, <4>1 DEF Whole
      <4> QED BY <4>2 DEF UnderWay
    <3>4. CASE rcv.status \notin {"none", "receiving", "paused", "failed", "rejected"}
      <4>1. rcv' = rcv
        BY <1>5, <3>4 DEF HandleIncomingRequest
      <4> QED BY <3>4, <4>1 DEF UnderWay
    <3> QED BY <3>1, <3>2, <3>3, <3>4
  <2> QED BY <1>3, <1>4, <2>1, <2>2, <2>3
<1>6. CASE HandleBinaryFrame
  <2> DEFINE write == [op |-> "write", index |-> Head(toRcv).index, intact |-> Head(toRcv).intact]
  <2>1. /\ Gets("chunk") /\ UNCHANGED <<disk, toSnd>>
        /\ \/ rcv' = rcv /\ task' = task
           \/ /\ rcv.status \in {"receiving", "paused"}
              /\ rcv' = [rcv EXCEPT !.status = "receiving"]
              /\ task' = [task EXCEPT !["queue"] = write]
    BY <1>6 DEF HandleBinaryFrame
  <2>2. write.op \notin {"prepared", "written"}
    OBVIOUS
  <2> HIDE DEF write
  <2>3. rcv'.audit = rcv.audit
    BY <1>1, <2>1 DEF Whole
  <2>4. UnderWay' => rcv.status \in {"receiving", "paused"}
    BY <2>1 DEF UnderWay
  <2> QED BY <1>3, <2>1, <2>2, <2>3, <2>4
<1>7. CASE VerifyIncoming
  <2>1. /\ Gets("complete") /\ UNCHANGED <<rcv, disk, toSnd>>
        /\ task' \in {task, [task EXCEPT !["queue"] = [op |-> "complete"]]}
    BY <1>7 DEF VerifyIncoming
  <2>2. UnderWay' => rcv.status \in {"receiving", "paused"}
    BY <2>1 DEF UnderWay
  <2> QED BY <1>3, <1>4, <2>1, <2>2
<1>8. CASE HandleCancelReceived
  <2>1. Gets("cancel") /\ UNCHANGED <<task, toSnd>>
    BY <1>8 DEF HandleCancelReceived
  <2>2. CASE Ended(rcv) /\ UNCHANGED <<rcv, disk>>
    <3>1. ~UnderWay'
      BY <2>2 DEF UnderWay, Ended, Terminal
    <3> QED BY <1>3, <1>4, <2>1, <2>2, <3>1
  <2>3. CASE ReceiverCancelled
    <3>1. disk'.chunks = disk.chunks /\ disk'.next = disk.next /\ ~UnderWay'
      BY <1>1, <2>3, CancelsOnAcks
    <3> QED BY <1>3, <1>4, <2>1, <3>1
  <2> QED BY <1>8, <2>2, <2>3 DEF HandleCancelReceived
<1>9. CASE HandleErrorReceived
  <2>1. Gets("error") /\ UNCHANGED <<task, disk, toSnd>> /\ rcv' = Failed(rcv)
    BY <1>9 DEF HandleErrorReceived
  <2>2. ~UnderWay'
    BY <1>1, <1>2, <2>1, GivenUpReceive
  <2> QED BY <1>3, <1>4, <2>1, <2>2
<1> QED BY <1>5, <1>6, <1>7, <1>8, <1>9

\* The buttons of the receiver.
LEMMA ReceiverClicksOnAcks ==
    ASSUME TransferInv, AckInv, AcceptIncoming \/ ClickReject \/ CancelReceived \/ CloseReceived
    PROVE  AckInv'
<1>1. /\ Shape /\ Whole(rcv) /\ DOMAIN task = {"queue", "click"} /\ IsSeq(toRcv)
      /\ NoTask.op \notin {"prepared", "written"}
      /\ [op |-> "prepare"].op \notin {"prepared", "written"}
  BY DEF TransferInv, Shape, AckInv, NoTask
<1>2. ASSUME UNCHANGED <<sender, toRcv, open>>, disk'.chunks = disk.chunks, disk'.next = disk.next,
             task' \in {task, [task EXCEPT !["click"] = [op |-> "prepare"]]}, ~UnderWay'
      PROVE  AckInv'
  <2>1. IsSeq(toRcv)'
    BY <1>1, <1>2 DEF IsSeq
  <2> QED BY <1>1, <1>2, <2>1, RendererKeepsAcks
<1>3. CASE AcceptIncoming
  BY <1>2, <1>3 DEF AcceptIncoming, UnderWay
<1>4. CASE ClickReject
  <2> DEFINE ended == [rcv EXCEPT !.status = "rejected"]
  <2>1. Whole(ended) /\ ended.status = "rejected" /\ rcv' = Audited(ended, "rejected")
    BY <1>1, <1>4 DEF Whole, ClickReject, RejectIncoming
  <2> HIDE DEF ended
  <2>2. ~UnderWay'
    BY <2>1, AuditedLemma DEF UnderWay
  <2> QED BY <1>2, <1>4, <2>2 DEF ClickReject
<1>5. CASE CancelReceived
  <2>1. disk'.chunks = disk.chunks /\ disk'.next = disk.next /\ ~UnderWay'
    BY <1>1, <1>5, CancelsOnAcks DEF CancelReceived
  <2> QED BY <1>2, <1>5, <2>1 DEF CancelReceived
<1>6. CASE CloseReceived
  <2>1. rcv'.status = "none"
    BY <1>1, <1>6 DEF CloseReceived, Whole
  <2> QED BY <1>2, <1>6, <2>1 DEF CloseReceived, UnderWay
<1> QED BY <1>3, <1>4, <1>5, <1>6

\* The channel is lost, or the receiver's application started again without it.
LEMMA ChannelLostOnAcks ==
    ASSUME TransferInv, AckInv, DetachChannel \/ ReceiverRestarts
    PROVE  AckInv'
<1>1. /\ Shape /\ Whole(snd) /\ IsSeq(toRcv)
      /\ Ended(snd) /\ snd.status # "none" => snd.audit # NoAudit
  BY DEF TransferInv, Shape, AckInv
<1>2. ~open' /\ source' = source /\ disk'.chunks = disk.chunks /\ disk'.next = disk.next
  BY <1>1 DEF DetachChannel, ReceiverRestarts, sender, Shape
<1>3. Reached' = Reached /\ ~UnderWay'
  BY <1>2 DEF Reached, Chunks, TotalChunks, UnderWay, StartsAgain
<1>4. \A by \in {"queue", "click"} : task'[by] = task[by] \/ task'[by].op = "none"
  BY DEF DetachChannel, ReceiverRestarts, NoTasks, NoTask
<1>5. IsSeq(toRcv)'
  <2>1. CASE DetachChannel
    BY <1>1, <2>1, PrefixLemma DEF DetachChannel
  <2>2. CASE ReceiverRestarts
    <3>1. toRcv' = <<>>
      BY <2>2 DEF ReceiverRestarts
    <3> QED BY <3>1 DEF IsSeq
  <2> QED BY <2>1, <2>2
<1>6. Ended(snd)' /\ snd'.status # "none" => snd'.audit # NoAudit
  <2>1. snd' = snd \/ snd' = Paused(snd)
    BY DEF DetachChannel, ReceiverRestarts, sender
  <2>2. CASE snd' = Paused(snd)
    BY <1>1, <2>2 DEF Paused, Whole, Ended, Terminal
  <2> QED BY <1>1, <2>1, <2>2 DEF Ended
<1> QED BY <1>2, <1>3, <1>4, <1>5, <1>6 DEF AckInv

----------------------------------------------------------------------------
\* Nothing is acknowledged at the start.
LEMMA AckInit ==
    ASSUME Init
    PROVE  AckInv
<1>1. source.total \in Sizes /\ disk.next = 0 /\ snd.status = "none"
  BY DEF Init, NewTransfer
<1>2. source.total \in Nat
  BY <1>1, TransferAssumption
<1>3. 0 \in Reached
  BY <1>2 DEF Reached, Chunks, TotalChunks
<1>4. \A by \in {"queue", "click"} : task[by].op = "none"
  BY DEF Init, NoTasks, NoTask
<1>5. IsSeq(toRcv)
  BY DEF Init, IsSeq
<1> QED BY <1>1, <1>2, <1>3, <1>4, <1>5 DEF AckInv, UnderWay

\* Every step keeps what the acknowledgements rest on.
LEMMA AckNext ==
    ASSUME TransferInv, AckInv, [Next]_vars
    PROVE  AckInv'
<1>1. CASE UNCHANGED vars
  <2>1. UNCHANGED <<receiver, sender, toRcv, toSnd, open>>
    BY <1>1 DEF vars
  <2>2. snd' = snd /\ source' = source
    BY <2>1 DEF sender
  <2>3. IsSeq(toRcv)' /\ (Ended(snd)' /\ snd'.status # "none" => snd'.audit # NoAudit)
    BY <2>1, <2>2 DEF AckInv, IsSeq, Ended
  <2> QED BY <2>1, <2>2, <2>3, SenderAside DEF Asks
<1>2. CASE Program
  BY <1>2, SenderActsOnAcks, SenderHearsAcks, StorageActsOnAcks, ReceiverReadsOnAcks,
     ReceiverGetsOnAcks DEF Program
<1>3. CASE World
  BY <1>3, SenderActsOnAcks, ReceiverClicksOnAcks, ChannelLostOnAcks DEF World
<1> QED BY <1>1, <1>2, <1>3 DEF Next

\* A chunk the sender takes as acknowledged is on the receiver's disk, unless
\* a new starting point is on its way (writeChunk, prepareReceive,
\* handleAcknowledgement).
THEOREM AcknowledgedStands == Spec => []AcknowledgedIsOnDisk
<1>1. Init => TransferInv /\ AckInv
  BY TransferInit, AckInit
<1>2. TransferInv /\ AckInv /\ [Next]_vars => (TransferInv /\ AckInv)'
  BY TransferNext, AckNext
<1>3. TransferInv /\ AckInv => AcknowledgedIsOnDisk
  <2> SUFFICES ASSUME AckInv, snd.status = "sending", snd.audit = NoAudit,
                      rcv.status = "receiving", rcv.audit = NoAudit, ~StartsAgain,
                      \A i \in DOMAIN toSnd : toSnd[i].type # "accept",
                      NEW k \in Chunks, k < snd.ack
               PROVE  disk.chunks[k] # "absent"
    BY DEF AcknowledgedIsOnDisk
  <2>1. UnderWay
    BY DEF UnderWay
  <2>2. Latest(toSnd, 0)
    BY DEF Latest
  <2>3. snd.ack \in Reached
    BY <2>1, <2>2 DEF AckInv, Backs
  <2> QED BY <2>3 DEF Reached
<1> QED BY <1>1, <1>2, <1>3, PTL DEF Spec

----------------------------------------------------------------------------
(* Who calls the transfer completed.                                       *)

\* The messages that decide what the sender shows, whatever it shows before.
Decides == {"accept", "verified", "reject"}

Silent(queue) == \A i \in DOMAIN queue : queue[i].type \notin Decides

\* The last of them in the queue confirms.
Concludes(queue) ==
    \E i \in DOMAIN queue :
        /\ queue[i].type = "verified"
        /\ \A j \in DOMAIN queue : j > i => queue[j].type \notin Decides

\* The sender will show the transfer as completed when it has read its queue.
Verdict == Concludes(toSnd) \/ (Silent(toSnd) /\ snd.status = "completed")

\* Before the transfer is enqueued nobody knows of it.
Unheard ==
    snd.status = "none" =>
        /\ rcv.status = "none" /\ task = NoTasks /\ toRcv = <<>> /\ toSnd = <<>>
        /\ verifying = 0 /\ resend = NoResend /\ \A p \in Pumps : pump[p] = Idle

\* The channel stays.
Steady ==
    /\ open /\ Unheard
    /\ {"drop", "close"} \subseteq DOMAIN left /\ left["drop"] = 0

\* A step after which the verdict and the receiver agree if they did before,
\* or the sender's entry is closed.
Even ==
    \/ snd'.status = "closed"
    \/ /\ snd.status # "closed"
       /\ \/ (Verdict' <=> Verdict) /\ (rcv'.status = "completed" <=> rcv.status = "completed")
          \/ Verdict' /\ rcv'.status = "completed"
          \/ ~Verdict' /\ rcv'.status # "completed"

\* A message at the end decides alone, or decides nothing.
LEMMA ConcludesAppend ==
    ASSUME NEW queue, IsSeq(queue), NEW message
    PROVE  LET new == Append(queue, message) IN
           /\ message.type \in Decides =>
                 ~Silent(new) /\ (Concludes(new) <=> message.type = "verified")
           /\ message.type \notin Decides =>
                 (Silent(new) <=> Silent(queue)) /\ (Concludes(new) <=> Concludes(queue))
<1> DEFINE S == {queue[i] : i \in DOMAIN queue} \cup {message}
           new == Append(queue, message)
           n == Len(queue)
<1>1. queue \in Seq({queue[i] : i \in DOMAIN queue})
  BY DEF IsSeq
<1>2. queue \in Seq(S) /\ message \in S
  BY <1>1, SeqMonotonic
<1> HIDE DEF S
<1>3. /\ Len(new) = n + 1 /\ new \in Seq(S)
      /\ \A i \in 1 .. n : new[i] = queue[i]
      /\ new[n + 1] = message
  BY <1>2, AppendProperties
<1>4. DOMAIN queue = 1 .. n /\ n \in Nat /\ DOMAIN new = 1 .. n + 1
  BY <1>2, <1>3, LenProperties
<1> HIDE DEF new, n
<1>5. CASE message.type \in Decides
  <2>1. ~Silent(new)
    BY <1>3, <1>4, <1>5 DEF Silent
  <2>2. Concludes(new) => message.type = "verified"
    BY <1>3, <1>4, <1>5 DEF Concludes
  <2>3. message.type = "verified" => Concludes(new)
    BY <1>3, <1>4 DEF Concludes
  <2> QED BY <1>5, <2>1, <2>2, <2>3 DEF new
<1>6. CASE message.type \notin Decides
  <2>1. Silent(new) <=> Silent(queue)
    BY <1>3, <1>4, <1>6 DEF Silent
  <2>2. message.type # "verified"
    BY <1>6 DEF Decides
  <2>3. Concludes(new) => Concludes(queue)
    BY <1>3, <1>4, <1>6, <2>2 DEF Concludes
  <2>4. Concludes(queue) => Concludes(new)
    BY <1>3, <1>4, <1>6 DEF Concludes
  <2> QED BY <1>6, <2>1, <2>3, <2>4 DEF new
<1> QED BY <1>5, <1>6

\* The message at the head decides if nothing behind it does.
LEMMA ConcludesTail ==
    ASSUME NEW queue, IsSeq(queue), queue # <<>>
    PROVE  LET rest == Tail(queue)
               type == Head(queue).type
           IN  /\ Silent(rest) => ~Concludes(rest)
               /\ type \in Decides =>
                     /\ ~Silent(queue)
                     /\ Silent(rest) => (Concludes(queue) <=> type = "verified")
                     /\ ~Silent(rest) => (Concludes(queue) <=> Concludes(rest))
               /\ type \notin Decides =>
                     (Silent(rest) <=> Silent(queue)) /\ (Concludes(rest) <=> Concludes(queue))
<1> DEFINE S == {queue[i] : i \in DOMAIN queue}
           rest == Tail(queue)
           n == Len(queue)
<1>1. queue \in Seq(S)
  BY DEF IsSeq
<1> HIDE DEF S
<1>2. /\ rest \in Seq(S) /\ Len(rest) = n - 1
      /\ \A i \in 1 .. Len(rest) : rest[i] = queue[i + 1]
  BY <1>1, HeadTailProperties
<1>3. /\ DOMAIN queue = 1 .. n /\ n \in Nat /\ n # 0 /\ DOMAIN rest = 1 .. n - 1
      /\ Head(queue) = queue[1]
  BY <1>1, <1>2, LenProperties, EmptySeq, HeadTailProperties
<1> HIDE DEF rest, n
<1>4. /\ \A i \in DOMAIN queue : i # 1 => i - 1 \in DOMAIN rest /\ rest[i - 1] = queue[i]
      /\ \A i \in DOMAIN rest : i + 1 \in DOMAIN queue /\ rest[i] = queue[i + 1]
      /\ DOMAIN queue \subseteq Int /\ DOMAIN rest \subseteq Int /\ 1 \in DOMAIN queue
      /\ \A i \in DOMAIN queue : i >= 1
  BY <1>2, <1>3
<1>5. Silent(queue) <=> queue[1].type \notin Decides /\ Silent(rest)
  <2>1. ASSUME Silent(rest), NEW i \in DOMAIN queue, i # 1
        PROVE  queue[i].type \notin Decides
    <3>1. i - 1 \in DOMAIN rest /\ rest[i - 1] = queue[i]
      BY <1>4, <2>1
    <3> QED BY <2>1, <3>1 DEF Silent
  <2>2. ASSUME Silent(queue), NEW i \in DOMAIN rest
        PROVE  rest[i].type \notin Decides
    <3>1. i + 1 \in DOMAIN queue /\ rest[i] = queue[i + 1]
      BY <1>4
    <3> QED BY <2>2, <3>1 DEF Silent
  <2> QED BY <1>4, <2>1, <2>2 DEF Silent
<1>6. Silent(rest) => ~Concludes(rest)
  BY DEF Silent, Concludes, Decides
<1>7. Concludes(rest) => Concludes(queue)
  <2> SUFFICES ASSUME NEW i \in DOMAIN rest, rest[i].type = "verified",
                      \A j \in DOMAIN rest : j > i => rest[j].type \notin Decides
               PROVE  Concludes(queue)
    BY DEF Concludes
  <2>1. i + 1 \in 1 .. n /\ queue[i + 1].type = "verified"
    BY <1>3, <1>4
  <2>2. ASSUME NEW j \in DOMAIN queue, j > i + 1
        PROVE  queue[j].type \notin Decides
    <3>1. i \in Int /\ j \in Int /\ i + 1 >= 1
      BY <1>4
    <3>2. j - 1 \in DOMAIN rest /\ rest[j - 1] = queue[j] /\ j - 1 > i
      BY <1>4, <2>2, <3>1
    <3> QED BY <3>2
  <2> QED BY <1>3, <2>1, <2>2 DEF Concludes
<1>8. Concludes(queue) => Concludes(rest) \/ (queue[1].type = "verified" /\ Silent(rest))
  <2> SUFFICES ASSUME NEW i \in DOMAIN queue, queue[i].type = "verified",
                      \A j \in DOMAIN queue : j > i => queue[j].type \notin Decides
               PROVE  Concludes(rest) \/ (queue[1].type = "verified" /\ Silent(rest))
    BY DEF Concludes
  <2>1. CASE i = 1
    <3>1. ASSUME NEW j \in DOMAIN rest PROVE rest[j].type \notin Decides
      <4>1. j + 1 \in DOMAIN queue /\ rest[j] = queue[j + 1] /\ j + 1 > 1
        BY <1>3, <1>4
      <4> QED BY <2>1, <4>1
    <3> QED BY <2>1, <3>1 DEF Silent
  <2>2. CASE i # 1
    <3>1. i - 1 \in DOMAIN rest /\ rest[i - 1].type = "verified"
      BY <1>3, <1>4, <2>2
    <3>2. ASSUME NEW j \in DOMAIN rest, j > i - 1
          PROVE  rest[j].type \notin Decides
      <4>1. i \in Int /\ j \in Int
        BY <1>4
      <4>2. j + 1 \in DOMAIN queue /\ rest[j] = queue[j + 1] /\ j + 1 > i
        BY <1>4, <3>2, <4>1
      <4> QED BY <4>2
    <3> QED BY <3>1, <3>2 DEF Concludes
  <2> QED BY <2>1, <2>2
<1>9. queue[1].type = "verified" /\ Silent(rest) => Concludes(queue)
  <2> SUFFICES ASSUME queue[1].type = "verified", Silent(rest) PROVE Concludes(queue)
    OBVIOUS
  <2>1. ASSUME NEW j \in DOMAIN queue, j > 1 PROVE queue[j].type \notin Decides
    <3>1. j - 1 \in DOMAIN rest /\ rest[j - 1] = queue[j]
      BY <1>4, <2>1
    <3> QED BY <3>1 DEF Silent
  <2> QED BY <1>4, <2>1 DEF Concludes
<1>10. "verified" \in Decides
  BY DEF Decides
<1> QED BY <1>3, <1>5, <1>6, <1>7, <1>8, <1>9, <1>10 DEF rest

\* A step of the sender that reads nothing.
LEMMA SenderEven ==
    ASSUME UNCHANGED <<rcv, toSnd>>,
           snd'.status = "completed" <=> snd.status = "completed",
           snd.status = "closed" => snd'.status = "closed"
    PROVE  Even
<1>1. Verdict' <=> Verdict
  BY DEF Verdict
<1> QED BY <1>1 DEF Even

\* The sender reads a message: if it decides, its verdict becomes the status.
LEMMA HearsEven ==
    ASSUME IsSeq(toSnd), NEW type, Hears(type),
           snd.status = "closed" => snd'.status = "closed",
           snd.status # "closed" /\ type \in Decides =>
              (snd'.status = "completed" <=> type = "verified"),
           snd.status # "closed" /\ type \notin Decides =>
              (snd'.status = "completed" <=> snd.status = "completed")
    PROVE  Even
<1>1. toSnd # <<>> /\ Head(toSnd).type = type /\ toSnd' = Tail(toSnd) /\ rcv' = rcv
  BY DEF Hears, receiver
<1>2. CASE snd.status = "closed"
  BY <1>2 DEF Even
<1>3. CASE snd.status # "closed"
  <2>1. Verdict' <=> Verdict
    BY <1>1, <1>3, ConcludesTail DEF Verdict
  <2> QED BY <1>1, <1>3, <2>1 DEF Even
<1> QED BY <1>2, <1>3

\* The receiver says nothing that decides, and does not end or begin to be
\* completed.
LEMMA MutterEven ==
    ASSUME IsSeq(toSnd), open, snd' = snd,
           rcv'.status = "completed" <=> rcv.status = "completed",
           NEW m, m.type \notin Decides, toSnd' \in {toSnd, Sent(toSnd, m)}
    PROVE  Even
<1>1. (Silent(toSnd') <=> Silent(toSnd)) /\ (Concludes(toSnd') <=> Concludes(toSnd))
  <2>1. CASE toSnd' = toSnd
    BY <2>1
  <2>2. CASE toSnd' = Append(toSnd, m)
    BY <2>2, ConcludesAppend
  <2> QED BY <2>1, <2>2 DEF Sent
<1>2. Verdict' <=> Verdict
  BY <1>1 DEF Verdict
<1> QED BY <1>2 DEF Even

\* It decides: it confirms and is completed, or neither.
LEMMA DecidesEven ==
    ASSUME IsSeq(toSnd), open, snd' = snd,
           NEW m, m.type \in Decides, toSnd' = Sent(toSnd, m),
           rcv'.status = "completed" <=> m.type = "verified"
    PROVE  Even
<1>1. Verdict' <=> m.type = "verified"
  BY ConcludesAppend DEF Verdict, Sent
<1> QED BY <1>1 DEF Even

\* A failure leaves a transfer that has ended alone.
LEMMA FailedEnds ==
    ASSUME NEW transfer, Whole(transfer)
    PROVE  /\ transfer.status \in {"completed", "closed"} =>
                 Failed(transfer).status = transfer.status
           /\ Failed(transfer).status \in {transfer.status, "failed"}
<1>1. transfer.status \in {"completed", "closed"} => Ended(transfer)
  BY DEF Ended, Terminal
<1> QED BY <1>1, FailedLemma DEF Failed

\* Starting the pump leaves the status.
LEMMA StartPumpStatus ==
    ASSUME NEW transfer, Whole(transfer), StartPump(transfer)
    PROVE  snd'.status = transfer.status
BY DEF StartPump, StartCompletion, Whole

\* An audit entry leaves the status that a transfer is given.
LEMMA EndedStatus ==
    ASSUME NEW transfer, Whole(transfer), NEW status, NEW result
    PROVE  Audited([transfer EXCEPT !.status = status], result).status = status
<1> DEFINE ended == [transfer EXCEPT !.status = status]
<1>1. Whole(ended) /\ ended.status = status
  BY DEF Whole
<1> QED BY <1>1, AuditedLemma

\* Nothing happens to a transfer nobody knows of, but its being enqueued.
LEMMA UnheardActs ==
    ASSUME Steady, snd.status = "none", Next
    PROVE  EnqueueFiles \/ EditSource
<1>1. /\ open /\ left["drop"] = 0
      /\ rcv.status = "none" /\ task = NoTasks /\ toRcv = <<>> /\ toSnd = <<>>
      /\ verifying = 0 /\ resend = NoResend /\ \A p \in Pumps : pump[p] = Idle
  BY DEF Steady, Unheard
<1>2. task["queue"].op = "none" /\ task["click"].op = "none"
  BY <1>1 DEF NoTasks, NoTask
<1>3. NoResend # {}
  BY DEF NoResend
<1>4. ~\E p \in Pumps : PumpSends(p) \/ PumpFails(p)
  BY <1>1 DEF PumpSends, PumpFails
<1>5. ~CompleteOutgoing /\ ~ResendChunk /\ ~ResendFails /\ ~ResendDone
  <2>1. resend \in {NoResend, {}} /\ resend # {} /\ ~(verifying > 0)
    BY <1>1, <1>3
  <2> QED BY <2>1 DEF CompleteOutgoing, ResendChunk, ResendFails, ResendDone
<1>6. \A type : ~Hears(type) /\ ~Gets(type)
  BY <1>1 DEF Hears, Gets
<1>7. /\ ~HandleAccepted /\ ~HandleAcknowledgement /\ ~HandleRejected /\ ~HandleVerified
      /\ ~HandleRetry /\ ~HandleCancelSent /\ ~HandleErrorSent
      /\ ~HandleIncomingRequest /\ ~HandleBinaryFrame /\ ~VerifyIncoming
      /\ ~HandleCancelReceived /\ ~HandleErrorReceived
  BY <1>6, Zenon
     DEF HandleAccepted, HandleAcknowledgement, HandleRejected, HandleVerified,
         HandleRetry, HandleCancelSent, HandleErrorSent, HandleIncomingRequest,
         HandleBinaryFrame, VerifyIncoming, HandleCancelReceived, HandleErrorReceived
<1>8. ~\E by \in {"queue", "click"} : PrepareReceive(by) \/ PrepareAndAccept(by)
  <2>1. \A by \in {"queue", "click"} : task[by].op = "none" /\ task[by] # [op |-> "prepare"]
    BY <1>2
  <2> QED BY <2>1 DEF PrepareReceive, PrepareAndAccept
<1>9. ~WriteChunk /\ ~FrameWritten /\ ~CompleteReceive /\ ~IncomingVerified
  <2>1. task["queue"] # [op |-> "complete"]
    BY <1>2
  <2> QED BY <1>2, <2>1 DEF WriteChunk, FrameWritten, CompleteReceive, IncomingVerified
<1>10. ~HandleChannelOpen /\ ~DetachChannel /\ ~ReceiverRestarts
  BY <1>1 DEF HandleChannelOpen, DetachChannel, ReceiverRestarts, Spend
<1>11. ~CancelSent /\ ~RetryTransfer /\ ~CloseSent
  BY DEF CancelSent, RetryTransfer, CloseSent, Ended
<1>12. ~AcceptIncoming /\ ~ClickReject /\ ~CancelReceived /\ ~CloseReceived
  BY <1>1 DEF AcceptIncoming, ClickReject, CancelReceived, CloseReceived, Terminal
<1>13. ~Program
  BY <1>4, <1>5, <1>7, <1>8, <1>9, <1>10 DEF Program
<1> QED BY <1>10, <1>11, <1>12, <1>13 DEF Next, World

\* The sender's own steps, and those of its buttons.
LEMMA SenderActsEven ==
    ASSUME TransferInv, open, snd.status # "none",
           \/ CancelSent \/ RetryTransfer \/ CloseSent \/ EditSource
           \/ \E p \in Pumps : PumpSends(p) \/ PumpFails(p)
           \/ CompleteOutgoing \/ ResendChunk \/ ResendFails \/ ResendDone
    PROVE  Even /\ snd'.status # "none"
<1>1. Whole(snd)
  BY DEF TransferInv, Shape
<1>2. UNCHANGED <<rcv, toSnd>>
  BY DEF CancelSent, RetryTransfer, CloseSent, EditSource, PumpSends, PumpFails,
         CompleteOutgoing, ResendChunk, ResendFails, ResendDone, receiver
<1>3. ASSUME snd'.status \in {snd.status, "failed"},
             snd.status \in {"completed", "closed"} => snd'.status = snd.status
      PROVE  Even /\ snd'.status # "none"
  BY <1>2, <1>3, SenderEven
<1>4. ASSUME NEW transfer, Whole(transfer), transfer.status = snd.status,
             snd' \in {transfer, [transfer EXCEPT !.pumping = FALSE]}
      PROVE  Even /\ snd'.status # "none"
  BY <1>3, <1>4 DEF Whole
<1>5. CASE CancelSent
  <2>1. ~Ended(snd) /\ snd' = Audited([snd EXCEPT !.status = "cancelled"], "cancelled")
    BY <1>5 DEF CancelSent, SenderCancelled
  <2>2. snd'.status = "cancelled"
    BY <1>1, <2>1, EndedStatus
  <2> QED BY <1>2, <2>1, <2>2, SenderEven DEF Ended, Terminal
<1>6. CASE RetryTransfer
  <2>1. snd.status \in {"failed", "rejected"} /\ snd'.status = "waiting"
    BY <1>6 DEF RetryTransfer, NewTransfer
  <2> QED BY <1>2, <2>1, SenderEven
<1>7. CASE CloseSent
  <2>1. snd'.status = "closed"
    BY <1>1, <1>7 DEF CloseSent, Whole
  <2> QED BY <2>1 DEF Even
<1>8. ASSUME NEW p \in Pumps, PumpSends(p) PROVE Even /\ snd'.status # "none"
  <2> DEFINE moved == [snd EXCEPT !.next = @ + 1]
  <2>1. Whole(moved) /\ moved.status = snd.status
    BY <1>1 DEF Whole
  <2>2. snd' = moved \/ snd' = [moved EXCEPT !.pumping = FALSE]
    BY <1>8 DEF PumpSends
  <2> HIDE DEF moved
  <2> QED BY <1>4, <2>1, <2>2
<1>9. Whole(Failed(snd)) /\ Caught(snd) = Failed(snd)
  BY <1>1, FailedLemma DEF Caught
<1>10. ASSUME snd' \in {snd, Failed(snd), [Failed(snd) EXCEPT !.pumping = FALSE]}
       PROVE  Even /\ snd'.status # "none"
  <2>1. snd'.status \in {snd.status, Failed(snd).status}
    BY <1>9, <1>10 DEF Whole
  <2>2. snd'.status = snd.status \/ snd'.status = Failed(snd).status
    BY <2>1
  <2> QED BY <1>1, <1>3, <2>2, FailedEnds
<1>11. ASSUME NEW p \in Pumps, PumpFails(p) PROVE Even /\ snd'.status # "none"
  BY <1>9, <1>10, <1>11 DEF PumpFails
<1>12. CASE CompleteOutgoing
  BY <1>9, <1>10, <1>12 DEF CompleteOutgoing
<1>13. CASE ResendChunk \/ ResendFails \/ ResendDone \/ EditSource
  BY <1>9, <1>10, <1>13 DEF ResendChunk, ResendFails, ResendDone, EditSource
<1> QED BY <1>5, <1>6, <1>7, <1>8, <1>11, <1>12, <1>13

\* The sender handles a message.
LEMMA SenderHearsEven ==
    ASSUME TransferInv, snd.status # "none",
           \/ HandleAccepted \/ HandleAcknowledgement \/ HandleRejected \/ HandleVerified
           \/ HandleRetry \/ HandleCancelSent \/ HandleErrorSent
    PROVE  Even /\ snd'.status # "none"
<1>1. Whole(snd) /\ IsSeq(toSnd)
  BY DEF TransferInv, Shape
<1>2. ASSUME NEW type, Hears(type), type \in Decides, snd' = snd, ~SenderKnows
      PROVE  Even /\ snd'.status # "none"
  BY <1>2 DEF SenderKnows, Even
<1>3. ASSUME NEW type, Hears(type), type \notin Decides,
             snd'.status = snd.status \/ snd.status \notin {"completed", "closed"},
             snd'.status \in {snd.status, "cancelled", "failed"}
      PROVE  Even /\ snd'.status # "none"
  BY <1>1, <1>3, HearsEven
<1>4. CASE HandleAccepted
  <2> DEFINE moved == [snd EXCEPT !.status = "sending", !.next = Head(toSnd).next,
                                  !.ack = Head(toSnd).next, !.completionSent = FALSE]
  <2>1. Whole(moved) /\ moved.status = "sending"
    BY <1>1 DEF Whole
  <2>2. Hears("accept") /\ IF SenderKnows THEN StartPump(moved) ELSE snd' = snd
    BY <1>4 DEF HandleAccepted
  <2> HIDE DEF moved
  <2>3. CASE SenderKnows
    <3>1. snd'.status = "sending"
      BY <2>1, <2>2, <2>3, StartPumpStatus
    <3>2. snd.status # "closed" /\ "accept" \in Decides /\ "accept" # "verified"
      BY <2>3 DEF SenderKnows, Decides
    <3> QED BY <1>1, <2>2, <3>1, <3>2, HearsEven
  <2> QED BY <1>2, <2>2, <2>3 DEF Decides
<1>5. CASE HandleAcknowledgement
  <2> DEFINE moved == [snd EXCEPT !.ack = Head(toSnd).next]
  <2>1. Whole(moved) /\ moved.status = snd.status
    BY <1>1 DEF Whole
  <2>2. \/ StartPump(moved) \/ snd' = snd \/ snd' = moved
        \/ snd' = [moved EXCEPT !.completionSent = TRUE]
    BY <1>5 DEF HandleAcknowledgement, StartCompletion
  <2> HIDE DEF moved
  <2>3. snd'.status = snd.status
    BY <2>1, <2>2, StartPumpStatus DEF Whole
  <2>4. Hears("ack") /\ "ack" \notin Decides
    BY <1>5 DEF HandleAcknowledgement, Decides
  <2> QED BY <1>3, <2>3, <2>4
<1>6. CASE HandleRejected
  <2>1. Hears("reject") /\ "reject" \in Decides /\ "reject" # "verified"
    BY <1>6 DEF HandleRejected, Decides
  <2>2. CASE SenderKnows
    <3>1. snd' = Audited([snd EXCEPT !.status = "rejected"], "rejected")
      BY <1>6, <2>2 DEF HandleRejected
    <3>2. snd'.status = "rejected" /\ snd.status # "closed"
      BY <1>1, <2>2, <3>1, EndedStatus DEF SenderKnows
    <3> QED BY <1>1, <2>1, <3>2, HearsEven
  <2>3. CASE ~SenderKnows
    BY <1>2, <1>6, <2>1, <2>3 DEF HandleRejected
  <2> QED BY <2>2, <2>3
<1>7. CASE HandleVerified
  <2>1. Hears("verified") /\ "verified" \in Decides
    BY <1>7 DEF HandleVerified, Decides
  <2>2. CASE SenderKnows
    <3>1. snd' = Audited([snd EXCEPT !.status = "completed"], "completed")
      BY <1>7, <2>2 DEF HandleVerified
    <3>2. snd'.status = "completed" /\ snd.status # "closed"
      BY <1>1, <2>2, <3>1, EndedStatus DEF SenderKnows
    <3> QED BY <1>1, <2>1, <3>2, HearsEven
  <2>3. CASE ~SenderKnows
    BY <1>2, <1>7, <2>1, <2>3 DEF HandleVerified
  <2> QED BY <2>2, <2>3
<1>8. CASE HandleRetry
  BY <1>3, <1>8 DEF HandleRetry, Decides
<1>9. CASE HandleCancelSent
  <2>1. Hears("cancel") /\ "cancel" \notin Decides
    BY <1>9 DEF HandleCancelSent, Decides
  <2>2. CASE Ended(snd)
    BY <1>3, <1>9, <2>1, <2>2 DEF HandleCancelSent
  <2>3. CASE ~Ended(snd)
    <3>1. snd' = Audited([snd EXCEPT !.status = "cancelled"], "cancelled")
      BY <1>9, <2>3 DEF HandleCancelSent, SenderCancelled
    <3>2. snd'.status = "cancelled" /\ snd.status \notin {"completed", "closed"}
      BY <1>1, <2>3, <3>1, EndedStatus DEF Ended, Terminal
    <3> QED BY <1>3, <2>1, <3>2
  <2> QED BY <2>2, <2>3
<1>10. CASE HandleErrorSent
  <2>1. Hears("error") /\ "error" \notin Decides /\ snd' = Failed(snd)
    BY <1>10 DEF HandleErrorSent, Decides
  <2> QED BY <1>1, <1>3, <2>1, FailedEnds
<1> QED BY <1>4, <1>5, <1>6, <1>7, <1>8, <1>9, <1>10

\* The messages of the receiver that decide nothing.
LEMMA Mutters ==
    /\ \A next : [type |-> "ack", next |-> next].type \notin Decides
    /\ \A indexes : [type |-> "retry", indexes |-> indexes].type \notin Decides
    /\ [type |-> "error"].type \notin Decides /\ [type |-> "cancel"].type \notin Decides
BY DEF Decides

\* The receiver fails, and may say so.
LEMMA FailedEven ==
    ASSUME TransferInv, open, snd' = snd, rcv' = Failed(rcv),
           toSnd' \in {toSnd, FailNotice(rcv, toSnd), Sent(toSnd, [type |-> "error"])}
    PROVE  Even
<1>1. Whole(rcv) /\ IsSeq(toSnd)
  BY DEF TransferInv, Shape
<1>2. rcv'.status = "completed" <=> rcv.status = "completed"
  BY <1>1, FailedEnds
<1>3. PICK m : m = [type |-> "error"]
  OBVIOUS
<1>4. toSnd' \in {toSnd, Sent(toSnd, m)}
  BY <1>3 DEF FailNotice
<1> QED BY <1>1, <1>2, <1>3, <1>4, Mutters, MutterEven

\* The receiver gives its transfer another status, and says nothing of it.
LEMMA QuietEven ==
    ASSUME TransferInv, open, UNCHANGED <<snd, toSnd>>,
           rcv'.status = "completed" <=> rcv.status = "completed"
    PROVE  Even
<1>1. IsSeq(toSnd)
  BY DEF TransferInv, Shape
<1>2. PICK m : m = [type |-> "error"]
  OBVIOUS
<1> QED BY <1>1, <1>2, Mutters, MutterEven

\* The receiver turns the transfer down, or cancels it.
LEMMA RejectEven ==
    ASSUME TransferInv, open, snd' = snd, RejectIncoming
    PROVE  Even
<1>1. Whole(rcv) /\ IsSeq(toSnd)
  BY DEF TransferInv, Shape
<1>2. rcv'.status = "rejected"
  BY <1>1, EndedStatus DEF RejectIncoming
<1>3. PICK m : m = [type |-> "reject"]
  OBVIOUS
<1>4. m.type \in Decides /\ m.type # "verified" /\ toSnd' = Sent(toSnd, m)
  BY <1>3 DEF Decides, RejectIncoming
<1> QED BY <1>1, <1>2, <1>4, DecidesEven

\* The receiver's renderer reads an answer of its storage.
LEMMA ReceiverReadsEven ==
    ASSUME TransferInv, open,
           FrameWritten \/ IncomingVerified \/ \E by \in {"queue", "click"} : PrepareAndAccept(by)
    PROVE  Even /\ snd' = snd
<1>1. Whole(rcv) /\ IsSeq(toSnd)
  BY DEF TransferInv, Shape
<1>2. snd' = snd
  BY DEF FrameWritten, IncomingVerified, PrepareAndAccept, sender
<1>3. Caught(rcv) = Failed(rcv)
  BY DEF Caught
<1>4. ASSUME NEW by \in {"queue", "click"}, PrepareAndAccept(by) PROVE Even
  <2>1. CASE task[by].op = "prepared"
    <3>1. PICK m : m = [type |-> "accept", next |-> task[by].next]
      OBVIOUS
    <3>2. rcv' = [rcv EXCEPT !.status = "receiving", !.ack = task[by].next] /\ toSnd' = Sent(toSnd, m)
      BY <1>4, <2>1, <3>1 DEF PrepareAndAccept
    <3>3. rcv'.status = "receiving" /\ m.type \in Decides /\ m.type # "verified"
      BY <1>1, <3>1, <3>2 DEF Whole, Decides
    <3> QED BY <1>1, <1>2, <3>2, <3>3, DecidesEven
  <2>2. CASE task[by].op = "refused"
    BY <1>2, <1>4, <2>2, RejectEven DEF PrepareAndAccept
  <2>3. CASE task[by].op = "prepare failed"
    BY <1>2, <1>3, <1>4, <2>3, FailedEven DEF PrepareAndAccept
  <2> QED BY <1>4, <2>1, <2>2, <2>3 DEF PrepareAndAccept
<1>5. CASE FrameWritten
  <2>1. CASE task["queue"].op = "written"
    <3>1. PICK m : m = [type |-> "ack", next |-> task["queue"].next]
      OBVIOUS
    <3>2. rcv' = [rcv EXCEPT !.ack = task["queue"].next] /\ toSnd' = Sent(toSnd, m)
      BY <1>5, <2>1, <3>1 DEF FrameWritten
    <3>3. rcv'.status = rcv.status
      BY <1>1, <3>2 DEF Whole
    <3> QED BY <1>1, <1>2, <3>1, <3>2, <3>3, Mutters, MutterEven
  <2>2. CASE task["queue"].op = "corrupt"
    <3>1. PICK m : m = [type |-> "retry", indexes |-> {task["queue"].index}]
      OBVIOUS
    <3>2. rcv' = rcv /\ toSnd' = Sent(toSnd, m)
      BY <1>5, <2>2, <3>1 DEF FrameWritten
    <3> QED BY <1>1, <1>2, <3>1, <3>2, Mutters, MutterEven
  <2>3. CASE task["queue"].op = "write failed"
    BY <1>2, <1>5, <2>3, FailedEven DEF FrameWritten
  <2> QED BY <1>5, <2>1, <2>2, <2>3 DEF FrameWritten
<1>6. CASE IncomingVerified
  <2>1. CASE task["queue"].op = "valid"
    <3>1. PICK m : m = [type |-> "verified"]
      OBVIOUS
    <3>2. /\ rcv' = Audited([rcv EXCEPT !.status = "completed"], "completed")
          /\ toSnd' = Sent(toSnd, m)
      BY <1>6, <2>1, <3>1 DEF IncomingVerified
    <3>3. rcv'.status = "completed" /\ m.type = "verified" /\ m.type \in Decides
      BY <1>1, <3>1, <3>2, EndedStatus DEF Decides
    <3> QED BY <1>1, <1>2, <3>2, <3>3, DecidesEven
  <2>2. CASE task["queue"].op = "bad"
    <3>1. PICK m : m = [type |-> "retry", indexes |-> task["queue"].indexes]
      OBVIOUS
    <3>2. rcv' = rcv /\ toSnd' = Sent(toSnd, m)
      BY <1>6, <2>2, <3>1 DEF IncomingVerified
    <3> QED BY <1>1, <1>2, <3>1, <3>2, Mutters, MutterEven
  <2>3. CASE task["queue"].op = "complete failed"
    BY <1>2, <1>3, <1>6, <2>3, FailedEven DEF IncomingVerified
  <2> QED BY <1>6, <2>1, <2>2, <2>3 DEF IncomingVerified
<1> QED BY <1>2, <1>4, <1>5, <1>6

\* The receiver handles a message.
LEMMA ReceiverGetsEven ==
    ASSUME TransferInv, open,
           \/ HandleIncomingRequest \/ HandleBinaryFrame \/ VerifyIncoming
           \/ HandleCancelReceived \/ HandleErrorReceived
    PROVE  Even /\ snd' = snd
<1>1. Whole(rcv) /\ IsSeq(toSnd)
  BY DEF TransferInv, Shape
<1>2. snd' = snd
  BY DEF HandleIncomingRequest, HandleBinaryFrame, VerifyIncoming, HandleCancelReceived,
         HandleErrorReceived, Gets, sender
<1>3. CASE HandleIncomingRequest
  <2>1. CASE rcv.status = "completed"
    <3>1. PICK m : m = [type |-> "verified"]
      OBVIOUS
    <3>2. rcv' = rcv /\ toSnd' = Sent(toSnd, m) /\ m.type = "verified" /\ m.type \in Decides
      BY <1>3, <2>1, <3>1 DEF HandleIncomingRequest, Decides
    <3> QED BY <1>1, <1>2, <2>1, <3>2, DecidesEven
  <2>2. CASE rcv.status # "completed"
    <3>1. /\ toSnd' = toSnd
          /\ \/ rcv' \in {rcv, NewTransfer}
             \/ rcv' = [rcv EXCEPT !.status = "waiting", !.audit = NoAudit]
      BY <1>3, <2>2 DEF HandleIncomingRequest
    <3>2. NewTransfer.status = "waiting"
      BY DEF NewTransfer
    <3>3. [rcv EXCEPT !.status = "waiting", !.audit = NoAudit].status = "waiting"
      BY <1>1 DEF Whole
    <3>4. rcv'.status # "completed"
      BY <2>2, <3>1, <3>2, <3>3
    <3> QED BY <1>2, <2>2, <3>1, <3>4, QuietEven
  <2> QED BY <2>1, <2>2
<1>4. CASE HandleBinaryFrame
  <2>1. /\ toSnd' = toSnd
        /\ \/ rcv' = rcv
           \/ rcv.status # "completed" /\ rcv' = [rcv EXCEPT !.status = "receiving"]
    BY <1>4 DEF HandleBinaryFrame
  <2>2. rcv'.status = "completed" <=> rcv.status = "completed"
    BY <1>1, <2>1 DEF Whole
  <2> QED BY <1>2, <2>1, <2>2, QuietEven
<1>5. CASE VerifyIncoming
  BY <1>2, <1>5, QuietEven DEF VerifyIncoming
<1>6. CASE HandleCancelReceived
  <2>1. CASE Ended(rcv)
    BY <1>2, <1>6, <2>1, QuietEven DEF HandleCancelReceived
  <2>2. CASE ~Ended(rcv)
    <3>1. rcv' = Audited([rcv EXCEPT !.status = "cancelled"], "cancelled") /\ toSnd' = toSnd
      BY <1>6, <2>2 DEF HandleCancelReceived, ReceiverCancelled
    <3>2. rcv'.status = "cancelled" /\ rcv.status # "completed"
      BY <1>1, <2>2, <3>1, EndedStatus DEF Ended, Terminal
    <3> QED BY <1>2, <3>1, <3>2, QuietEven
  <2> QED BY <2>1, <2>2
<1>7. CASE HandleErrorReceived
  BY <1>2, <1>7, FailedEven DEF HandleErrorReceived
<1> QED BY <1>2, <1>3, <1>4, <1>5, <1>6, <1>7

\* The buttons of the receiver's list that leave its entry there.
LEMMA ReceiverClicksEven ==
    ASSUME TransferInv, open, AcceptIncoming \/ ClickReject \/ CancelReceived
    PROVE  Even /\ snd' = snd
<1>1. Whole(rcv) /\ IsSeq(toSnd)
  BY DEF TransferInv, Shape
<1>2. snd' = snd
  BY DEF AcceptIncoming, ClickReject, CancelReceived, sender
<1>3. CASE AcceptIncoming
  BY <1>2, <1>3, QuietEven DEF AcceptIncoming
<1>4. CASE ClickReject
  BY <1>2, <1>4, RejectEven DEF ClickReject
<1>5. CASE CancelReceived
  <2>1. PICK m : m = [type |-> "cancel"]
    OBVIOUS
  <2>2. /\ rcv' = Audited([rcv EXCEPT !.status = "cancelled"], "cancelled")
        /\ toSnd' = Sent(toSnd, m) /\ rcv.status \in {"receiving", "paused"}
    BY <1>5, <2>1 DEF CancelReceived, ReceiverCancelled
  <2>3. rcv'.status = "cancelled"
    BY <1>1, <2>2, EndedStatus
  <2> QED BY <1>1, <1>2, <2>1, <2>2, <2>3, Mutters, MutterEven
<1> QED BY <1>2, <1>3, <1>4, <1>5

\* The budgets of what may go wrong only go down, and the channel stays.
LEMMA StaysOpen ==
    ASSUME Steady, Next
    PROVE  /\ open' = open /\ {"drop", "close"} \subseteq DOMAIN left' /\ left'["drop"] = 0
           /\ left["close"] = 0 => left'["close"] = 0 /\ ~CloseReceived
<1>1. open /\ {"drop", "close"} \subseteq DOMAIN left /\ left["drop"] = 0
  BY DEF Steady
<1>2. ~DetachChannel /\ ~HandleChannelOpen /\ ~ReceiverRestarts
      /\ (CloseReceived \/ CloseSent => left["close"] # 0)
  <2>1. DetachChannel => left["drop"] > 0
    BY Zenon DEF DetachChannel, Spend
  <2>2. CloseReceived \/ CloseSent => left["close"] > 0
    BY Zenon DEF CloseReceived, CloseSent, Spend
  <2>3. ~HandleChannelOpen /\ ~ReceiverRestarts
    BY <1>1, Zenon DEF HandleChannelOpen, ReceiverRestarts
  <2> QED BY <1>1, <2>1, <2>2, <2>3
<1>3. ASSUME left' = left \/ \E kind \in {"fault", "edit", "click"} : Spend(kind)
      PROVE  {"drop", "close"} \subseteq DOMAIN left' /\ left'["drop"] = 0
             /\ left'["close"] = left["close"]
  BY <1>1, <1>3 DEF Spend
<1>4. CASE Program
  <2>1. open' = open /\ (left' = left \/ Spend("fault"))
    BY <1>2, <1>4, Zenon
       DEF Program, PumpSends, PumpFails, CompleteOutgoing, ResendChunk, ResendFails, ResendDone,
           HandleAccepted, HandleAcknowledgement, HandleRejected, HandleVerified, HandleRetry,
           HandleCancelSent, HandleErrorSent, Hears, PrepareReceive, PrepareAndAccept,
           WriteChunk, FrameWritten, CompleteReceive, IncomingVerified,
           HandleIncomingRequest, HandleBinaryFrame, VerifyIncoming, HandleCancelReceived,
           HandleErrorReceived, Gets
  <2>2. ~CloseReceived \/ left["close"] # 0
    BY <1>2
  <2> QED BY <1>3, <2>1, <2>2
<1>5. CASE EnqueueFiles \/ CancelSent \/ RetryTransfer \/ AcceptIncoming \/ ClickReject
           \/ CancelReceived \/ EditSource
  <2>1. open' = open /\ (left' = left \/ Spend("click") \/ Spend("edit"))
    BY <1>5, Zenon
       DEF EnqueueFiles, CancelSent, RetryTransfer, AcceptIncoming, ClickReject,
           CancelReceived, EditSource
  <2> QED BY <1>2, <1>3, <2>1
<1>6. CASE CloseSent \/ CloseReceived
  <2>1. open' = open /\ Spend("close")
    BY <1>6, Zenon DEF CloseSent, CloseReceived
  <2> QED BY <1>1, <1>2, <1>6, <2>1 DEF Spend
<1> QED BY <1>2, <1>4, <1>5, <1>6 DEF Next, World

\* Every step of a channel that stays is even, unless the receiver closes its entry.
LEMMA EvenSteps ==
    ASSUME TransferInv, Steady, [Next]_vars
    PROVE  /\ Steady' /\ (Even \/ CloseReceived)
           /\ CloseReceived => rcv'.status = "none"
           /\ left["close"] = 0 => left'["close"] = 0 /\ ~CloseReceived
<1>1. CASE UNCHANGED vars
  <2>1. /\ snd' = snd /\ rcv' = rcv /\ task' = task /\ toRcv' = toRcv /\ toSnd' = toSnd
        /\ verifying' = verifying /\ resend' = resend /\ pump' = pump /\ open' = open
        /\ left' = left
    BY <1>1 DEF vars, sender, receiver
  <2>2. Verdict' <=> Verdict
    BY <2>1 DEF Verdict
  <2>3. Even
    BY <2>1, <2>2 DEF Even
  <2>4. Steady'
    BY <2>1 DEF Steady, Unheard
  <2>5. left["close"] = 0 => ~CloseReceived
    BY <2>1 DEF CloseReceived, Spend
  <2>6. CloseReceived => rcv'.status = "none"
    BY DEF CloseReceived, TransferInv, Shape, Whole
  <2> QED BY <2>1, <2>3, <2>4, <2>5, <2>6
<1>2. CASE Next
  <2>1. /\ open' /\ {"drop", "close"} \subseteq DOMAIN left' /\ left'["drop"] = 0
        /\ left["close"] = 0 => left'["close"] = 0 /\ ~CloseReceived
    BY <1>2, StaysOpen DEF Steady
  <2>2. CloseReceived => rcv'.status = "none"
    BY DEF CloseReceived, TransferInv, Shape, Whole
  <2>3. CASE snd.status = "none"
    <3>1. CASE EnqueueFiles
      <4>1. snd'.status = "waiting" /\ UNCHANGED <<rcv, toSnd>>
        BY <3>1 DEF EnqueueFiles, NewTransfer, receiver
      <4>2. Steady'
        BY <2>1, <4>1 DEF Steady, Unheard
      <4>3. Even
        BY <2>3, <4>1, SenderEven
      <4> QED BY <2>1, <2>2, <4>2, <4>3
    <3>2. CASE EditSource
      <4>1. UNCHANGED <<snd, rcv, task, toRcv, toSnd, verifying, resend, pump>>
        BY <3>2 DEF EditSource, receiver
      <4>2. Steady'
        BY <2>1, <4>1 DEF Steady, Unheard
      <4>3. Even
        BY <2>3, <4>1, SenderEven
      <4> QED BY <2>1, <2>2, <4>2, <4>3
    <3> QED BY <1>2, <2>3, <3>1, <3>2, UnheardActs
  <2>4. CASE snd.status # "none"
    <3>1. ~DetachChannel /\ ~HandleChannelOpen /\ ~ReceiverRestarts /\ ~EnqueueFiles
      <4>1. DetachChannel => left["drop"] > 0
        BY Zenon DEF DetachChannel, Spend
      <4>2. ~HandleChannelOpen /\ ~ReceiverRestarts /\ ~EnqueueFiles
        BY <2>4, Zenon DEF Steady, HandleChannelOpen, ReceiverRestarts, EnqueueFiles
      <4> QED BY <4>1, <4>2 DEF Steady
    <3>2. ASSUME Even, snd'.status # "none"
          PROVE  Steady' /\ (Even \/ CloseReceived)
      BY <2>1, <3>2 DEF Steady, Unheard
    <3>3. Steady' /\ (Even \/ CloseReceived)
      <4>1. open
        BY DEF Steady
      <4>2. CASE \/ CancelSent \/ RetryTransfer \/ CloseSent \/ EditSource
                 \/ \E p \in Pumps : PumpSends(p) \/ PumpFails(p)
                 \/ CompleteOutgoing \/ ResendChunk \/ ResendFails \/ ResendDone
        BY <2>4, <3>2, <4>1, <4>2, SenderActsEven
      <4>3. CASE \/ HandleAccepted \/ HandleAcknowledgement \/ HandleRejected \/ HandleVerified
                 \/ HandleRetry \/ HandleCancelSent \/ HandleErrorSent
        BY <2>4, <3>2, <4>3, SenderHearsEven
      <4>4. CASE FrameWritten \/ IncomingVerified
                 \/ \E by \in {"queue", "click"} : PrepareAndAccept(by)
        BY <2>4, <3>2, <4>1, <4>4, ReceiverReadsEven
      <4>5. CASE \/ HandleIncomingRequest \/ HandleBinaryFrame \/ VerifyIncoming
                 \/ HandleCancelReceived \/ HandleErrorReceived
        BY <2>4, <3>2, <4>1, <4>5, ReceiverGetsEven
      <4>6. CASE AcceptIncoming \/ ClickReject \/ CancelReceived
        BY <2>4, <3>2, <4>1, <4>6, ReceiverClicksEven
      <4>7. CASE WriteChunk \/ CompleteReceive \/ \E by \in {"queue", "click"} : PrepareReceive(by)
        <5>1. UNCHANGED <<sender, rcv, toSnd>>
          BY <4>7, Zenon DEF WriteChunk, CompleteReceive, PrepareReceive
        <5>2. snd' = snd
          BY <5>1 DEF sender
        <5> QED BY <2>4, <3>2, <4>1, <5>1, <5>2, QuietEven
      <4>8. CASE CloseReceived
        <5>1. snd' = snd
          BY <4>8 DEF CloseReceived, sender
        <5> QED BY <2>1, <2>4, <4>8, <5>1 DEF Steady, Unheard
      <4> QED BY <1>2, <3>1, <4>2, <4>3, <4>4, <4>5, <4>6, <4>7, <4>8 DEF Next, Program, World
    <3> QED BY <2>1, <2>2, <3>3
  <2> QED BY <2>3, <2>4
<1> QED BY <1>1, <1>2

\* A channel that stays has all its budgets, and nobody knows of a transfer.
LEMMA SteadyInit == Init /\ ChannelStays => Steady /\ snd.status = "none" /\ ~Verdict
<1> SUFFICES ASSUME Init, ChannelStays
             PROVE  Steady /\ snd.status = "none" /\ ~Verdict
  OBVIOUS
<1>1. left \in [{"drop", "fault", "edit", "click", "close", "restart"} -> Nat]
  BY TransferAssumption DEF Init
<1>2. snd.status = "none" /\ rcv.status = "none" /\ toSnd = <<>>
  BY DEF Init, NewTransfer
<1>3. Steady
  BY <1>1, <1>2 DEF Init, Steady, Unheard, ChannelStays
<1>4. ~Verdict
  BY <1>2 DEF Verdict, Concludes
<1> QED BY <1>2, <1>3, <1>4

\* What the receiver shows as completed the sender will have shown when it has
\* read its queue, unless its user has closed the entry; and the other way round.
Backed  == snd.status # "closed" /\ rcv.status = "completed" => Verdict
Matched == left["close"] = 0 /\ (snd.status # "closed" /\ Verdict => rcv.status = "completed")

\* When the queues are empty, the verdict is what the sender shows.
LEMMA VerdictShown ==
    BothEnded => snd.status # "closed" /\ (Verdict <=> snd.status = "completed")
BY DEF BothEnded, Verdict, Silent, Concludes, Terminal

\* On a channel that stays, when nothing is under way: what the receiver shows as
\* completed is completed for the sender, and, if no entry is closed, what the
\* sender shows as completed is completed for the receiver (handleVerified,
\* handleCancel, completeReceive).
THEOREM BothEndsAgree == Spec => OutcomesAgree
<1>1. Init => TransferInv
  BY TransferInit
<1>2. TransferInv /\ [Next]_vars => TransferInv'
  BY TransferNext
<1>3. /\ Init /\ ChannelStays => Steady /\ Backed
      /\ Init /\ ChannelStays /\ EntriesStay => Matched
  <2>1. Init => rcv.status = "none"
    BY DEF Init, NewTransfer
  <2> QED BY <2>1, SteadyInit DEF Backed, Matched, EntriesStay
<1>4. TransferInv /\ Steady /\ Backed /\ [Next]_vars => (Steady /\ Backed)'
  BY EvenSteps DEF Backed, Even
<1>5. TransferInv /\ Steady /\ Matched /\ [Next]_vars => Matched'
  BY EvenSteps DEF Matched, Even
<1>6. Backed => (BothEnded => (rcv.status = "completed" => snd.status = "completed"))
  BY VerdictShown DEF Backed
<1>7. Matched => (BothEnded => (snd.status = "completed" => rcv.status = "completed"))
  BY VerdictShown DEF Matched
<1> QED BY <1>1, <1>2, <1>3, <1>4, <1>5, <1>6, <1>7, PTL DEF Spec, OutcomesAgree
=============================================================================
