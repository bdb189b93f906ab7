-------------------------- MODULE IpcMailboxProofs --------------------------
(***************************************************************************)
(* Proofs about IpcMailbox, for every size of the message pool and every   *)
(* number of commands and notifications.                                   *)
(***************************************************************************)
EXTENDS IpcMailbox, SequenceTheorems, TLAPS

-----------------------------------------------------------------------------
(* Facts about sequences without repetition *)

\* Appending (list_item_append) adds exactly the new element, and keeps a list
\* free of repetition when the element was not on it.
LEMMA AppendFacts ==
  ASSUME NEW S, NEW s \in Seq(S), NEW x \in S
  PROVE  /\ Append(s, x) \in Seq(S)
         /\ Len(Append(s, x)) = Len(s) + 1
         /\ SeqSet(Append(s, x)) = SeqSet(s) \cup {x}
         /\ NoRepeat(s) /\ x \notin SeqSet(s) => NoRepeat(Append(s, x))
<1>1. /\ Append(s, x) \in Seq(S) /\ Len(s) \in Nat
      /\ Len(Append(s, x)) = Len(s) + 1
      /\ \A i \in 1 .. Len(s) : Append(s, x)[i] = s[i]
      /\ Append(s, x)[Len(s) + 1] = x
  OBVIOUS
<1>2. SeqSet(Append(s, x)) = SeqSet(s) \cup {x}
  <2>1. \A y \in SeqSet(Append(s, x)) : y \in SeqSet(s) \cup {x}
    BY <1>1 DEF SeqSet
  <2>2. SeqSet(s) \subseteq SeqSet(Append(s, x))
    BY <1>1 DEF SeqSet
  <2>3. x \in SeqSet(Append(s, x))
    BY <1>1 DEF SeqSet
  <2> QED BY <2>1, <2>2, <2>3
<1>3. NoRepeat(s) /\ x \notin SeqSet(s) => NoRepeat(Append(s, x))
  BY <1>1 DEF NoRepeat, SeqSet
<1> QED BY <1>1, <1>2, <1>3

\* Removing the first item (list_first_item, list_item_del) removes exactly it.
LEMMA HeadTailFacts ==
  ASSUME NEW S, NEW s \in Seq(S), s # <<>>
  PROVE  /\ Head(s) \in S /\ Tail(s) \in Seq(S)
         /\ Len(s) = Len(Tail(s)) + 1
         /\ SeqSet(s) = SeqSet(Tail(s)) \cup {Head(s)}
         /\ NoRepeat(s) => NoRepeat(Tail(s)) /\ Head(s) \notin SeqSet(Tail(s))
<1>1. /\ Head(s) \in S /\ Tail(s) \in Seq(S)
      /\ Len(s) \in Nat /\ Len(Tail(s)) = Len(s) - 1 /\ Len(s) >= 1
      /\ Head(s) = s[1]
      /\ \A i \in 1 .. Len(Tail(s)) : Tail(s)[i] = s[i + 1]
  OBVIOUS
<1>2. SeqSet(s) = SeqSet(Tail(s)) \cup {Head(s)}
  <2>1. ASSUME NEW i \in 1 .. Len(s) PROVE s[i] \in SeqSet(Tail(s)) \cup {Head(s)}
    <3>1. CASE i = 1 BY <3>1, <1>1
    <3>2. CASE i # 1
      <4>1. i - 1 \in 1 .. Len(Tail(s)) /\ Tail(s)[i - 1] = s[i]
        BY <3>2, <1>1
      <4> QED BY <4>1 DEF SeqSet
    <3> QED BY <3>1, <3>2
  <2>2. ASSUME NEW i \in 1 .. Len(Tail(s)) PROVE Tail(s)[i] \in SeqSet(s)
    <3>1. i + 1 \in 1 .. Len(s) /\ Tail(s)[i] = s[i + 1]
      BY <1>1
    <3> QED BY <3>1 DEF SeqSet
  <2>3. Head(s) \in SeqSet(s)
    BY <1>1 DEF SeqSet
  <2> QED BY <2>1, <2>2, <2>3 DEF SeqSet
<1>3. NoRepeat(s) => NoRepeat(Tail(s)) /\ Head(s) \notin SeqSet(Tail(s))
  BY <1>1 DEF NoRepeat, SeqSet
<1> QED BY <1>1, <1>2, <1>3

-----------------------------------------------------------------------------
(* The inductive invariant *)

\* The doorbells: each shows at most one bit, a raised DSP doorbell belongs to
\* a message, and do_notify() runs only for a DONE that is still set.
DoorbellInv ==
  /\ IPCXH \in {{}, {"BUSY"}, {"DONE"}}
  /\ IPCDH \in {{}, {"BUSY"}, {"DONE"}}
  /\ IPCDH # {} => dsp_msg # NULL
  /\ irq \in {"notify", "clear"} => IPCDH = {"DONE"}

\* The message buffers are counted: no list operation gains or loses one.
PoolCount ==
  Len(empty_list) + Len(msg_list) + (IF InFlight THEN 1 ELSE 0)
    = MSG_QUEUE_SIZE

\* Has the handler seen BUSY without having acted on it?
BusySeen == \/ irq = "busy"
            \/ irq \in {"notify", "clear", "unmask"} /\ "BUSY" \in isr

\* The life of a command.  host_pending and a masked BUSY go together, a new
\* command is only seen while the main loop is not working on one, and the
\* number of executed commands follows from where the main loop is.
CommandInv ==
  /\ host_pending => "BUSY" \in IMRD /\ IPCXH = {"BUSY"}
  /\ BusySeen => /\ IPCXH = {"BUSY"} /\ ~host_pending /\ "BUSY" \notin IMRD
  /\ pc \in {"cmd", "finish"} => host_pending
  /\ pc \in {"reply", "imrd_read", "imrd_write"} =>
       ~host_pending /\ "BUSY" \in IMRD
  /\ pc = "reply" => IPCXH = {"BUSY"}
  /\ Len(executed) = IF IPCXH = {"BUSY"} /\ pc \notin {"finish", "reply"}
                     THEN sent - 1 ELSE sent
  /\ IPCXH = {"BUSY"} => sent >= 1
  /\ \A i \in 1 .. Len(executed) : executed[i] = i

IpcInv == /\ TypeOK /\ DoorbellInv /\ MsgConserved /\ PoolCount
          /\ CommandInv /\ PendingCoversQueue

PoolInv == MsgConserved /\ PoolCount /\ PendingCoversQueue

\* A step that leaves the lists alone and neither starts nor ends a flight
\* keeps the pool accounted for.
LEMMA PoolUntouched ==
  ASSUME PoolInv, UNCHANGED listVars, InFlight' = InFlight,
         dsp_pending' = dsp_pending
  PROVE  PoolInv'
BY DEF PoolInv, MsgConserved, PoolCount, PendingCoversQueue, listVars, SeqSet,
       NoRepeat

\* The invariant holds after platform_ipc_init().
LEMMA IpcInvInit == Init => IpcInv
<1> SUFFICES ASSUME Init PROVE IpcInv
  OBVIOUS
<1> USE IpcConstants DEF Init
<1>1. /\ empty_list \in Seq(Msgs) /\ Len(empty_list) = MSG_QUEUE_SIZE
      /\ \A i \in 1 .. MSG_QUEUE_SIZE : empty_list[i] = MSG_QUEUE_SIZE - i
      /\ msg_list \in Seq(Msgs) /\ Len(msg_list) = 0
  BY DEF Msgs
<1>2. TypeOK
  <2>1. executed \in Seq(Nat) /\ got \in Seq(Nat) /\ tx_data \in [Msgs -> Nat]
    OBVIOUS
  <2>2. /\ IPCXH \subseteq {"BUSY", "DONE"} /\ IPCDH \subseteq {"BUSY", "DONE"}
        /\ IMRD \subseteq {"BUSY", "DONE"} /\ imrd \subseteq {"BUSY", "DONE"}
        /\ isr \subseteq {"BUSY", "DONE"}
    OBVIOUS
  <2> QED BY <1>1, <2>1, <2>2 DEF TypeOK, CmdKinds, MainPc, IrqPc
<1>3. SeqSet(msg_list) = {} /\ NoRepeat(msg_list)
  BY <1>1 DEF SeqSet, NoRepeat
<1>4. NoRepeat(empty_list)
  BY <1>1 DEF NoRepeat
<1>5. ASSUME NEW m \in Msgs PROVE m \in SeqSet(empty_list)
  <2>1. MSG_QUEUE_SIZE - m \in 1 .. Len(empty_list)
        /\ empty_list[MSG_QUEUE_SIZE - m] = m
    BY <1>1 DEF Msgs
  <2> QED BY <2>1 DEF SeqSet
<1>6. MsgConserved /\ PoolCount /\ PendingCoversQueue
  BY <1>1, <1>3, <1>4, <1>5
     DEF MsgConserved, PoolCount, PendingCoversQueue, InFlight
<1>7. DoorbellInv /\ CommandInv
  BY DEF DoorbellInv, CommandInv, BusySeen
<1> QED BY <1>2, <1>6, <1>7 DEF IpcInv

\* A step of the main loop preserves the invariant.
LEMMA IpcInvMain == IpcInv /\ Main => IpcInv'
<1> SUFFICES ASSUME IpcInv, Main PROVE IpcInv'
  OBVIOUS
<1> USE IpcConstants DEF MainStep
<1>0. TypeOK /\ DoorbellInv /\ PoolInv /\ CommandInv
  BY DEF IpcInv, PoolInv
<1> SUFFICES TypeOK' /\ DoorbellInv' /\ PoolInv' /\ CommandInv'
  BY DEF IpcInv, PoolInv
<1>1. CASE WaitForInterrupt \/ CheckHostPending \/ CheckDspPending
  <2> USE <1>1 DEF WaitForInterrupt, CheckHostPending, CheckDspPending, regVars,
               listVars, pendVars, irqVars, histVars
  <2>1. TypeOK' BY <1>0 DEF TypeOK, MainPc
  <2>2. DoorbellInv' BY <1>0 DEF DoorbellInv
  <2>3. PoolInv' BY <1>0, PoolUntouched DEF InFlight
  <2>4. CommandInv' BY <1>0 DEF CommandInv, BusySeen
  <2> QED BY <2>1, <2>2, <2>3, <2>4
<1>2. CASE ipc_cmd
  <2> USE <1>2 DEF ipc_cmd, listVars, pendVars, irqVars
  <2>1. TypeOK' BY <1>0 DEF TypeOK, MainPc
  <2>2. DoorbellInv' BY <1>0 DEF DoorbellInv
  <2>3. PoolInv' BY <1>0, PoolUntouched DEF InFlight
  <2>4. IPCXH = {"BUSY"} /\ host_pending /\ Len(executed) = sent - 1
    BY <1>0 DEF CommandInv
  <2>5. /\ Len(executed') = sent
        /\ \A i \in 1 .. Len(executed') : executed'[i] = i
    BY <1>0, <2>4 DEF TypeOK, CommandInv
  <2>6. CommandInv' BY <1>0, <2>4, <2>5 DEF CommandInv, BusySeen
  <2> QED BY <2>1, <2>2, <2>3, <2>6
<1>3. CASE FinishCmd \/ ReadImrd
  <2> USE <1>3 DEF FinishCmd, ReadImrd, regVars, listVars, pendVars,
               irqVars, histVars
  <2>1. TypeOK' BY <1>0 DEF TypeOK, MainPc
  <2>2. DoorbellInv' BY <1>0 DEF DoorbellInv
  <2>3. PoolInv' BY <1>0, PoolUntouched DEF InFlight
  <2>4. CommandInv' BY <1>0 DEF CommandInv, BusySeen
  <2> QED BY <2>1, <2>2, <2>3, <2>4
<1>4. CASE ReplyDone
  <2> USE <1>4 DEF ReplyDone, listVars, pendVars, irqVars, histVars
  <2>0. IPCXH = {"BUSY"} /\ IPCXH' = {"DONE"} /\ irq = "idle" /\ irq' = "idle"
    BY <1>0 DEF CommandInv
  <2>1. TypeOK' BY <1>0, <2>0 DEF TypeOK, MainPc
  <2>2. DoorbellInv' BY <1>0, <2>0 DEF DoorbellInv
  <2>3. PoolInv' BY <1>0, PoolUntouched DEF InFlight
  <2>4. CommandInv' BY <1>0, <2>0 DEF CommandInv, BusySeen
  <2> QED BY <2>1, <2>2, <2>3, <2>4
<1>5. CASE UnmaskBusy
  <2> USE <1>5 DEF UnmaskBusy, listVars, pendVars, irqVars, histVars
  <2>1. TypeOK' BY <1>0 DEF TypeOK, MainPc
  <2>2. DoorbellInv' BY <1>0 DEF DoorbellInv
  <2>3. PoolInv' BY <1>0, PoolUntouched DEF InFlight
  <2>4. CommandInv' BY <1>0 DEF CommandInv, BusySeen
  <2> QED BY <2>1, <2>2, <2>3, <2>4
<1>6. CASE ipc_platform_send_msg
  <2> USE <1>6 DEF ipc_platform_send_msg, irqVars, histVars
  <2>1. CASE SendNothing
    <3> USE <2>1 DEF SendNothing, listVars
    <3>1. TypeOK' BY <1>0 DEF TypeOK, MainPc
    <3>2. DoorbellInv' BY <1>0 DEF DoorbellInv
    <3>3. PoolInv'
      BY <1>0 DEF PoolInv, MsgConserved, PoolCount, PendingCoversQueue, SeqSet,
                  NoRepeat, InFlight
    <3>4. CommandInv' BY <1>0 DEF CommandInv, BusySeen
    <3> QED BY <3>1, <3>2, <3>3, <3>4
  <2>2. CASE SendLater
    <3> USE <2>2 DEF SendLater, listVars
    <3>1. TypeOK' BY <1>0 DEF TypeOK, MainPc
    <3>2. DoorbellInv' BY <1>0 DEF DoorbellInv
    <3>3. PoolInv' BY <1>0, PoolUntouched DEF InFlight
    <3>4. CommandInv' BY <1>0 DEF CommandInv, BusySeen
    <3> QED BY <3>1, <3>2, <3>3, <3>4
  <2>3. CASE SendHead
    <3> USE <2>3 DEF SendHead
    <3>0. /\ msg_list \in Seq(Msgs) /\ msg_list # <<>> /\ empty_list \in Seq(Msgs)
          /\ Head(msg_list) \in Msgs /\ Tail(msg_list) \in Seq(Msgs)
          /\ Len(msg_list) = Len(Tail(msg_list)) + 1
          /\ SeqSet(msg_list) = SeqSet(Tail(msg_list)) \cup {Head(msg_list)}
          /\ NoRepeat(Tail(msg_list))
          /\ Head(msg_list) \notin SeqSet(Tail(msg_list))
      BY <1>0, HeadTailFacts DEF TypeOK, PoolInv, MsgConserved
    <3>1. TypeOK' BY <1>0, <3>0 DEF TypeOK, MainPc
    <3>2. DoorbellInv' BY <1>0, <3>0 DEF DoorbellInv
    <3>3. ~InFlight /\ InFlight'
      BY <3>0 DEF InFlight
    <3>4. MsgConserved'
      BY <1>0, <3>0, <3>3 DEF PoolInv, MsgConserved
    <3>5. PoolCount' /\ PendingCoversQueue'
      BY <1>0, <3>0, <3>3 DEF TypeOK, PoolInv, PoolCount, PendingCoversQueue
    <3>6. CommandInv' BY <1>0 DEF CommandInv, BusySeen
    <3> QED BY <3>1, <3>2, <3>4, <3>5, <3>6 DEF PoolInv
  <2> QED BY <2>1, <2>2, <2>3
<1> QED BY <1>1, <1>2, <1>3, <1>4, <1>5, <1>6 DEF Main

\* A step of irq_handler() preserves the invariant.
LEMMA IpcInvIrq == IpcInv /\ IrqHandler => IpcInv'
<1> SUFFICES ASSUME IpcInv, IrqHandler PROVE IpcInv'
  OBVIOUS
<1> USE IpcConstants
<1>0. TypeOK /\ DoorbellInv /\ PoolInv /\ CommandInv
  BY DEF IpcInv, PoolInv
<1> SUFFICES TypeOK' /\ DoorbellInv' /\ PoolInv' /\ CommandInv'
  BY DEF IpcInv, PoolInv
<1>1. CASE EnterIrq
  <2> USE <1>1 DEF EnterIrq, WakeMain, regVars, listVars, pendVars,
               histVars
  <2>a. /\ isr' \subseteq {"BUSY", "DONE"} /\ isr' # {}
        /\ "DONE" \in isr' => "DONE" \in IPCDH
        /\ "BUSY" \in isr' => "BUSY" \in IPCXH /\ "BUSY" \notin IMRD
    BY DEF ISRD
  <2>b. \/ irq' = "notify" /\ "DONE" \in isr'
        \/ irq' = "busy" /\ "BUSY" \in isr'
    BY <2>a
  <2>0. /\ isr' \subseteq {"BUSY", "DONE"} /\ isr' # {}
        /\ "DONE" \in isr' => "DONE" \in IPCDH
        /\ "BUSY" \in isr' => "BUSY" \in IPCXH /\ "BUSY" \notin IMRD
        /\ \/ irq' = "notify" /\ "DONE" \in isr'
           \/ irq' = "busy" /\ "BUSY" \in isr'
    BY <2>a, <2>b
  <2>1. TypeOK' BY <1>0, <2>0 DEF TypeOK, MainPc, IrqPc
  <2>2. DoorbellInv' BY <1>0, <2>0 DEF DoorbellInv
  <2>3. PoolInv' BY <1>0, <2>0, PoolUntouched DEF InFlight
  <2>4. CommandInv'
    BY <1>0, <2>0 DEF CommandInv, BusySeen, DoorbellInv
  <2> QED BY <2>1, <2>2, <2>3, <2>4
<1>2. CASE NotifyReturnMsg
  <2> USE <1>2 DEF NotifyReturnMsg, pendVars, mainVars, histVars
  <2>0. /\ IPCDH = {"DONE"} /\ dsp_msg \in Msgs /\ InFlight /\ ~InFlight'
        /\ empty_list' = Append(empty_list, dsp_msg)
        /\ empty_list \in Seq(Msgs) /\ msg_list \in Seq(Msgs)
    BY <1>0 DEF DoorbellInv, InFlight, TypeOK
  <2>1. dsp_msg \notin SeqSet(empty_list) /\ dsp_msg \notin SeqSet(msg_list)
        /\ NoRepeat(empty_list)
    BY <1>0, <2>0 DEF PoolInv, MsgConserved
  <2>2. /\ empty_list' \in Seq(Msgs) /\ Len(empty_list') = Len(empty_list) + 1
        /\ SeqSet(empty_list') = SeqSet(empty_list) \cup {dsp_msg}
        /\ NoRepeat(empty_list')
    BY <2>0, <2>1, AppendFacts
  <2>3. TypeOK' BY <1>0, <2>2 DEF TypeOK, IrqPc
  <2>4. DoorbellInv' BY <1>0, <2>0 DEF DoorbellInv
  <2>5. MsgConserved'
    BY <1>0, <2>0, <2>1, <2>2 DEF PoolInv, MsgConserved
  <2>6. PoolCount' /\ PendingCoversQueue'
    BY <1>0, <2>0, <2>2 DEF TypeOK, PoolInv, PoolCount, PendingCoversQueue
  <2>7. CommandInv' BY <1>0 DEF CommandInv, BusySeen
  <2> QED BY <2>3, <2>4, <2>5, <2>6, <2>7 DEF PoolInv
<1>3. CASE NotifyClearDone
  <2> USE <1>3 DEF NotifyClearDone, listVars, pendVars, mainVars,
               histVars
  <2>0. IPCDH = {"DONE"} /\ IPCDH' = {}
    BY <1>0 DEF DoorbellInv
  <2>1. TypeOK' BY <1>0, <2>0 DEF TypeOK, IrqPc
  <2>2. DoorbellInv' BY <1>0, <2>0 DEF DoorbellInv
  <2>3. PoolInv' BY <1>0, <2>0, PoolUntouched DEF InFlight
  <2>4. CommandInv' BY <1>0 DEF CommandInv, BusySeen
  <2> QED BY <2>1, <2>2, <2>3, <2>4
<1>4. CASE NotifyUnmaskDone \/ TakeCommand
  <2> USE <1>4 DEF NotifyUnmaskDone, TakeCommand, listVars, pendVars,
               mainVars, histVars
  <2>1. TypeOK' BY <1>0 DEF TypeOK, IrqPc
  <2>2. DoorbellInv' BY <1>0 DEF DoorbellInv
  <2>3. PoolInv' BY <1>0, PoolUntouched DEF InFlight
  <2>4. CommandInv' BY <1>0 DEF CommandInv, BusySeen
  <2> QED BY <2>1, <2>2, <2>3, <2>4
<1> QED BY <1>1, <1>2, <1>3, <1>4 DEF IrqHandler

\* A DMA interrupt preserves the invariant, whatever it interrupts.
LEMMA IpcInvDma == IpcInv /\ (DmaNotify \/ DmaTick) => IpcInv'
<1> SUFFICES ASSUME IpcInv, DmaNotify \/ DmaTick PROVE IpcInv'
  OBVIOUS
<1> USE IpcConstants DEF WakeMain
<1>0. TypeOK /\ DoorbellInv /\ PoolInv /\ CommandInv
  BY DEF IpcInv, PoolInv
<1> SUFFICES TypeOK' /\ DoorbellInv' /\ PoolInv' /\ CommandInv'
  BY DEF IpcInv, PoolInv
<1>1. CASE DmaTick
  <2> USE <1>1 DEF DmaTick, regVars, listVars, pendVars, irqVars,
               histVars
  <2>1. TypeOK' BY <1>0 DEF TypeOK, MainPc
  <2>2. DoorbellInv' BY <1>0 DEF DoorbellInv
  <2>3. PoolInv' BY <1>0, PoolUntouched DEF InFlight
  <2>4. CommandInv' BY <1>0 DEF CommandInv, BusySeen
  <2> QED BY <2>1, <2>2, <2>3, <2>4
<1>2. CASE DmaNotify /\ empty_list = <<>>
  <2> USE <1>2 DEF DmaNotify, ipc_queue_host_message, regVars,
               listVars, irqVars
  <2>1. TypeOK' BY <1>0 DEF TypeOK, MainPc
  <2>2. DoorbellInv' BY <1>0 DEF DoorbellInv
  <2>3. PoolInv' BY <1>0, PoolUntouched DEF InFlight
  <2>4. CommandInv' BY <1>0 DEF CommandInv, BusySeen
  <2> QED BY <2>1, <2>2, <2>3, <2>4
<1>3. CASE DmaNotify /\ empty_list # <<>>
  <2>a. /\ empty_list # <<>>
        /\ empty_list' = Tail(empty_list)
        /\ msg_list' = Append(msg_list, Head(empty_list))
        /\ tx_data' = [tx_data EXCEPT ![Head(empty_list)] = posn + 1]
        /\ dsp_pending' = TRUE /\ dsp_msg' = dsp_msg /\ posn' = posn + 1
        /\ pc' = IF pc = "waiti" THEN "host" ELSE pc
        /\ UNCHANGED <<regVars, inbox, host_pending, imrd, irqVars, sent,
                       executed, got>>
    BY <1>3 DEF DmaNotify, ipc_queue_host_message
  <2> USE <2>a DEF regVars, irqVars
  <2>0. /\ empty_list \in Seq(Msgs) /\ msg_list \in Seq(Msgs)
        /\ Head(empty_list) \in Msgs /\ Tail(empty_list) \in Seq(Msgs)
        /\ Len(empty_list) = Len(Tail(empty_list)) + 1
        /\ SeqSet(empty_list) = SeqSet(Tail(empty_list)) \cup {Head(empty_list)}
        /\ NoRepeat(Tail(empty_list))
        /\ Head(empty_list) \notin SeqSet(Tail(empty_list))
    BY <1>0, HeadTailFacts DEF TypeOK, PoolInv, MsgConserved
  <2>1. /\ Head(empty_list) \notin SeqSet(msg_list) /\ NoRepeat(msg_list)
        /\ InFlight => dsp_msg # Head(empty_list)
    BY <1>0, <2>0 DEF PoolInv, MsgConserved
  <2>2. /\ msg_list' \in Seq(Msgs) /\ Len(msg_list') = Len(msg_list) + 1
        /\ SeqSet(msg_list') = SeqSet(msg_list) \cup {Head(empty_list)}
        /\ NoRepeat(msg_list')
    BY <2>0, <2>1, AppendFacts
  <2>3. TypeOK' BY <1>0, <2>0, <2>2 DEF TypeOK, MainPc
  <2>4. DoorbellInv' BY <1>0 DEF DoorbellInv
  <2>5. InFlight' = InFlight BY DEF InFlight
  <2>6. MsgConserved'
    BY <1>0, <2>0, <2>1, <2>2, <2>5 DEF PoolInv, MsgConserved
  <2>7. PoolCount'
    <3>1. Len(empty_list') + Len(msg_list') = Len(empty_list) + Len(msg_list)
      BY <2>0, <2>2
    <3> QED BY <1>0, <2>5, <3>1 DEF PoolInv, PoolCount
  <2>8. PendingCoversQueue'
    BY DEF PendingCoversQueue
  <2>9. CommandInv' BY <1>0 DEF CommandInv, BusySeen
  <2> QED BY <2>3, <2>4, <2>6, <2>7, <2>8, <2>9 DEF PoolInv
<1> QED BY <1>1, <1>2, <1>3

\* A step of the host driver preserves the invariant.
LEMMA IpcInvHost ==
  IpcInv /\ (HostSend \/ HostReadReply \/ HostTakeMsg) => IpcInv'
<1> SUFFICES ASSUME IpcInv, HostSend \/ HostReadReply \/ HostTakeMsg
             PROVE  IpcInv'
  OBVIOUS
<1> USE IpcConstants
<1>0. TypeOK /\ DoorbellInv /\ PoolInv /\ CommandInv
  BY DEF IpcInv, PoolInv
<1> SUFFICES TypeOK' /\ DoorbellInv' /\ PoolInv' /\ CommandInv'
  BY DEF IpcInv, PoolInv
<1>1. CASE HostSend
  <2> USE <1>1 DEF HostSend, listVars, pendVars, mainVars, irqVars
  <2>1. TypeOK' BY <1>0 DEF TypeOK
  <2>2. DoorbellInv' BY <1>0 DEF DoorbellInv
  <2>3. PoolInv' BY <1>0, PoolUntouched DEF InFlight
  <2>4. CommandInv' BY <1>0 DEF CommandInv, BusySeen, TypeOK
  <2> QED BY <2>1, <2>2, <2>3, <2>4
<1>2. CASE HostReadReply
  <2> USE <1>2 DEF HostReadReply, listVars, pendVars, mainVars,
               irqVars, histVars
  <2>0. IPCXH = {"DONE"} /\ IPCXH' = {}
    BY <1>0 DEF DoorbellInv
  <2>1. TypeOK' BY <1>0, <2>0 DEF TypeOK
  <2>2. DoorbellInv' BY <1>0, <2>0 DEF DoorbellInv
  <2>3. PoolInv' BY <1>0, PoolUntouched DEF InFlight
  <2>4. CommandInv' BY <1>0, <2>0 DEF CommandInv, BusySeen
  <2> QED BY <2>1, <2>2, <2>3, <2>4
<1>3. CASE HostTakeMsg
  <2> USE <1>3 DEF HostTakeMsg, listVars, pendVars, mainVars, irqVars
  <2>0. IPCDH = {"BUSY"} /\ dsp_msg \in Msgs
    BY <1>0 DEF DoorbellInv, TypeOK
  <2>1. TypeOK' BY <1>0, <2>0 DEF TypeOK
  <2>2. DoorbellInv' BY <1>0, <2>0 DEF DoorbellInv
  <2>3. PoolInv' BY <1>0, <2>0, PoolUntouched DEF InFlight
  <2>4. CommandInv' BY <1>0 DEF CommandInv, BusySeen
  <2> QED BY <2>1, <2>2, <2>3, <2>4
<1> QED BY <1>1, <1>2, <1>3

\* The invariant is inductive: every context may take the next step.
THEOREM IpcInvariant == Spec => []IpcInv
<1>1. Init => IpcInv
  BY IpcInvInit
<1>2. IpcInv /\ [Next]_vars => IpcInv'
  <2>1. IpcInv /\ UNCHANGED vars => IpcInv'
    <3> SUFFICES ASSUME IpcInv, UNCHANGED vars PROVE IpcInv'
      OBVIOUS
    <3> USE DEF vars, regVars, listVars, pendVars, mainVars, irqVars,
                histVars
    <3>1. TypeOK' BY DEF IpcInv, TypeOK
    <3>2. DoorbellInv' BY DEF IpcInv, DoorbellInv
    <3>3. PoolInv' BY PoolUntouched DEF IpcInv, PoolInv, InFlight
    <3>4. CommandInv' BY DEF IpcInv, CommandInv, BusySeen
    <3> QED BY <3>1, <3>2, <3>3, <3>4 DEF IpcInv, PoolInv
  <2> QED BY <2>1, IpcInvMain, IpcInvIrq, IpcInvDma, IpcInvHost DEF Next
<1> QED BY <1>1, <1>2, PTL DEF Spec

\* Type correctness of the mailbox state.
THEOREM TypeCorrect == Spec => []TypeOK
BY IpcInvariant, PTL DEF IpcInv

\* The message pool never loses or duplicates a buffer, for any pool size.
THEOREM PoolConserved == Spec => []MsgConserved
BY IpcInvariant, PTL DEF IpcInv

\* Every host command is run exactly once, in order, before DONE is set.
THEOREM CommandsRunOnce == Spec => []CommandOnce
<1>1. IpcInv => CommandOnce
  BY DEF IpcInv, TypeOK, DoorbellInv, CommandInv, CommandOnce
<1> QED BY <1>1, IpcInvariant, PTL

\* The handler never overwrites a pending command.
THEOREM CommandNotOverwritten == Spec => []NoOverwrite
<1>1. IpcInv => NoOverwrite
  BY DEF IpcInv, CommandInv, BusySeen, NoOverwrite
<1> QED BY <1>1, IpcInvariant, PTL

\* A queued message always has dsp_pending set behind it.
THEOREM QueueCovered == Spec => []PendingCoversQueue
BY IpcInvariant, PTL DEF IpcInv

-----------------------------------------------------------------------------
(* The mailbox implements the abstract channel *)

\* The payloads of a list of messages form a sequence of notifications.
LEMMA TxOfFacts ==
  ASSUME NEW f \in [Msgs -> Nat], NEW s \in Seq(Msgs)
  PROVE  /\ TxOf(f, s) \in Seq(Nat) /\ Len(TxOf(f, s)) = Len(s)
         /\ \A i \in 1 .. Len(s) : TxOf(f, s)[i] = f[s[i]]
BY DEF TxOf

\* Taking the first message takes the first notification.
LEMMA TxOfHead ==
  ASSUME NEW f \in [Msgs -> Nat], NEW s \in Seq(Msgs), s # <<>>
  PROVE  TxOf(f, s) = <<f[Head(s)]>> \o TxOf(f, Tail(s))
<1> DEFINE t == <<f[Head(s)]>>
           r == TxOf(f, Tail(s))
<1>1. /\ Head(s) \in Msgs /\ Tail(s) \in Seq(Msgs) /\ Len(s) \in Nat
      /\ Len(s) = Len(Tail(s)) + 1 /\ Head(s) = s[1]
      /\ \A i \in 1 .. Len(Tail(s)) : Tail(s)[i] = s[i + 1]
  OBVIOUS
<1>2. /\ TxOf(f, s) \in Seq(Nat) /\ Len(TxOf(f, s)) = Len(s)
      /\ \A i \in 1 .. Len(s) : TxOf(f, s)[i] = f[s[i]]
  BY TxOfFacts
<1>3. /\ r \in Seq(Nat) /\ Len(r) = Len(Tail(s))
      /\ \A i \in 1 .. Len(Tail(s)) : r[i] = f[Tail(s)[i]]
  BY <1>1, TxOfFacts
<1>4. t \in Seq(Nat) /\ Len(t) = 1 /\ t[1] = f[s[1]]
  BY <1>1
<1> HIDE DEF t, r
<1>5. /\ t \o r \in Seq(Nat) /\ Len(t \o r) = Len(s)
      /\ \A i \in 1 .. Len(s) : (t \o r)[i] = IF i <= 1 THEN t[i] ELSE r[i - 1]
  <2>1. /\ t \o r \in Seq(Nat)
        /\ Len(t \o r) = Len(t) + Len(r)
        /\ \A i \in 1 .. Len(t) + Len(r) :
             (t \o r)[i] = IF i <= Len(t) THEN t[i] ELSE r[i - Len(t)]
    <3>1. t \in Seq(Nat) /\ r \in Seq(Nat)
      BY <1>3, <1>4
    <3> QED BY ONLY <3>1, ConcatProperties
  <2>2. Len(t) = 1 /\ Len(t) + Len(r) = Len(s)
    BY <1>1, <1>3, <1>4
  <2> QED BY <2>1, <2>2
<1>6. ASSUME NEW i \in 1 .. Len(s) PROVE TxOf(f, s)[i] = (t \o r)[i]
  <2>1. CASE i = 1
    <3>1. (t \o r)[1] = IF 1 <= 1 THEN t[1] ELSE r[1 - 1] BY <2>1, <1>5
    <3>2. TxOf(f, s)[1] = f[s[1]] BY <2>1, <1>2
    <3> QED BY <2>1, <3>1, <3>2, <1>4
  <2>2. CASE i # 1
    <3>1. i - 1 \in 1 .. Len(Tail(s)) /\ Tail(s)[i - 1] = s[i] /\ ~(i <= 1)
      BY <2>2, <1>1
    <3> QED BY <3>1, <1>2, <1>3, <1>5
  <2> QED BY <2>1, <2>2
<1>7. TxOf(f, s) = t \o r
  BY <1>2, <1>5, <1>6, SeqEqual
<1> QED BY <1>7 DEF t, r

\* Queueing a message appends its notification; filling a buffer that is not
\* on the list leaves the queued notifications alone.
LEMMA TxOfAppend ==
  ASSUME NEW f \in [Msgs -> Nat], NEW s \in Seq(Msgs), NEW m \in Msgs,
         NEW n \in Nat, m \notin SeqSet(s)
  PROVE  TxOf([f EXCEPT ![m] = n], Append(s, m)) = Append(TxOf(f, s), n)
<1> DEFINE g == [f EXCEPT ![m] = n]
           a == TxOf(g, Append(s, m))
           b == Append(TxOf(f, s), n)
<1>1. g \in [Msgs -> Nat] /\ g[m] = n /\ \A k \in Msgs \ {m} : g[k] = f[k]
  OBVIOUS
<1>2. /\ Append(s, m) \in Seq(Msgs) /\ Len(Append(s, m)) = Len(s) + 1
      /\ \A i \in 1 .. Len(s) : Append(s, m)[i] = s[i] /\ s[i] \in Msgs \ {m}
      /\ Append(s, m)[Len(s) + 1] = m /\ Len(s) \in Nat
  BY DEF SeqSet
<1>3. /\ TxOf(f, s) \in Seq(Nat) /\ Len(TxOf(f, s)) = Len(s)
      /\ \A i \in 1 .. Len(s) : TxOf(f, s)[i] = f[s[i]]
  BY TxOfFacts
<1>4. /\ b \in Seq(Nat) /\ Len(b) = Len(s) + 1 /\ b[Len(s) + 1] = n
      /\ \A i \in 1 .. Len(s) : b[i] = f[s[i]]
  BY <1>3, AppendProperties
<1> HIDE DEF g
<1>5. /\ a \in Seq(Nat) /\ Len(a) = Len(s) + 1
      /\ \A i \in 1 .. Len(s) + 1 : a[i] = g[Append(s, m)[i]]
  <2>1. /\ a \in Seq(Nat) /\ Len(a) = Len(Append(s, m))
        /\ \A i \in 1 .. Len(Append(s, m)) : a[i] = g[Append(s, m)[i]]
    BY <1>1, <1>2, TxOfFacts
  <2>2. Len(Append(s, m)) = Len(s) + 1
    BY <1>2
  <2> QED BY <2>1, <2>2
<1> HIDE DEF a, b
<1>6. ASSUME NEW i \in 1 .. Len(s) + 1 PROVE a[i] = b[i]
  <2>1. CASE i = Len(s) + 1 BY <2>1, <1>1, <1>2, <1>4, <1>5
  <2>2. CASE i # Len(s) + 1
    <3>1. i \in 1 .. Len(s) BY <2>2, <1>2
    <3>2. Append(s, m)[i] = s[i] /\ g[s[i]] = f[s[i]]
      BY <3>1, <1>1, <1>2
    <3>3. a[i] = g[Append(s, m)[i]] BY <1>5
    <3>4. b[i] = f[s[i]] BY <3>1, <1>4
    <3> QED BY <3>2, <3>3, <3>4
  <2> QED BY <2>1, <2>2
<1>7. a = b BY <1>4, <1>5, <1>6, SeqEqual
<1> QED BY <1>7 DEF a, b, g

\* Prefixing a non-empty head commutes with appending.
LEMMA PrefixAppend ==
  ASSUME NEW x \in Nat, NEW s \in Seq(Nat), NEW n \in Nat
  PROVE  /\ <<x>> \o Append(s, n) = Append(<<x>> \o s, n)
         /\ <<x>> \o s \in Seq(Nat) /\ <<x>> \o s # <<>>
         /\ Len(<<x>> \o s) = Len(s) + 1
         /\ Head(<<x>> \o s) = x /\ Tail(<<x>> \o s) = s
OBVIOUS

\* What the invariant says of the abstract queue: the payloads of the waiting
\* messages, preceded by the one the host has not taken yet.
LEMMA ChanQueueFacts ==
  ASSUME IpcInv
  PROVE  /\ TxOf(tx_data, msg_list) \in Seq(Nat)
         /\ Len(TxOf(tx_data, msg_list)) = Len(msg_list)
         /\ "BUSY" \in IPCDH => tx_data[dsp_msg] \in Nat
         /\ Len(ChanQueue) = Len(msg_list) + (IF "BUSY" \in IPCDH THEN 1 ELSE 0)
<1>1. tx_data \in [Msgs -> Nat] /\ msg_list \in Seq(Msgs)
  BY DEF IpcInv, TypeOK
<1>2. /\ TxOf(tx_data, msg_list) \in Seq(Nat)
      /\ Len(TxOf(tx_data, msg_list)) = Len(msg_list)
  BY <1>1, TxOfFacts
<1>3. "BUSY" \in IPCDH => tx_data[dsp_msg] \in Nat
  BY DEF IpcInv, TypeOK, DoorbellInv
<1>4. CASE "BUSY" \in IPCDH
  BY <1>2, <1>3, <1>4, PrefixAppend DEF ChanQueue
<1>5. CASE "BUSY" \notin IPCDH
  BY <1>2, <1>5 DEF ChanQueue
<1> QED BY <1>2, <1>3, <1>4, <1>5

\* The mailbox implements the bounded FIFO of IpcChannel: an accepted
\* notification is delivered to the host exactly once and in order, and one is
\* refused only when at most one message buffer is unused.
THEOREM MailboxImplementsChannel == Spec => ChannelFifo
<1>1. Init => Chan!Init
  BY DEF Init, Chan!Init, ChanQueue, TxOf
<1>2. IpcInv /\ [Next]_vars => [Chan!Next]_(Chan!chanVars)
  <2> SUFFICES ASSUME IpcInv, [Next]_vars
               PROVE  Chan!Next \/ UNCHANGED Chan!chanVars
    OBVIOUS
  <2> USE IpcConstants
  <2>0. /\ tx_data \in [Msgs -> Nat] /\ msg_list \in Seq(Msgs)
        /\ empty_list \in Seq(Msgs) /\ posn \in Nat
        /\ DoorbellInv /\ MsgConserved /\ PoolCount
    BY DEF IpcInv, TypeOK
  <2>1. ASSUME UNCHANGED <<dsp_msg, msg_list, tx_data, posn, got>>,
               "BUSY" \in IPCDH' <=> "BUSY" \in IPCDH
        PROVE  UNCHANGED Chan!chanVars
    BY <2>1 DEF Chan!chanVars, ChanQueue, TxOf
  <2>2. CASE SendHead /\ ipc_platform_send_msg
    <3>1. /\ msg_list # <<>> /\ IPCDH = {} /\ IPCDH' = {"BUSY"}
          /\ dsp_msg' = Head(msg_list) /\ msg_list' = Tail(msg_list)
          /\ tx_data' = tx_data /\ posn' = posn /\ got' = got
      BY <2>2 DEF SendHead, ipc_platform_send_msg, histVars
    <3>2. ChanQueue = TxOf(tx_data, msg_list)
      BY <3>1 DEF ChanQueue
    <3>3. ChanQueue' = <<tx_data[Head(msg_list)]>> \o TxOf(tx_data, Tail(msg_list))
      BY <3>1 DEF ChanQueue
    <3>4. ChanQueue' = ChanQueue
      BY <2>0, <3>1, <3>2, <3>3, TxOfHead
    <3> QED BY <3>1, <3>4 DEF Chan!chanVars
  <2>3. CASE HostTakeMsg
    <3>1. /\ "BUSY" \in IPCDH /\ IPCDH' = {"DONE"} /\ posn' = posn
          /\ got' = Append(got, tx_data[dsp_msg])
          /\ UNCHANGED <<dsp_msg, msg_list, tx_data>>
      BY <2>3 DEF HostTakeMsg, listVars
    <3>2. ChanQueue = <<tx_data[dsp_msg]>> \o TxOf(tx_data, msg_list)
      BY <3>1 DEF ChanQueue
    <3>3. ChanQueue' = TxOf(tx_data, msg_list)
      BY <3>1 DEF ChanQueue
    <3>4. /\ ChanQueue # <<>> /\ Head(ChanQueue) = tx_data[dsp_msg]
          /\ Tail(ChanQueue) = ChanQueue'
      BY <3>1, <3>2, <3>3, ChanQueueFacts, PrefixAppend
    <3> QED BY <3>1, <3>4 DEF Chan!Next, Chan!Deliver
  <2>4. CASE DmaNotify /\ empty_list = <<>>
    <3>1. /\ posn' = posn + 1 /\ got' = got
          /\ UNCHANGED <<dsp_msg, msg_list, tx_data, IPCDH>>
      BY <2>4 DEF DmaNotify, ipc_queue_host_message, listVars, regVars
    <3>2. ChanQueue' = ChanQueue
      BY <3>1 DEF ChanQueue, TxOf
    <3>3. Len(msg_list) + (IF InFlight THEN 1 ELSE 0) = MSG_QUEUE_SIZE
      BY <2>0, <2>4 DEF PoolCount
    <3>4. Len(ChanQueue) + 1 >= MSG_QUEUE_SIZE
      BY <2>0, <3>3, ChanQueueFacts DEF InFlight
    <3> QED BY <3>1, <3>2, <3>4 DEF Chan!Next, Chan!Refuse
  <2>5. CASE DmaNotify /\ empty_list # <<>>
    <3> DEFINE m == Head(empty_list)
    <3>1. /\ posn' = posn + 1 /\ got' = got /\ dsp_msg' = dsp_msg
          /\ IPCDH' = IPCDH /\ msg_list' = Append(msg_list, m)
          /\ tx_data' = [tx_data EXCEPT ![m] = posn + 1]
      BY <2>5 DEF DmaNotify, ipc_queue_host_message, regVars
    <3>2. m \in Msgs /\ m \in SeqSet(empty_list) /\ Len(empty_list) >= 1
      BY <2>0, <2>5, HeadTailFacts
    <3>3. /\ m \notin SeqSet(msg_list)
          /\ "BUSY" \in IPCDH => dsp_msg # m /\ dsp_msg \in Msgs /\ InFlight
      BY <2>0, <3>2 DEF MsgConserved, InFlight, DoorbellInv, IpcInv, TypeOK
    <3>4. TxOf(tx_data', msg_list') = Append(TxOf(tx_data, msg_list), posn + 1)
      <4>1. posn + 1 \in Nat BY <2>0
      <4>2. TxOf([tx_data EXCEPT ![m] = posn + 1], Append(msg_list, m))
              = Append(TxOf(tx_data, msg_list), posn + 1)
        BY ONLY <2>0, <3>2, <3>3, <4>1, TxOfAppend
      <4> QED BY ONLY <4>2, <3>1
    <3>5. ChanQueue' = Append(ChanQueue, posn + 1)
      <4>1. CASE "BUSY" \in IPCDH
        <5>1. tx_data'[dsp_msg'] = tx_data[dsp_msg]
          BY <4>1, <2>0, <3>1, <3>3
        <5>2. ChanQueue' = <<tx_data[dsp_msg]>> \o
                             Append(TxOf(tx_data, msg_list), posn + 1)
          BY <4>1, <5>1, <3>1, <3>4 DEF ChanQueue
        <5>3. /\ tx_data[dsp_msg] \in Nat /\ posn + 1 \in Nat
              /\ TxOf(tx_data, msg_list) \in Seq(Nat)
          BY <4>1, <2>0, ChanQueueFacts
        <5>4. ChanQueue = <<tx_data[dsp_msg]>> \o TxOf(tx_data, msg_list)
          BY <4>1 DEF ChanQueue
        <5> QED BY ONLY <5>2, <5>3, <5>4, PrefixAppend
      <4>2. CASE "BUSY" \notin IPCDH
        BY <4>2, <3>1, <3>4 DEF ChanQueue
      <4> QED BY <4>1, <4>2
    <3>6. Len(ChanQueue) < MSG_QUEUE_SIZE
      BY <2>0, <3>2, <3>3, ChanQueueFacts DEF PoolCount
    <3> QED BY <3>1, <3>5, <3>6 DEF Chan!Next, Chan!Accept
  <2>6. CASE EnterIrq \/ NotifyReturnMsg \/ NotifyClearDone \/ NotifyUnmaskDone
             \/ TakeCommand
    <3>1. "BUSY" \in IPCDH' <=> "BUSY" \in IPCDH
      BY <2>6 DEF EnterIrq, NotifyReturnMsg, NotifyClearDone, NotifyUnmaskDone,
                  TakeCommand, regVars
    <3>2. UNCHANGED <<dsp_msg, msg_list, tx_data, posn, got>>
      BY <2>6 DEF EnterIrq, NotifyReturnMsg, NotifyClearDone, NotifyUnmaskDone,
                  TakeCommand, listVars, histVars
    <3> QED BY <2>1, <3>1, <3>2
  <2>7. CASE WaitForInterrupt \/ CheckHostPending \/ ipc_cmd \/ FinishCmd
             \/ ReplyDone \/ ReadImrd \/ UnmaskBusy \/ CheckDspPending
    BY <2>1, <2>7 DEF WaitForInterrupt, CheckHostPending, ipc_cmd, FinishCmd,
          ReplyDone, ReadImrd, UnmaskBusy, CheckDspPending, regVars, listVars,
          histVars
  <2>8. CASE ipc_platform_send_msg /\ ~SendHead
    BY <2>1, <2>8 DEF ipc_platform_send_msg, SendNothing, SendLater, listVars,
          histVars
  <2>9. CASE DmaTick \/ HostSend \/ HostReadReply \/ UNCHANGED vars
    BY <2>1, <2>9 DEF DmaTick, HostSend, HostReadReply, vars, regVars, listVars,
          histVars
  <2> QED BY <2>2, <2>3, <2>4, <2>5, <2>6, <2>7, <2>8, <2>9
          DEF Next, Main, IrqHandler
<1> QED BY <1>1, <1>2, IpcInvariant, PTL DEF Spec, ChannelFifo, Chan!Spec
=============================================================================
