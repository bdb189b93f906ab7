----------------------------- MODULE IpcMailbox -----------------------------
(***************************************************************************)
(* The Baytrail host mailbox: the doorbell registers of the SHIM, the IPC  *)
(* interrupt handler, the DSP main loop that executes host commands and    *)
(* sends queued notifications, and the message pool that stream DMA        *)
(* interrupts take notifications from.                                     *)
(*                                                                         *)
(*   src/ipc/byt-ipc.c, src/ipc/intel-ipc.c (queue and command dispatch),  *)
(*   src/tasks/audio.c (main loop)                                         *)
(*                                                                         *)
(* Three contexts interleave.  The main loop is preempted by the IPC       *)
(* interrupt (level 4), which is preempted by DMA interrupts (level 5).    *)
(* spin_lock_irq raises the level to 5, so what it brackets is one step.   *)
(* The host runs truly in parallel with all of them.                       *)
(***************************************************************************)
EXTENDS Naturals, Sequences, FiniteSets

CONSTANTS MSG_QUEUE_SIZE,   \* messages in the pool
          NULL,             \* null message pointer
          Kinds,            \* kinds of command the host sends
          Streaming,        \* do stream DMA interrupts occur?
          HostPos,          \* is hd->host_pos set?  No code sets it so far
          MaxCmds,          \* bound: commands the host sends
          MaxPosn           \* bound: notifications raised by the DMA callback

Msgs == 0 .. MSG_QUEUE_SIZE - 1

\* "save": PM_CTX_SAVE, which masks every DSP interrupt; "plain": any other.
CmdKinds == {"plain", "save"}

ASSUME IpcConstants ==
  /\ MSG_QUEUE_SIZE \in Nat \ {0}
  /\ NULL \notin Msgs
  /\ Kinds \subseteq CmdKinds
  /\ Streaming \in BOOLEAN /\ HostPos \in BOOLEAN
  /\ MaxCmds \in Nat
  /\ MaxPosn \in Nat

VARIABLES
  \* registers and shared memory
  IPCXH,        \* host-to-DSP doorbell bits, subset of {"BUSY", "DONE"}
  IPCDH,        \* DSP-to-host doorbell bits
  IMRD,         \* masked sources of the DSP's IPC interrupt
  intenable,    \* does the core take interrupts at all?
  inbox,        \* kind of the command in the inbox
  \* struct ipc
  host_pending, dsp_pending, dsp_msg, msg_list, empty_list,
  tx_data,      \* [Msgs -> number of the notification in the message]
  \* the two DSP contexts that take several steps
  pc,           \* where the main loop is
  imrd,         \* the IMRD value the main loop has read
  irq,          \* where irq_handler is, "idle" when it is not running
  isr,          \* the ISRD value it has read
  \* history
  sent,         \* commands the host has sent
  executed,     \* commands ipc_cmd() has run, oldest first
  posn,         \* notifications raised by the DMA callback
  got           \* notifications the host has taken, oldest first

regVars  == <<IPCXH, IPCDH, IMRD, intenable>>
listVars == <<dsp_msg, msg_list, empty_list, tx_data>>
pendVars == <<host_pending, dsp_pending>>
mainVars == <<pc, imrd>>
irqVars  == <<irq, isr>>
histVars == <<sent, executed, posn, got>>
vars == <<regVars, inbox, listVars, pendVars, mainVars, irqVars, histVars>>

MainPc == {"sleep", "waiti", "host", "cmd", "finish", "reply",
           "imrd_read", "imrd_write", "dsp", "send"}
IrqPc  == {"idle", "notify", "clear", "unmask", "busy"}

TypeOK ==
  /\ IPCXH \subseteq {"BUSY", "DONE"}
  /\ IPCDH \subseteq {"BUSY", "DONE"}
  /\ IMRD \subseteq {"BUSY", "DONE"}
  /\ intenable \in BOOLEAN
  /\ inbox \in CmdKinds
  /\ host_pending \in BOOLEAN /\ dsp_pending \in BOOLEAN
  /\ dsp_msg \in Msgs \cup {NULL}
  /\ msg_list \in Seq(Msgs) /\ empty_list \in Seq(Msgs)
  /\ tx_data \in [Msgs -> Nat]
  /\ pc \in MainPc /\ imrd \subseteq {"BUSY", "DONE"}
  /\ irq \in IrqPc /\ isr \subseteq {"BUSY", "DONE"}
  /\ sent \in Nat /\ executed \in Seq(Nat)
  /\ posn \in Nat /\ got \in Seq(Nat)

\* platform_ipc_init(): message[0..N-1] are prepended in turn to the empty
\* list, both interrupt sources are unmasked; do_task() then enters its loop.
Init ==
  /\ IPCXH = {} /\ IPCDH = {} /\ IMRD = {} /\ intenable = TRUE
  /\ inbox = "plain"
  /\ host_pending = FALSE /\ dsp_pending = FALSE
  /\ dsp_msg = NULL /\ msg_list = <<>>
  /\ empty_list = [i \in 1 .. MSG_QUEUE_SIZE |-> MSG_QUEUE_SIZE - i]
  /\ tx_data = [m \in Msgs |-> 0]
  /\ pc = "sleep" /\ imrd = {} /\ irq = "idle" /\ isr = {}
  /\ sent = 0 /\ executed = <<>> /\ posn = 0 /\ got = <<>>

-----------------------------------------------------------------------------
(* Interrupt plumbing *)

\* ISRD shows a doorbell bit only while IMRD does not mask it.
ISRD == ((IPCDH \cap {"DONE"}) \cup (IPCXH \cap {"BUSY"})) \ IMRD

\* Any interrupt ends waiti; the main loop goes on when the handler returns.
WakeMain == pc' = IF pc = "waiti" THEN "host" ELSE pc

-----------------------------------------------------------------------------
(* Main loop of do_task(): it only runs while no handler does. *)

MainStep(from, to) == irq = "idle" /\ pc = from /\ pc' = to

WaitForInterrupt ==
  /\ MainStep("sleep", "waiti")
  /\ UNCHANGED <<regVars, inbox, listVars, pendVars, imrd, irqVars, histVars>>

\* ipc_process_msg_queue(): if (_ipc->host_pending)
CheckHostPending ==
  /\ MainStep("host", IF host_pending THEN "cmd" ELSE "dsp")
  /\ UNCHANGED <<regVars, inbox, listVars, pendVars, imrd, irqVars, histVars>>

\* ipc_cmd(): what the command does to the state shared with the host and the
\* interrupt handlers.
ipc_cmd ==
  /\ MainStep("cmd", "finish")
  /\ executed' = Append(executed, sent)
  /\ intenable' = (intenable /\ inbox # "save")
  /\ UNCHANGED <<IPCXH, IPCDH, IMRD, inbox, listVars, pendVars, imrd, irqVars,
                 sent, posn, got>>

FinishCmd ==
  /\ MainStep("finish", "reply")
  /\ host_pending' = FALSE
  /\ UNCHANGED <<regVars, inbox, listVars, dsp_pending, imrd, irqVars,
                 histVars>>

ReplyDone ==
  /\ MainStep("reply", "imrd_read")
  /\ IPCXH' = (IPCXH \ {"BUSY"}) \cup {"DONE"}
  /\ UNCHANGED <<IPCDH, IMRD, intenable, inbox, listVars, pendVars, imrd,
                 irqVars, histVars>>

\* Mutant of UnmaskBusy: the mask is written back as it was read.
UnmaskNothing ==
  /\ MainStep("imrd_write", "dsp")
  /\ IMRD' = imrd
  /\ UNCHANGED <<IPCXH, IPCDH, intenable, inbox, listVars, pendVars, imrd,
                 irqVars, histVars>>

\* The unmasking of BUSY is a read-modify-write the handler can interrupt.
ReadImrd ==
  /\ MainStep("imrd_read", "imrd_write")
  /\ imrd' = IMRD
  /\ UNCHANGED <<regVars, inbox, listVars, pendVars, irqVars, histVars>>

UnmaskBusy ==
  /\ MainStep("imrd_write", "dsp")
  /\ IMRD' = imrd \ {"BUSY"}
  /\ UNCHANGED <<IPCXH, IPCDH, intenable, inbox, listVars, pendVars, imrd,
                 irqVars, histVars>>

\* ipc_process_msg_queue(): if (_ipc->dsp_pending)
CheckDspPending ==
  /\ MainStep("dsp", IF dsp_pending THEN "send" ELSE "sleep")
  /\ UNCHANGED <<regVars, inbox, listVars, pendVars, imrd, irqVars, histVars>>

\* The three ways through ipc_platform_send_msg(), all under the lock.
SendNothing ==
  /\ msg_list = <<>>
  /\ dsp_pending' = FALSE
  /\ UNCHANGED <<IPCDH, listVars>>

\* Mutant of SendLater: the work is forgotten although nothing was sent.
SendNever ==
  /\ msg_list # <<>> /\ IPCDH # {}
  /\ dsp_pending' = FALSE
  /\ UNCHANGED <<IPCDH, listVars>>

SendLater ==
  /\ msg_list # <<>> /\ IPCDH # {}
  /\ UNCHANGED <<IPCDH, listVars, dsp_pending>>

SendHead ==
  /\ msg_list # <<>> /\ IPCDH = {}
  /\ dsp_msg' = Head(msg_list)
  /\ msg_list' = Tail(msg_list)
  /\ IPCDH' = {"BUSY"}
  /\ UNCHANGED <<empty_list, tx_data, dsp_pending>>

ipc_platform_send_msg ==
  /\ MainStep("send", "sleep")
  /\ SendNothing \/ SendLater \/ SendHead
  /\ UNCHANGED <<IPCXH, IMRD, intenable, inbox, host_pending, imrd, irqVars,
                 histVars>>

Main == \/ WaitForInterrupt \/ CheckHostPending \/ ipc_cmd \/ FinishCmd
        \/ ReplyDone \/ ReadImrd \/ UnmaskBusy \/ CheckDspPending
        \/ ipc_platform_send_msg

-----------------------------------------------------------------------------
(* irq_handler() *)

EnterIrq ==
  /\ irq = "idle" /\ intenable /\ ISRD # {}
  /\ isr' = ISRD
  /\ irq' = IF "DONE" \in isr' THEN "notify" ELSE "busy"
  /\ WakeMain
  /\ UNCHANGED <<regVars, inbox, listVars, pendVars, imrd, histVars>>

\* Mask DONE, then the locked part of do_notify(): the message that was sent
\* goes back to the pool.  dsp_msg itself is never reset.
NotifyReturnMsg ==
  /\ irq = "notify" /\ irq' = "clear"
  /\ IMRD' = IMRD \cup {"DONE"}
  /\ empty_list' = IF dsp_msg = NULL THEN empty_list
                   ELSE Append(empty_list, dsp_msg)
  /\ UNCHANGED <<IPCXH, IPCDH, intenable, inbox, dsp_msg, msg_list, tx_data,
                 pendVars, mainVars, isr, histVars>>

\* Mutant of NotifyClearDone: DONE is left set, so the handler is entered again.
NotifyKeepDone ==
  /\ irq = "clear" /\ irq' = "unmask"
  /\ UNCHANGED <<regVars, inbox, listVars, pendVars, mainVars, isr, histVars>>

NotifyClearDone ==
  /\ irq = "clear" /\ irq' = "unmask"
  /\ IPCDH' = IPCDH \ {"DONE"}
  /\ UNCHANGED <<IPCXH, IMRD, intenable, inbox, listVars, pendVars, mainVars,
                 isr, histVars>>

NotifyUnmaskDone ==
  /\ irq = "unmask"
  /\ irq' = IF "BUSY" \in isr THEN "busy" ELSE "idle"
  /\ IMRD' = IMRD \ {"DONE"}
  /\ UNCHANGED <<IPCXH, IPCDH, intenable, inbox, listVars, pendVars, mainVars,
                 isr, histVars>>

\* Mutant of TakeCommand: BUSY is not masked while the command is worked on.
TakeUnmasked ==
  /\ irq = "busy" /\ irq' = "idle"
  /\ host_pending' = TRUE
  /\ UNCHANGED <<regVars, inbox, listVars, dsp_pending, mainVars, isr, histVars>>

TakeCommand ==
  /\ irq = "busy" /\ irq' = "idle"
  /\ IMRD' = IMRD \cup {"BUSY"}
  /\ host_pending' = TRUE
  /\ UNCHANGED <<IPCXH, IPCDH, intenable, inbox, listVars, dsp_pending,
                 mainVars, isr, histVars>>

IrqHandler == \/ EnterIrq \/ NotifyReturnMsg \/ NotifyClearDone
              \/ NotifyUnmaskDone \/ TakeCommand

-----------------------------------------------------------------------------
(* DMA interrupts *)

\* Mutants of ipc_queue_host_message: the pool is not checked for being empty,
\* the message is put at the wrong end, dsp_pending is not set.
QueueUnchecked ==
  /\ dsp_pending' = TRUE
  /\ msg_list' = Append(msg_list, IF empty_list = <<>> THEN NULL
                                  ELSE Head(empty_list))
  /\ empty_list' = IF empty_list = <<>> THEN <<>> ELSE Tail(empty_list)
  /\ UNCHANGED <<dsp_msg, tx_data>>

QueueAtHead ==
  \/ /\ empty_list = <<>>
     /\ UNCHANGED <<listVars, dsp_pending>>
  \/ /\ empty_list # <<>>
     /\ empty_list' = Tail(empty_list)
     /\ msg_list' = <<Head(empty_list)>> \o msg_list
     /\ tx_data' = [tx_data EXCEPT ![Head(empty_list)] = posn + 1]
     /\ dsp_pending' = TRUE
     /\ dsp_msg' = dsp_msg

QueueSilently ==
  \/ /\ empty_list = <<>>
     /\ UNCHANGED <<listVars, dsp_pending>>
  \/ /\ empty_list # <<>>
     /\ empty_list' = Tail(empty_list)
     /\ msg_list' = Append(msg_list, Head(empty_list))
     /\ tx_data' = [tx_data EXCEPT ![Head(empty_list)] = posn + 1]
     /\ UNCHANGED <<dsp_pending, dsp_msg>>

\* ipc_queue_host_message(): take a message from the pool, or fail with -EBUSY
\* when it is empty.
ipc_queue_host_message ==
  \/ /\ empty_list = <<>>
     /\ UNCHANGED <<listVars, dsp_pending>>
  \/ /\ empty_list # <<>>
     /\ empty_list' = Tail(empty_list)
     /\ msg_list' = Append(msg_list, Head(empty_list))
     /\ tx_data' = [tx_data EXCEPT ![Head(empty_list)] = posn + 1]
     /\ dsp_pending' = TRUE
     /\ dsp_msg' = dsp_msg

\* host_dma_cb() when a report period has elapsed, if (hd->host_pos): the only
\* caller of ipc_queue_host_message().
DmaNotify ==
  /\ Streaming /\ HostPos /\ intenable /\ posn < MaxPosn
  /\ posn' = posn + 1
  /\ ipc_queue_host_message
  /\ WakeMain
  /\ UNCHANGED <<regVars, inbox, host_pending, imrd, irqVars, sent, executed,
                 got>>

\* A DMA interrupt that reports nothing: it only wakes the main loop.
DmaTick ==
  /\ Streaming /\ intenable
  /\ pc = "waiti" /\ WakeMain
  /\ UNCHANGED <<regVars, inbox, listVars, pendVars, imrd, irqVars, histVars>>

-----------------------------------------------------------------------------
(* The host driver: one command at a time, acknowledges what it is sent. *)

HostSend ==
  /\ IPCXH = {} /\ sent < MaxCmds
  /\ inbox' \in Kinds
  /\ IPCXH' = {"BUSY"}
  /\ sent' = sent + 1
  /\ UNCHANGED <<IPCDH, IMRD, intenable, listVars, pendVars, mainVars,
                 irqVars, executed, posn, got>>

HostReadReply ==
  /\ "DONE" \in IPCXH
  /\ IPCXH' = IPCXH \ {"DONE"}
  /\ UNCHANGED <<IPCDH, IMRD, intenable, inbox, listVars, pendVars, mainVars,
                 irqVars, histVars>>

\* got records the message whose doorbell the host answers.
HostTakeMsg ==
  /\ "BUSY" \in IPCDH
  /\ IPCDH' = {"DONE"}
  /\ got' = Append(got, tx_data[dsp_msg])
  /\ UNCHANGED <<IPCXH, IMRD, intenable, inbox, listVars, pendVars, mainVars,
                 irqVars, sent, executed, posn>>

-----------------------------------------------------------------------------

Next == \/ Main \/ IrqHandler
        \/ DmaNotify \/ DmaTick
        \/ HostSend \/ HostReadReply \/ HostTakeMsg

\* The core makes progress, pending unmasked interrupts are taken, DMA
\* interrupts recur while a stream runs, and the host answers doorbells.  The
\* host need not send commands.
Fairness == /\ WF_vars(Main) /\ WF_vars(IrqHandler) /\ WF_vars(DmaTick)
            /\ WF_vars(HostReadReply) /\ WF_vars(HostTakeMsg)

Spec == Init /\ [][Next]_vars

FairSpec == Spec /\ Fairness

-----------------------------------------------------------------------------
(* Properties *)

SeqSet(s) == {s[i] : i \in 1 .. Len(s)}
NoRepeat(s) == \A i, j \in 1 .. Len(s) : s[i] = s[j] => i = j

\* The message the host is working on: from the doorbell until the locked part
\* of do_notify() has put it back.
InFlight == dsp_msg # NULL /\ IPCDH # {} /\ irq # "clear"

\* Every message of the pool is in exactly one place: free (empty_list),
\* waiting (msg_list) or in flight.  Were one put on a list twice the list's
\* pointers would be corrupt; were one nowhere, the pool would shrink for good.
MsgConserved ==
  /\ NoRepeat(empty_list) /\ NoRepeat(msg_list)
  /\ SeqSet(empty_list) \cap SeqSet(msg_list) = {}
  /\ InFlight => dsp_msg \notin SeqSet(empty_list) \cup SeqSet(msg_list)
  /\ \A m \in Msgs : \/ m \in SeqSet(empty_list) \/ m \in SeqSet(msg_list)
                     \/ InFlight /\ m = dsp_msg

\* Each command is run exactly once, in order, before the host sees DONE for
\* it: masking BUSY in irq_handler() keeps a command from being taken again
\* while the main loop works on it.
CommandOnce ==
  /\ Len(executed) <= sent
  /\ \A i \in 1 .. Len(executed) : executed[i] = i
  /\ "DONE" \in IPCXH => Len(executed) = sent

\* irq_handler()'s "may overwrite" case (trace "Pen") is unreachable: when the
\* handler takes a command the previous one has been dealt with.
NoOverwrite == irq = "busy" => ~host_pending

\* A queued message is never left behind with dsp_pending clear, where no
\* later pass of the main loop would look for it.
PendingCoversQueue == msg_list # <<>> => dsp_pending

\* The queue towards the host implements the abstract bounded FIFO: what is
\* accepted is delivered once and in order, and a notification is refused only
\* when at most one message is unused.
TxOf(f, s) == [i \in 1 .. Len(s) |-> f[s[i]]]
ChanQueue == IF "BUSY" \in IPCDH
             THEN <<tx_data[dsp_msg]>> \o TxOf(tx_data, msg_list)
             ELSE TxOf(tx_data, msg_list)
Chan == INSTANCE IpcChannel WITH
          Capacity <- MSG_QUEUE_SIZE, offered <- posn, queue <- ChanQueue
ChannelFifo == Chan!Spec

\* Every command is answered, unless PM_CTX_SAVE has masked all interrupts.
\* It needs an interrupt after the one that announced the command: see the
\* run in which no stream is active.
CommandAnswered == "BUSY" \in IPCXH ~> ("DONE" \in IPCXH \/ ~intenable)

\* Every queued notification reaches the host, or interrupts are masked for
\* good by PM_CTX_SAVE.
NotificationDelivered ==
  \A n \in 1 .. MaxPosn :
    (n \in SeqSet(TxOf(tx_data, msg_list))) ~> (n \in SeqSet(got) \/ ~intenable)
=============================================================================
