-------------------------------- MODULE A2818 --------------------------------
(* The driver of the A2818 PCI card (caen/A2818Drv-1.20/a2818.c, in its      *)
(* SAFE_MODE, for kernels from 2.6.11 on), through which the CAEN libraries  *)
(* reach the digitizers: processes that send a packet to a slave of the      *)
(* card's link and wait for its answer, the interrupt handler that sorts the *)
(* packets received by slave, and the card.                                  *)
(*                                                                           *)
(* A call is known by its number, a packet by the call it answers and its    *)
(* part of the answer.  What is done under ioctl_lock or Alock without a     *)
(* wait is one action, except where others read or write without the lock.   *)
EXTENDS Integers, FiniteSets, SequencesExt

CONSTANTS
  Threads, Slaves, NoThread, NoSlave,
  MayOpen,                           (* the slaves each thread may open      *)
  AnswerSize,                        (* packets of the answer to each call   *)
  MaxCalls, MaxIrqs,                 (* bounds                               *)
  MaxLinkFails                       (* bound: failures of the link, counts  *)
                                     (* of packets too long, wrong headers   *)

Calls == 1..MaxCalls

ASSUME A2818Assumption ==
  /\ NoThread \notin Threads /\ NoSlave \notin Slaves
  /\ MaxCalls \in Nat /\ MaxLinkFails \in Nat /\ MaxIrqs \in Nat
  /\ MayOpen \in [Threads -> SUBSET Slaves]
  /\ AnswerSize \in [Calls -> Nat \ {0}]

(* COMM sends a packet and waits for the answer; COMM_OUT is one whose        *)
(* in_count is 0, it does not wait; COMM_IN one whose out_count is 0, it does *)
(* not send.                                                                  *)
Comm == {"COMM", "COMM_OUT", "COMM_IN"}

Commands == Comm \cup {"SEND", "RECV", "IRQ_WAIT", "RESET"}

VARIABLES
  pc, cmd, slave, call,   (* of each thread; slave: of the file it has opened  *)
  failed, answer,         (* what its call returns                             *)
  ioctl_lock,
  reply,                  (* il_buf, il_buf_p, il_buf_sz and rx_ready          *)
  i_buf, DMAInProgress,
  dmaDone,                (* the card's DMA read interrupt                     *)
  dmaLost,                (* a reset has ended a DMA before its interrupt      *)
  txDma,                  (* the slave whose o_buf is being sent by DMA, if    *)
                          (* any, and the call that is in the buffer           *)
  asked,                  (* calls a slave has to answer, and packets it sent  *)
  RXFIFO, LINK_FAIL,
  tooLong,                (* the card's count of packets is more than a DMA    *)
  irq, VINTDIS, woken,    (* slaves' VME interrupts; threads that were woken   *)
  spoiled,                (* slaves whose answers may be mistaken: see Spoil   *)
  calls, linkFails, irqs

threads == <<pc, cmd, slave, call, failed, answer>>
dma == <<i_buf, DMAInProgress, dmaDone, dmaLost>>
link == <<txDma, asked, RXFIFO, LINK_FAIL, tooLong, linkFails>>
vme == <<irq, irqs, VINTDIS, woken>>
vars == <<threads, ioctl_lock, reply, dma, link, vme, spoiled, calls>>

NoDma == [slave |-> NoSlave, call |-> 0]

EmptyReply == [buf |-> <<>>, p |-> 0, sz |-> 0, ready |-> FALSE]

Init ==
  /\ pc = [t \in Threads |-> "closed"] /\ cmd = [t \in Threads |-> "COMM"]
  /\ slave = [t \in Threads |-> NoSlave] /\ call = [t \in Threads |-> 0]
  /\ failed = [t \in Threads |-> FALSE] /\ answer = [t \in Threads |-> <<>>]
  /\ ioctl_lock = NoThread
  /\ reply = [s \in Slaves |-> EmptyReply]
  /\ i_buf = <<>> /\ DMAInProgress = FALSE /\ dmaDone = FALSE /\ dmaLost = FALSE
  /\ txDma = NoDma /\ asked = [s \in Slaves |-> <<>>]
  /\ RXFIFO = <<>> /\ LINK_FAIL = FALSE /\ tooLong = FALSE /\ linkFails = 0
  /\ irq = {} /\ irqs = 0 /\ VINTDIS = FALSE /\ woken = {}
  /\ spoiled = {} /\ calls = 0

Goto(t, label) == pc' = [pc EXCEPT ![t] = label]

(* The threads that send to slave s or wait for it to answer. *)
On(s) ==
  {t \in Threads : pc[t] \notin {"closed", "user"} /\ slave[t] = s /\ cmd[t] # "IRQ_WAIT"}

-----------------------------------------------------------------------------
(* The card.                                                                 *)

(* A slave sends the next packet of its answer. *)
Answer(s) ==
  /\ asked[s] # <<>> /\ ~LINK_FAIL
  /\ LET r == Head(asked[s]).call
         n == Head(asked[s]).sent + 1
     IN  /\ RXFIFO' = Append(RXFIFO, [slave |-> s, call |-> r, part |-> n])
         /\ asked' = [asked EXCEPT ![s] =
              IF n = AnswerSize[r] THEN Tail(@) ELSE [@ EXCEPT ![1].sent = n]]
  /\ UNCHANGED <<threads, ioctl_lock, reply, dma, txDma, LINK_FAIL, tooLong, linkFails,
                 vme, spoiled, calls>>

Request(r) == [call |-> r, sent |-> 0]

(* The DMA out of o_buf ends: what it sends is what o_buf holds by then. *)
TxDmaEnds ==
  /\ txDma # NoDma
  /\ txDma' = NoDma
  /\ asked' = [asked EXCEPT ![txDma.slave] = Append(@, Request(txDma.call))]
  /\ UNCHANGED <<threads, ioctl_lock, reply, dma, RXFIFO, LINK_FAIL, tooLong, linkFails,
                 vme, spoiled, calls>>

(* The DMA into i_buf ends and interrupts. *)
RxDmaEnds ==
  /\ DMAInProgress /\ ~dmaDone /\ ~dmaLost
  /\ dmaDone' = TRUE
  /\ UNCHANGED <<threads, ioctl_lock, reply, i_buf, DMAInProgress, dmaLost, link, vme,
                 spoiled, calls>>

LinkFails ==
  /\ linkFails < MaxLinkFails /\ ~LINK_FAIL
  /\ LINK_FAIL' = TRUE /\ linkFails' = linkFails + 1
  /\ UNCHANGED <<threads, ioctl_lock, reply, dma, txDma, asked, RXFIFO, tooLong, vme,
                 spoiled, calls>>

(* The card's count of the packets it has is wrong, until a reset. *)
CountFails ==
  /\ linkFails < MaxLinkFails /\ ~tooLong /\ RXFIFO # <<>>
  /\ tooLong' = TRUE /\ linkFails' = linkFails + 1
  /\ UNCHANGED <<threads, ioctl_lock, reply, dma, txDma, asked, RXFIFO, LINK_FAIL, vme,
                 spoiled, calls>>

(* A slave has data and raises its VME interrupt, here only while somebody   *)
(* asks for one, or has been read.                                           *)
VmeIrq(s) ==
  /\ \/ irq' = irq \ {s} /\ s \in irq /\ UNCHANGED irqs
     \/ irq' = irq \cup {s} /\ s \notin irq /\ irqs < MaxIrqs
        /\ \E t \in Threads : cmd[t] = "IRQ_WAIT"
        /\ irqs' = irqs + 1
  /\ UNCHANGED <<threads, ioctl_lock, reply, dma, link, VINTDIS, woken, spoiled, calls>>

(* a2818_reset(): nothing on the link survives, but DMAInProgress stays.     *)
Reset(still) ==
  /\ txDma' = NoDma /\ asked' = [s \in Slaves |-> <<>>] /\ RXFIFO' = <<>>
  /\ LINK_FAIL' = still /\ tooLong' = FALSE
  /\ dmaLost' \in {dmaLost, dmaLost \/ (DMAInProgress /\ ~dmaDone)}
  /\ UNCHANGED <<i_buf, DMAInProgress, dmaDone, linkFails>>

-----------------------------------------------------------------------------
(* Receiving.                                                                *)

(* Where the buffer is filled goes by il_buf_p, how much of it by il_buf_sz. *)
Put(r, packet) ==
  [buf   |-> IF r.p < Len(r.buf) THEN [r.buf EXCEPT ![r.p + 1] = packet]
             ELSE Append(r.buf, packet),
   p     |-> r.p + 1,
   sz    |-> r.sz + 1,
   ready |-> r.ready \/ packet.part = AnswerSize[packet.call]]

Deliver(replies, packet) == [replies EXCEPT ![packet.slave] = Put(@, packet)]

(* dispatch_pkt(): the packets of a transfer go, one after the other, to     *)
(* their slaves' buffers.                                                    *)
Dispatch(replies, packets) ==
  LET after[n \in 0..Len(packets)] ==
        IF n = 0 THEN replies ELSE Deliver(after[n - 1], packets[n])
  IN  after[Len(packets)]

(* It stops at a packet whose header is wrong, which is lost with those      *)
(* behind it.  The slaves they are from miss a part of their answers.        *)
Handled(packets) == {h \in 0..Len(packets) : h = Len(packets) \/ linkFails < MaxLinkFails}

Lost(packets, h) == {packets[i].slave : i \in (h + 1)..Len(packets)}

Lose(slaves) ==
  /\ spoiled' = spoiled \cup slaves
  /\ linkFails' = IF slaves = {} THEN linkFails ELSE linkFails + 1

(* handle_rx_pkt(): a short transfer is read and dispatched at once, a long  *)
(* one goes by DMA, one too long for it is left where it is.  The card has   *)
(* some of its packets ready for a transfer.                                 *)
HandleRx(replies, lost) ==
  \/ /\ tooLong
     /\ reply' = replies /\ i_buf' = <<>> /\ DMAInProgress' = FALSE /\ dmaDone' = FALSE
     /\ Lose(lost) /\ UNCHANGED RXFIFO
  \/ \E n \in 1..Len(RXFIFO), long \in BOOLEAN :
       LET packets == SubSeq(RXFIFO, 1, n) IN
       /\ ~tooLong
       /\ RXFIFO' = SubSeq(RXFIFO, n + 1, Len(RXFIFO))
       /\ i_buf' = IF long THEN packets ELSE <<>>
       /\ DMAInProgress' = long /\ dmaDone' = FALSE
       /\ \/ long /\ reply' = replies /\ Lose(lost)
          \/ /\ ~long
             /\ \E h \in Handled(packets) :
                  /\ reply' = Dispatch(replies, SubSeq(packets, 1, h))
                  /\ Lose(lost \cup Lost(packets, h))

(* The card's own interrupt: packets, or a slave's VME interrupt.            *)
(* handle_vme_irq() wakes those who wait for a slave and disables VME        *)
(* interrupts until a process enables them.                                  *)
LocInt == RXFIFO # <<>> \/ (irq # {} /\ ~VINTDIS)

HandleVmeIrq ==
  IF LocInt /\ irq # {}
    THEN /\ woken' = woken \cup {t \in Threads : pc[t] = "irqWait" /\ slave[t] \in irq}
         /\ VINTDIS' = TRUE
    ELSE UNCHANGED <<woken, VINTDIS>>

(* The packets of a DMA that has ended. *)
Ended == IF dmaDone THEN i_buf ELSE <<>>

(* Mutant: DMAInProgress is not taken back. *)
InterruptKeepingDMA ==
  /\ dmaDone \/ LocInt
  /\ \E h \in Handled(Ended) :
       LET replies == Dispatch(reply, SubSeq(Ended, 1, h)) IN
       IF ~DMAInProgress /\ RXFIFO # <<>>
         THEN HandleRx(replies, Lost(Ended, h))
         ELSE /\ reply' = replies /\ Lose(Lost(Ended, h))
              /\ dmaDone' = FALSE /\ i_buf' = IF dmaDone THEN <<>> ELSE i_buf
              /\ UNCHANGED <<RXFIFO, DMAInProgress>>
  /\ HandleVmeIrq
  /\ UNCHANGED <<threads, ioctl_lock, dmaLost, txDma, asked, LINK_FAIL, tooLong,
                 irq, irqs, calls>>

(* a2818_interrupt(), under Alock. *)
Interrupt ==
  /\ dmaDone \/ LocInt
  /\ \E h \in Handled(Ended) :
       LET replies == Dispatch(reply, SubSeq(Ended, 1, h))
           busy    == DMAInProgress /\ ~dmaDone
       IN
       IF ~busy /\ RXFIFO # <<>>
         THEN HandleRx(replies, Lost(Ended, h))
         ELSE /\ reply' = replies /\ Lose(Lost(Ended, h))
              /\ DMAInProgress' = busy /\ dmaDone' = FALSE
              /\ i_buf' = IF dmaDone THEN <<>> ELSE i_buf
              /\ UNCHANGED RXFIFO
  /\ HandleVmeIrq
  /\ UNCHANGED <<threads, ioctl_lock, dmaLost, txDma, asked, LINK_FAIL, tooLong,
                 irq, irqs, calls>>

-----------------------------------------------------------------------------
(* Processes.                                                                *)

(* The first open of a slave resets its buffers. *)
Open(t, s) ==
  /\ pc[t] = "closed" /\ calls < MaxCalls
  /\ Goto(t, "user") /\ slave' = [slave EXCEPT ![t] = s]
  /\ reply' = IF \E u \in Threads : pc[u] # "closed" /\ slave[u] = s THEN reply
              ELSE [reply EXCEPT ![s] = EmptyReply]
  /\ UNCHANGED <<cmd, call, failed, answer, ioctl_lock, dma, link, vme, spoiled,
                 calls>>

Release(t) ==
  /\ pc[t] = "user" /\ calls < MaxCalls
  /\ Goto(t, "closed") /\ slave' = [slave EXCEPT ![t] = NoSlave]
  /\ UNCHANGED <<cmd, call, failed, answer, ioctl_lock, reply, dma, link, vme,
                 spoiled, calls>>

(* From here on an answer on slave s may go to another call than its own:    *)
(* ioctl_lock is dropped while a call waits, a buffer is not tied to a call, *)
(* and SEND or COMM_OUT leaves an answer that the next COMM does not expect. *)
Spoil(s) == spoiled' = spoiled \cup {s}

Ioctl(t, c) ==
  /\ pc[t] = "user" /\ calls < MaxCalls
  /\ calls' = calls + 1
  /\ cmd' = [cmd EXCEPT ![t] = c] /\ call' = [call EXCEPT ![t] = calls']
  /\ Goto(t, "lock")
  /\ IF c # "IRQ_WAIT" /\ (c \in {"SEND", "COMM_OUT"} \/ On(slave[t]) # {})
       THEN Spoil(slave[t]) ELSE UNCHANGED spoiled
  /\ UNCHANGED <<slave, failed, answer, ioctl_lock, reply, dma, link, vme>>

Lock(t) ==
  /\ pc[t] \in {"lock", "relock", "irqRelock"} /\ ioctl_lock = NoThread
  /\ ioctl_lock' = t
  /\ Goto(t, CASE pc[t] = "lock"                   -> "ioctl"
               [] pc[t] = "irqRelock"              -> "unlock"
               [] pc[t] = "relock" /\ ~failed[t]   -> "copy"
               [] OTHER -> IF cmd[t] \in Comm THEN "clear il_buf_p" ELSE "unlock")
  /\ UNCHANGED <<cmd, slave, call, failed, answer, reply, dma, link, vme, spoiled, calls>>

Unlock(t) ==
  /\ pc[t] = "unlock"
  /\ ioctl_lock' = NoThread
  /\ Goto(t, "user")
  /\ cmd' = [cmd EXCEPT ![t] = "COMM"] /\ call' = [call EXCEPT ![t] = 0]
  /\ failed' = [failed EXCEPT ![t] = FALSE] /\ answer' = [answer EXCEPT ![t] = <<>>]
  /\ UNCHANGED <<slave, reply, dma, link, vme, spoiled, calls>>

(* The call r is built in o_buf[s] and goes to a2818_send_pkt(): a short     *)
(* packet is written, a long one goes by DMA, and nobody waits for the DMA   *)
(* before: o_buf may be overwritten while it is sent, and a second DMA takes *)
(* the first one's place.                                                    *)
SendPkt(s, r) ==
  \/ /\ asked' = [asked EXCEPT ![s] = Append(@, Request(r))]
     /\ txDma' = IF txDma.slave = s THEN [txDma EXCEPT !.call = r] ELSE txDma
  \/ txDma' = [slave |-> s, call |-> r] /\ UNCHANGED asked

(* copy_from_user(): what is sent may have got into o_buf, or not. *)
CopyFromUserFails(t) ==
  /\ pc[t] = "ioctl" /\ cmd[t] \notin {"RECV", "RESET"}
  /\ Goto(t, "unlock") /\ failed' = [failed EXCEPT ![t] = TRUE]
  /\ \/ UNCHANGED txDma
     \/ /\ txDma.slave = slave[t] /\ cmd[t] \notin {"IRQ_WAIT", "COMM_IN"}
        /\ txDma' = [txDma EXCEPT !.call = call[t]]
  /\ UNCHANGED <<cmd, slave, call, answer, ioctl_lock, reply, dma, asked, RXFIFO,
                 LINK_FAIL, tooLong, linkFails, vme, spoiled, calls>>

(* COMM and SEND up to the wait; a link that failed is reset first.          *)
Send(t) ==
  LET err  == IF cmd[t] \in Comm THEN "clear il_buf_p" ELSE "unlock"
      sent == IF cmd[t] = "COMM" THEN "poll" ELSE "copy"
  IN
  /\ pc[t] \in {"ioctl", "send"} /\ cmd[t] \in Comm \cup {"SEND"}
  /\ IF LINK_FAIL /\ pc[t] = "ioctl"
       THEN \E still \in BOOLEAN :
              /\ Reset(still)
              /\ Goto(t, IF still THEN err ELSE "send")
              /\ failed' = [failed EXCEPT ![t] = still]
       ELSE /\ \/ cmd[t] # "COMM_IN" /\ SendPkt(slave[t], call[t])
               \/ cmd[t] \in {"COMM_IN", "SEND"} /\ UNCHANGED <<asked, txDma>>
            /\ Goto(t, sent)
            /\ UNCHANGED <<failed, RXFIFO, LINK_FAIL, tooLong, linkFails, dma>>
  /\ UNCHANGED <<cmd, slave, call, answer, ioctl_lock, reply, vme, spoiled, calls>>

(* Mutant: the lock is kept while the call waits. *)
PollKeepingLock(t) ==
  LET s == slave[t] IN
  /\ pc[t] = "poll" \/ (pc[t] = "ioctl" /\ cmd[t] = "RECV")
  /\ \/ /\ ~reply[s].ready /\ ~DMAInProgress /\ RXFIFO # <<>> /\ HandleRx(reply, {})
     \/ UNCHANGED <<reply, RXFIFO, i_buf, DMAInProgress, dmaDone, spoiled, linkFails>>
  /\ Goto(t, "wait")
  /\ UNCHANGED <<cmd, slave, call, failed, answer, ioctl_lock, dmaLost, txDma, asked,
                 LINK_FAIL, tooLong, vme, calls>>

(* a2818_recv_pkt() up to the wait: a look at the FIFO, which may come too   *)
(* early, under Alock, and ioctl_lock is given back.                         *)
Poll(t) ==
  LET s == slave[t] IN
  /\ pc[t] = "poll" \/ (pc[t] = "ioctl" /\ cmd[t] = "RECV")
  /\ \/ /\ ~reply[s].ready /\ ~DMAInProgress /\ RXFIFO # <<>> /\ HandleRx(reply, {})
     \/ UNCHANGED <<reply, RXFIFO, i_buf, DMAInProgress, dmaDone, spoiled, linkFails>>
  /\ ioctl_lock' = NoThread /\ Goto(t, "wait")
  /\ UNCHANGED <<cmd, slave, call, failed, answer, dmaLost, txDma, asked, LINK_FAIL,
                 tooLong, vme, calls>>

WakeUp(t) ==
  /\ pc[t] = "wait" /\ reply[slave[t]].ready
  /\ Goto(t, "relock")
  /\ UNCHANGED <<cmd, slave, call, failed, answer, ioctl_lock, reply, dma, link, vme,
                 spoiled, calls>>

(* After 15 seconds, or when the process gets a signal. *)
GiveUpWaiting(t) ==
  /\ pc[t] = "wait" /\ ~reply[slave[t]].ready
  /\ Goto(t, "relock")
  /\ failed' = [failed EXCEPT ![t] = TRUE]
  /\ Spoil(slave[t])
  /\ UNCHANGED <<cmd, slave, call, answer, ioctl_lock, reply, dma, link, vme, calls>>

(* COMM copies il_buf_sz bytes, SEND what happens to be there, and the copy  *)
(* may fail; RECV returns il_buf_sz and copies nothing.  SEND and RECV leave *)
(* the buffer as it is.                                                      *)
Copy(t) ==
  LET r == reply[slave[t]]
      n == IF r.sz < Len(r.buf) THEN r.sz ELSE Len(r.buf)
  IN
  /\ pc[t] = "copy"
  /\ \/ /\ cmd[t] \in Comm /\ Goto(t, "clear il_buf_p")
        /\ answer' = [answer EXCEPT ![t] = SubSeq(r.buf, 1, n)] /\ UNCHANGED failed
     \/ /\ cmd[t] # "RECV" /\ Goto(t, IF cmd[t] \in Comm THEN "clear il_buf_p" ELSE "unlock")
        /\ failed' = [failed EXCEPT ![t] = TRUE] /\ UNCHANGED answer
     \/ cmd[t] \notin Comm /\ Goto(t, "unlock") /\ UNCHANGED <<answer, failed>>
  /\ UNCHANGED <<cmd, slave, call, ioctl_lock, reply, dma, link, vme, spoiled, calls>>

(* Mutant: rx_ready is not reset. *)
ClearKeepingReady(t) ==
  /\ \/ /\ pc[t] = "clear il_buf_p" /\ Goto(t, "clear il_buf_sz")
        /\ reply' = [reply EXCEPT ![slave[t]].p = 0, ![slave[t]].buf = <<>>]
     \/ /\ pc[t] = "clear il_buf_sz" /\ Goto(t, "unlock")
        /\ reply' = [reply EXCEPT ![slave[t]].sz = 0]
  /\ UNCHANGED <<cmd, slave, call, failed, answer, ioctl_lock, dma, link, vme,
                 spoiled, calls>>

(* err_comm: three stores, without Alock.  What is beyond il_buf_p is old.   *)
Clear(t) ==
  /\ \/ /\ pc[t] = "clear il_buf_p" /\ Goto(t, "clear rx_ready")
        /\ reply' = [reply EXCEPT ![slave[t]].p = 0, ![slave[t]].buf = <<>>]
     \/ /\ pc[t] = "clear rx_ready" /\ Goto(t, "clear il_buf_sz")
        /\ reply' = [reply EXCEPT ![slave[t]].ready = FALSE]
     \/ /\ pc[t] = "clear il_buf_sz" /\ Goto(t, "unlock")
        /\ reply' = [reply EXCEPT ![slave[t]].sz = 0]
  /\ UNCHANGED <<cmd, slave, call, failed, answer, ioctl_lock, dma, link, vme,
                 spoiled, calls>>

IrqWait(t) ==
  /\ pc[t] = "ioctl" /\ cmd[t] = "IRQ_WAIT"
  /\ ioctl_lock' = NoThread
  /\ Goto(t, IF slave[t] \in irq THEN "irqRelock" ELSE "irqWait")
  /\ woken' = woken \ {t}
  /\ UNCHANGED <<cmd, slave, call, failed, answer, reply, dma, link, irq, irqs, VINTDIS, spoiled,
                 calls>>

(* Woken, a thread looks at the interrupt again, and may sleep on. *)
IrqWakeUp(t) ==
  /\ pc[t] = "irqWait" /\ t \in woken
  /\ woken' = woken \ {t}
  /\ IF slave[t] \in irq THEN Goto(t, "irqRelock") ELSE UNCHANGED pc
  /\ UNCHANGED <<cmd, slave, call, failed, answer, ioctl_lock, reply, dma, link, irq, irqs,
                 VINTDIS, spoiled, calls>>

IrqTimeout(t) ==
  /\ pc[t] = "irqWait"
  /\ Goto(t, "irqRelock")
  /\ failed' = [failed EXCEPT ![t] = slave[t] \notin irq]
  /\ UNCHANGED <<cmd, slave, call, answer, ioctl_lock, reply, dma, link, vme, spoiled,
                 calls>>

ResetCard(t) ==
  /\ pc[t] = "ioctl" /\ cmd[t] = "RESET"
  /\ Goto(t, "unlock")
  /\ \E still \in {FALSE, LINK_FAIL} : Reset(still)
  /\ UNCHANGED <<cmd, slave, call, failed, answer, ioctl_lock, reply, vme, spoiled, calls>>

(* REG_WR, as it is used: the library enables VME interrupts again.          *)
EnableVmeInt(t) ==
  /\ pc[t] = "user" /\ ioctl_lock = NoThread /\ VINTDIS
  /\ VINTDIS' = FALSE
  /\ UNCHANGED <<threads, ioctl_lock, reply, dma, link, irq, irqs, woken, spoiled, calls>>

-----------------------------------------------------------------------------

(* The driver's steps of a thread in a call, without its time-outs. *)
Step(t) ==
  \/ Lock(t) \/ Unlock(t)
  \/ Send(t) \/ Poll(t) \/ WakeUp(t) \/ Copy(t) \/ Clear(t)
  \/ IrqWait(t) \/ IrqWakeUp(t)
  \/ ResetCard(t)

User(t) ==
  \/ \E s \in MayOpen[t] : Open(t, s)
  \/ Release(t)
  \/ \E c \in Commands : Ioctl(t, c)
  \/ EnableVmeInt(t)

Card == TxDmaEnds \/ LinkFails \/ CountFails \/ \E s \in Slaves : Answer(s) \/ VmeIrq(s)

Next ==
  \/ \E t \in Threads : Step(t) \/ GiveUpWaiting(t) \/ IrqTimeout(t) \/ CopyFromUserFails(t) \/ User(t)
  \/ Interrupt \/ RxDmaEnds
  \/ Card

Spec == Init /\ [][Next]_vars

(* Threads that can run run, and interrupts come; a slave need not answer    *)
(* and the 15 seconds of a time-out need not pass.                           *)
FairSpec ==
  /\ Spec
  /\ \A t \in Threads : WF_vars(Step(t))
  /\ WF_vars(Interrupt) /\ WF_vars(RxDmaEnds)

-----------------------------------------------------------------------------
(* Properties.                                                               *)

Clearing == {"clear il_buf_p", "clear rx_ready", "clear il_buf_sz"}

Locked == {"ioctl", "send", "poll", "copy", "unlock"} \cup Clearing

Packets == [slave : Slaves, call : Calls, part : Nat]

(* Every variable keeps its type, and a thread holds ioctl_lock exactly in   *)
(* the parts of a call where it does not wait.                               *)
TypeOK ==
  /\ pc \in [Threads -> {"closed", "user", "lock", "wait", "relock", "irqWait", "irqRelock"}
                           \cup Locked]
  /\ cmd \in [Threads -> Commands]
  /\ slave \in [Threads -> Slaves \cup {NoSlave}] /\ call \in [Threads -> 0..MaxCalls]
  /\ failed \in [Threads -> BOOLEAN] /\ answer \in [Threads -> Seq(Packets)]
  /\ ioctl_lock \in Threads \cup {NoThread}
  /\ \A t \in Threads : ioctl_lock = t <=> pc[t] \in Locked
  /\ reply \in [Slaves -> [buf : Seq(Packets), p : Nat, sz : Nat, ready : BOOLEAN]]
  /\ i_buf \in Seq(Packets) /\ DMAInProgress \in BOOLEAN /\ dmaDone \in BOOLEAN
  /\ (dmaDone \/ dmaLost) => DMAInProgress
  /\ txDma \in [slave : Slaves, call : Calls] \cup {NoDma}
  /\ asked \in [Slaves -> Seq([call : Calls, sent : Nat])]
  /\ RXFIFO \in Seq(Packets) /\ LINK_FAIL \in BOOLEAN /\ tooLong \in BOOLEAN
  /\ irq \subseteq Slaves /\ irqs \in 0..MaxIrqs /\ VINTDIS \in BOOLEAN /\ woken \subseteq Threads
  /\ spoiled \subseteq Slaves /\ calls \in 0..MaxCalls /\ linkFails \in 0..MaxLinkFails

(* A COMM that succeeds returns the whole answer to its own packet, and      *)
(* nothing else, as long as no call on its slave gave up waiting, sent       *)
(* without waiting (SEND, COMM_OUT) or overlapped another, and no packet of  *)
(* this slave was in a transfer that dispatch_pkt() did not handle to its    *)
(* end: what else happens on other slaves, or to the link, does not matter.  *)
AnswerIsOwn ==
  \A t \in Threads :
    (cmd[t] = "COMM" /\ ~failed[t] /\ pc[t] \in Clearing \cup {"unlock"}
       /\ slave[t] \notin spoiled)
    => answer[t] = [n \in 1..AnswerSize[call[t]] |->
                     [slave |-> slave[t], call |-> call[t], part |-> n]]

(* A call that waits for a slave, however long, keeps no other call out.     *)
OthersProceed == []<>(\A t \in Threads : pc[t] # "lock")

(* The last packet of the answer t waits for has reached the card, the       *)
(* card's count is right, and no reset has ended a DMA.                      *)
AnswerComes(t) ==
  /\ pc[t] = "wait" /\ slave[t] \notin spoiled /\ ~dmaLost /\ ~tooLong
  /\ \E k \in ToSet(RXFIFO \o i_buf \o reply[slave[t]].buf) :
       k.call = call[t] /\ k.part = AnswerSize[call[t]]

(* A slave's VME interrupt is there, and enabled, and t waits for it. *)
IrqComes(t) == pc[t] = "irqWait" /\ slave[t] \in irq /\ ~VINTDIS /\ t \notin woken

(* No wake-up is lost: without the help of a time-out, a call whose answer   *)
(* has been sent does not wait for ever for it, be it received by polling,   *)
(* by the interrupt handler or by DMA, nor a call for a VME interrupt.       *)
WaitersWake == []<>(\A t \in Threads : ~AnswerComes(t) /\ ~IrqComes(t))

=============================================================================
