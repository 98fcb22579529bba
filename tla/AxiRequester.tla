---------------------------- MODULE AxiRequester ----------------------------
(***************************************************************************)
(* pcie_to_axi_reg_requester.sv: the path from BAR 2 to the AXI4-Lite      *)
(* registers of the application.  One state machine stores the requests of *)
(* the host in FIFOs (wa and w for a write, ra and d for a read), the      *)
(* other joins a descriptor of d with the data of r to a completion.       *)
(*                                                                         *)
(* UserEdge is one rising edge of user_clk.  The AXI side has its own      *)
(* clock: the slave, axi_gpio, takes its steps at any time.  Data is named *)
(* by the register it belongs to; strobes, the byte count and the fields   *)
(* that are only passed along are left out.                                *)
(***************************************************************************)
EXTENDS Naturals, Sequences, FiniteSets

CONSTANTS
  Tags, Addrs,
  Posted,             \* the writes the host makes
  Depth,              \* room in each FIFO
  MaxReads            \* reads the host has outstanding

ASSUME RequesterAssumption == Depth \in Nat \ {0} /\ MaxReads \in Nat

VARIABLES
  cq_state, cq_req,
  cc_state, cpl,
  wa_fifo, w_fifo, ra_fifo, d_fifo, r_fifo,
  pending             \* the reads the host waits for

axiVars == <<cq_state, cq_req, cc_state, cpl, wa_fifo, w_fifo, ra_fifo, d_fifo, r_fifo, pending>>

Requests == [op : {"C_MEM_RD_REQ", "C_MEM_WR_REQ"}, tag : Tags, addr : Addrs]
Nothing == [op |-> "none"]             \* no beat, or one for another BAR

AxiInit ==
  /\ cq_state = "S_CQ_RESET" /\ cq_req = Nothing
  /\ cc_state = "S_CC_RESET" /\ cpl = Nothing
  /\ wa_fifo = <<>> /\ w_fifo = <<>> /\ ra_fifo = <<>> /\ d_fifo = <<>> /\ r_fifo = <<>>
  /\ pending = {}

Tready(fifo) == Len(fifo) < Depth

StoresWrite == cq_state = "S_CQ_STORE_WR_REQ" /\ Tready(wa_fifo) /\ Tready(w_fifo)
StoresRead == cq_state = "S_CQ_STORE_RD_REQ" /\ Tready(ra_fifo) /\ Tready(d_fifo)

(* m_axis_cq_tready: the beat is taken.                                    *)
(* Mutant: a request is latched while the last one waits for room.         *)
AcceptsAlways(beat) == beat # Nothing /\ cq_state # "S_CQ_RESET"

Accepts(beat) == beat # Nothing /\ cq_state = "S_CQ_WAIT_FOR_REQ"

CqNext(beat) ==
  CASE cq_state = "S_CQ_RESET" -> "S_CQ_WAIT_FOR_REQ"
    [] cq_state = "S_CQ_WAIT_FOR_REQ" /\ beat # Nothing ->
         IF beat.op = "C_MEM_RD_REQ" THEN "S_CQ_STORE_RD_REQ" ELSE "S_CQ_STORE_WR_REQ"
    [] StoresWrite \/ StoresRead -> "S_CQ_WAIT_FOR_REQ"
    [] OTHER -> cq_state

cpl_data_available == r_fifo # <<>> /\ d_fifo # <<>>

Sends(ready) == cc_state = "S_CC_SEND_CPL" /\ ready

(* Mutant: a completion does not wait for its acceptance.                  *)
CcNextNoWait(ready) ==
  CASE cc_state = "S_CC_WAIT_FOR_DATA" /\ cpl_data_available -> "S_CC_SEND_CPL"
    [] OTHER -> "S_CC_WAIT_FOR_DATA"

CcNext(ready) ==
  CASE cc_state = "S_CC_RESET" -> "S_CC_WAIT_FOR_DATA"
    [] cc_state = "S_CC_WAIT_FOR_DATA" /\ cpl_data_available -> "S_CC_SEND_CPL"
    [] Sends(ready) -> "S_CC_WAIT_FOR_DATA"
    [] OTHER -> cc_state

(* r_fifo_m_tready and d_fifo_m_tready, in every state of cc_state.        *)
(* Mutant: read data is taken only when it is latched.                     *)
PopsLatched == cpl_data_available /\ cc_state = "S_CC_WAIT_FOR_DATA"

PopsData == cpl_data_available

PopsDescriptor == cpl_data_available

Pushed(fifo, store, element) == IF store THEN Append(fifo, element) ELSE fifo
Popped(fifo, pop) == IF pop THEN Tail(fifo) ELSE fifo

UserEdge(beat, ready) ==
  /\ cq_state' = CqNext(beat)
  /\ cq_req' = IF Accepts(beat) THEN beat ELSE cq_req
  /\ wa_fifo' = Pushed(wa_fifo, StoresWrite, cq_req.addr)
  /\ w_fifo' = Pushed(w_fifo, StoresWrite, cq_req.addr)
  /\ ra_fifo' = Pushed(ra_fifo, StoresRead, cq_req.addr)
  /\ d_fifo' = Pushed(Popped(d_fifo, PopsDescriptor), StoresRead, cq_req)
  /\ r_fifo' = Popped(r_fifo, PopsData)
  /\ cc_state' = CcNext(ready)
  /\ cpl' = IF cc_state = "S_CC_WAIT_FOR_DATA" /\ cpl_data_available
            THEN [tag |-> Head(d_fifo).tag, data |-> Head(r_fifo)]
            ELSE cpl

(* The host: writes are posted, a read waits for its completion under a    *)
(* tag that is free.                                                       *)
HostBeats ==
  {Nothing} \cup {b \in Requests :
    IF b.op = "C_MEM_RD_REQ"
    THEN Cardinality(pending) < MaxReads /\ \A p \in pending : p.tag # b.tag
    ELSE b \in Posted}

Answered == {p \in pending : p.tag = cpl.tag}

Clock ==
  \E beat \in HostBeats, ready \in BOOLEAN :
    /\ UserEdge(beat, ready)
    /\ pending' = (IF Sends(ready) THEN pending \ Answered ELSE pending)
                  \cup (IF cq_state = "S_CQ_WAIT_FOR_REQ" /\ beat # Nothing
                           /\ beat.op = "C_MEM_RD_REQ"
                        THEN {[tag |-> beat.tag, addr |-> beat.addr]} ELSE {})

(* axi_gpio takes an address with its data, and answers a read.            *)
SlaveWrite ==
  /\ wa_fifo # <<>> /\ w_fifo # <<>>
  /\ wa_fifo' = Tail(wa_fifo) /\ w_fifo' = Tail(w_fifo)
  /\ UNCHANGED <<cq_state, cq_req, cc_state, cpl, ra_fifo, d_fifo, r_fifo, pending>>

SlaveRead ==
  /\ ra_fifo # <<>> /\ Tready(r_fifo)
  /\ ra_fifo' = Tail(ra_fifo)
  /\ r_fifo' = Append(r_fifo, Head(ra_fifo))
  /\ UNCHANGED <<cq_state, cq_req, cc_state, cpl, wa_fifo, w_fifo, d_fifo, pending>>

AxiNext == Clock \/ SlaveWrite \/ SlaveRead

AxiSpec == AxiInit /\ [][AxiNext]_axiVars

(* The clock runs, the slave serves what is at its ports, and the root     *)
(* complex takes a completion that is offered again and again.             *)
AxiFairSpec ==
  /\ AxiSpec
  /\ WF_axiVars(Clock) /\ WF_axiVars(SlaveWrite) /\ WF_axiVars(SlaveRead)
  /\ SF_axiVars(Clock /\ cc_state = "S_CC_SEND_CPL" /\ cc_state' = "S_CC_WAIT_FOR_DATA")

-----------------------------------------------------------------------------
HostReads == [tag : Tags, addr : Addrs]

AxiTypeOK ==
  /\ cq_state \in {"S_CQ_RESET", "S_CQ_WAIT_FOR_REQ", "S_CQ_STORE_RD_REQ", "S_CQ_STORE_WR_REQ"}
  /\ cq_req \in Requests \cup {Nothing}
  /\ cc_state \in {"S_CC_RESET", "S_CC_WAIT_FOR_DATA", "S_CC_SEND_CPL"}
  /\ cpl \in [tag : Tags, data : Addrs] \cup {Nothing}
  /\ \A fifo \in {wa_fifo, w_fifo, ra_fifo, r_fifo} :
       fifo \in Seq(Addrs) /\ Len(fifo) <= Depth
  /\ d_fifo \in Seq(Requests) /\ Len(d_fifo) <= Depth
  /\ pending \subseteq HostReads

(* A completion carries the tag of a read the host waits for, and the data *)
(* of the register that read asked for.                                    *)
AnswerMatches ==
  cc_state = "S_CC_SEND_CPL" => [tag |-> cpl.tag, addr |-> cpl.data] \in pending

(* The read data and the read addresses under way line up with the         *)
(* descriptors that wait for them, whatever the FIFOs hold.                *)
InStep == r_fifo \o ra_fifo = [i \in 1 .. Len(d_fifo) |-> d_fifo[i].addr]

(* A read of which the requester still has the tag.                        *)
UnderWay(p) ==
  /\ p \in pending
  /\ \/ cq_state = "S_CQ_STORE_RD_REQ" /\ cq_req.tag = p.tag
     \/ \E i \in DOMAIN d_fifo : d_fifo[i].tag = p.tag
     \/ cc_state = "S_CC_SEND_CPL" /\ cpl.tag = p.tag

(* A read that the host makes alone is answered, whatever writes it posts  *)
(* around it.  Of two reads at a time one may be lost: the FIFOs are       *)
(* popped in every state of cc_state, also while a completion is sent.     *)
ReadAnswered ==
  \A p \in HostReads : UnderWay(p) ~> p \notin pending \/ Cardinality(pending) > 1

=============================================================================
