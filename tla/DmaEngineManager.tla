-------------------------- MODULE DmaEngineManager --------------------------
(***************************************************************************)
(* dma_engine_manager.v: the registers of the DMA engine, the descriptor   *)
(* memories and the choice of the active descriptor.  ManagerEdge is one   *)
(* rising edge of CLK.  Its parameters are input ports:                    *)
(*   mem       the memory interface S_MEM_IFACE_* of this cycle            *)
(*   ended     CONTROL_BYTE[3], end_of_operation of DmaRqLogic             *)
(*   update    UPDATE_LATENCY                                              *)
(*   req, comp BYTES_AT_REQ and BYTES_AT_COMP, for the five statistics     *)
(*                                                                         *)
(* An access names the register, the descriptor if it is one of a          *)
(* descriptor's, and the value: a number, or the bits of the control byte. *)
(* The size memory stands for the size and address memories, which are     *)
(* written and read alike; the address generator's registers are left out. *)
(***************************************************************************)
EXTENDS DmaTags

CONSTANT C_NUM_DESCRIPTORS

ASSUME ManagerAssumption == C_NUM_DESCRIPTORS \in Nat \ {0}

Descriptors == 0 .. C_NUM_DESCRIPTORS - 1

VARIABLES
  enable_r, stop_r, cl_engine_stats_r,
  capabilities_r,                  \* [c2s, s2c]
  number_tlps_r,
  tags_window_r, WINDOW_SIZE,      \* window_size_r of the manager, its output
  last_index_descriptor_r,
  active_index_descriptor_r, active_index_descriptor_pipe_r,
  VALID_ENGINE,
  size_port,                       \* ena_size_r, addra_size_r, dina_size_r
  size_memory,                     \* contents of blk_mem_descriptor_size
  doutb_size,                      \* its read port: latch, output register
  DESCRIPTOR_SIZE,
  stats_port,                      \* ena_time_r, dina_req_*, dina_comp_*
  stats_memory                     \* contents of the statistics memories

managerVars == <<enable_r, stop_r, cl_engine_stats_r, capabilities_r,
  number_tlps_r, tags_window_r, WINDOW_SIZE, last_index_descriptor_r,
  active_index_descriptor_r, active_index_descriptor_pipe_r, VALID_ENGINE,
  size_port, size_memory, doutb_size, DESCRIPTOR_SIZE, stats_port, stats_memory>>

NoBits == [enable |-> FALSE, c2s |-> FALSE, s2c |-> FALSE]

NoAccess == [en |-> FALSE, we |-> FALSE, reg |-> "none", index |-> 0,
             data |-> 0, bits |-> NoBits]

ReadFrom(reg, d) == [NoAccess EXCEPT !.en = TRUE, !.reg = reg, !.index = d]

WriteTo(reg, d, n) ==
  [NoAccess EXCEPT !.en = TRUE, !.we = TRUE, !.reg = reg, !.index = d, !.data = n]

WriteControlByte(b) ==
  [NoAccess EXCEPT !.en = TRUE, !.we = TRUE, !.reg = "control", !.bits = b]

Writes(mem, reg) == mem.en /\ mem.we /\ mem.reg = reg

NoStats == [req |-> 0, comp |-> 0]

IdleSizePort == [en |-> FALSE, index |-> 0, data |-> 0]
IdleStatsPort == [en |-> FALSE, data |-> NoStats]

(* The memories hold zeros after the FPGA has been programmed.             *)
ManagerInit ==
  /\ enable_r = FALSE /\ stop_r = FALSE /\ cl_engine_stats_r = FALSE
  /\ capabilities_r = [c2s |-> FALSE, s2c |-> TRUE]
  /\ number_tlps_r = 0
  /\ tags_window_r = C_WINDOW_SIZE /\ WINDOW_SIZE = C_WINDOW_SIZE
  /\ last_index_descriptor_r = 0
  /\ active_index_descriptor_r = 0 /\ active_index_descriptor_pipe_r = 0
  /\ VALID_ENGINE = FALSE
  /\ size_port = IdleSizePort
  /\ size_memory = [d \in Descriptors |-> 0]
  /\ doutb_size = [latch |-> 0, out |-> 0]
  /\ DESCRIPTOR_SIZE = 0
  /\ stats_port = IdleStatsPort
  /\ stats_memory = [d \in Descriptors |-> NoStats]

(* RST_N low: the registers, but not the memories.                         *)
ManagerReset ==
  /\ enable_r' = FALSE /\ stop_r' = FALSE /\ cl_engine_stats_r' = FALSE
  /\ capabilities_r' = [c2s |-> FALSE, s2c |-> TRUE]
  /\ number_tlps_r' = 0
  /\ tags_window_r' = C_WINDOW_SIZE /\ WINDOW_SIZE' = C_WINDOW_SIZE
  /\ last_index_descriptor_r' = 0
  /\ active_index_descriptor_r' = 0 /\ active_index_descriptor_pipe_r' = 0
  /\ VALID_ENGINE' = FALSE
  /\ size_port' = IdleSizePort
  /\ DESCRIPTOR_SIZE' = 0
  /\ stats_port' = IdleStatsPort
  /\ UNCHANGED <<size_memory, doutb_size, stats_memory>>

-----------------------------------------------------------------------------
AtLastDescriptor == active_index_descriptor_r = last_index_descriptor_r

(* The registers the host writes.  A write to the control register wins    *)
(* over the end of an operation in the same cycle.                         *)
RegistersEdge(mem) ==
  /\ enable_r' = IF Writes(mem, "control") THEN mem.bits.enable ELSE enable_r /\ ~stop_r
  /\ cl_engine_stats_r' = (Writes(mem, "control") /\ mem.bits.enable)
  /\ capabilities_r' = IF Writes(mem, "control")
                       THEN [c2s |-> mem.bits.c2s, s2c |-> mem.bits.s2c]
                       ELSE capabilities_r
  /\ last_index_descriptor_r' = IF Writes(mem, "last") THEN mem.data
                                ELSE last_index_descriptor_r
  /\ number_tlps_r' = IF Writes(mem, "tlps") THEN mem.data ELSE number_tlps_r
  /\ tags_window_r' = IF Writes(mem, "window") THEN mem.data ELSE tags_window_r
  /\ WINDOW_SIZE' = tags_window_r

(* Mutant: the engine does not stop at the last descriptor.                *)
StopEdgeNever(ended) == stop_r' = FALSE

StopEdge(ended) == stop_r' = (~cl_engine_stats_r /\ ended /\ AtLastDescriptor)

ActiveIndexEdge(ended) ==
  /\ active_index_descriptor_r' =
       IF ended THEN (active_index_descriptor_r + 1) % C_NUM_DESCRIPTORS
       ELSE active_index_descriptor_r
  /\ active_index_descriptor_pipe_r' = active_index_descriptor_r

(* Mutant: VALID_ENGINE survives the end of the operation.                 *)
ValidEdgeSticky(ended) == VALID_ENGINE' = enable_r

(* Mutant: the last descriptor is not among those to be processed.         *)
ValidEdgeBeforeLast(ended) ==
  VALID_ENGINE' =
    IF ended THEN ~AtLastDescriptor
    ELSE /\ active_index_descriptor_r = active_index_descriptor_pipe_r
         /\ enable_r /\ ~AtLastDescriptor

(* VALID_ENGINE falls at the end of the last operation and comes back one  *)
(* cycle after the index has changed.                                      *)
ValidEdge(ended) ==
  VALID_ENGINE' =
    IF ended THEN ~AtLastDescriptor
    ELSE active_index_descriptor_r = active_index_descriptor_pipe_r /\ enable_r

(* The size memory: port A is written through a register, port B follows   *)
(* the active index with a latency of two cycles.  A read of the word that *)
(* is being written gives the old or the new value.                        *)
SizeEdge(mem, update) ==
  LET written == [size_memory EXCEPT ![size_port.index] = size_port.data]
      d == active_index_descriptor_r
  IN /\ size_port' = IF Writes(mem, "size") /\ ~update
                     THEN [en |-> TRUE, index |-> mem.index, data |-> mem.data]
                     ELSE IdleSizePort
     /\ size_memory' = IF size_port.en THEN written ELSE size_memory
     /\ \E value \in IF size_port.en THEN {size_memory[d], written[d]} ELSE {size_memory[d]} :
          doutb_size' = [latch |-> value, out |-> doutb_size.latch]
     /\ DESCRIPTOR_SIZE' = doutb_size.out

(* Mutant: the statistics go to the slot after the next.                   *)
StatsEdgeTwice(update, req, comp) ==
  /\ stats_port' = [en |-> update, data |-> [req |-> req, comp |-> comp]]
  /\ stats_memory' =
       IF stats_port.en
       THEN [stats_memory EXCEPT
               ![(active_index_descriptor_r + 1) % C_NUM_DESCRIPTORS] = stats_port.data]
       ELSE stats_memory

(* The statistics memories are written at the active index, which has      *)
(* moved on by then.                                                       *)
StatsEdge(update, req, comp) ==
  /\ stats_port' = IF update THEN [en |-> TRUE, data |-> [req |-> req, comp |-> comp]]
                   ELSE IdleStatsPort
  /\ stats_memory' = IF stats_port.en
                     THEN [stats_memory EXCEPT ![active_index_descriptor_r] = stats_port.data]
                     ELSE stats_memory

ManagerEdge(mem, ended, update, req, comp) ==
  /\ RegistersEdge(mem)
  /\ StopEdge(ended)
  /\ ActiveIndexEdge(ended)
  /\ ValidEdge(ended)
  /\ SizeEdge(mem, update)
  /\ StatsEdge(update, req, comp)

StatsType == [req : Nat, comp : Nat]

ManagerTypeOK ==
  /\ enable_r \in BOOLEAN /\ stop_r \in BOOLEAN /\ cl_engine_stats_r \in BOOLEAN
  /\ capabilities_r \in [c2s : BOOLEAN, s2c : BOOLEAN]
  /\ number_tlps_r \in Nat
  /\ tags_window_r \in Nat /\ WINDOW_SIZE \in Nat
  /\ last_index_descriptor_r \in Descriptors
  /\ active_index_descriptor_r \in Descriptors
  /\ active_index_descriptor_pipe_r \in Descriptors
  /\ VALID_ENGINE \in BOOLEAN
  /\ size_port \in [en : BOOLEAN, index : Descriptors, data : Nat]
  /\ size_memory \in [Descriptors -> Nat]
  /\ doutb_size \in [latch : Nat, out : Nat]
  /\ DESCRIPTOR_SIZE \in Nat
  /\ stats_port \in [en : BOOLEAN, data : StatsType]
  /\ stats_memory \in [Descriptors -> StatsType]

=============================================================================
