------------------------------ MODULE Benchmark ------------------------------
(***************************************************************************)
(* Benchmark (benchmark.h, benchmark.cpp): how often each phase ran and    *)
(* for how long.  The steady clock is now, and every reading of it is one  *)
(* later than the one before.                                              *)
(***************************************************************************)
EXTENDS Integers, Sequences

PerPacket == {"PacketHeader", "Decode", "DecodePacket", "FlowLookup", "TcpReassembly",
              "AppDecode"}
Phases == PerPacket \cup {"Total", "FileHeader"}

PhaseStates == [calls : Nat, elapsed_ns : Nat, started : Nat, running : BOOLEAN]
Benchmarks  == [detailed : BOOLEAN, now : Nat, phases : [Phases -> PhaseStates]]

NewBenchmark(detailed) ==
    [detailed |-> detailed, now |-> 0,
     phases |-> [p \in Phases |-> [calls |-> 0, elapsed_ns |-> 0, started |-> 0,
                                   running |-> FALSE]]]

(* Without -b the phases of each packet are not timed.                     *)
Ignored(b, p) == ~b.detailed /\ p \in PerPacket

Start(b, p) ==
    IF Ignored(b, p) THEN b
    ELSE [b EXCEPT !.now = @ + 1,
                   !.phases[p].started = b.now + 1, !.phases[p].running = TRUE]

Stop(b, p) ==
    IF Ignored(b, p) THEN b
    ELSE IF ~b.phases[p].running THEN [b EXCEPT !.now = @ + 1]
    ELSE [b EXCEPT !.now = @ + 1,
                   !.phases[p].running = FALSE,
                   !.phases[p].elapsed_ns = @ + (b.now + 1 - b.phases[p].started),
                   !.phases[p].calls = @ + 1]

(* A phase that lasts for a call, with nothing timed inside it.            *)
Around(p) == [b \in Benchmarks |-> Stop(Start(b, p), p)]

=============================================================================
