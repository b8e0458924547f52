----------------------------- MODULE FleetProof -----------------------------
(***************************************************************************)
(* Proofs about Fleet for every number of chains, every start port, every  *)
(* set of ephemeral ports and every behaviour of the host's other          *)
(* processes.                                                              *)
(*                                                                         *)
(* The invariant says what the process holds at each statement of the      *)
(* loop: which chains serve, and which listeners are open.                 *)
(***************************************************************************)
EXTENDS Fleet, TLAPS

Stages == {"build", "unstarted", "listen", "replace", "start"}

\* The statements of the loop: which chains there are, and which listeners.
Control ==
  /\ pc = "make" => chain = 0
  /\ Running /\ pc # "make" => chain <= numChains /\ numChains >= 0
  /\ pc \in Stages => chain < numChains
  /\ Running => 0 .. chain - 1 \subseteq built
  /\ pc \in Stages \ {"build"} => chain \in built
  /\ Running => serving = 0 .. chain - 1
  /\ ~Running => serving = {}
  /\ temporary # 0 => pc \in {"listen", "replace"}
  /\ bound # 0 <=> pc \in {"replace", "start"}
  /\ bound # 0 => bound = Port(chain)

Inv == TypeOK /\ Control

LEMMA Numbers ==
  ASSUME TypeOK
  PROVE  /\ numChains \in Int /\ chain \in Nat
         /\ StartPort \in Nat /\ StartPort > 0 /\ MaxPort \in Nat
         /\ Ephemeral \subseteq Ports /\ 0 \notin Ports
         /\ \A i \in Nat : Port(i) \in Nat
  BY FleetAssumption DEF TypeOK, Ports, Port

LEMMA InvInit == Init => Inv
<1> SUFFICES ASSUME Init PROVE Inv
  OBVIOUS
<1>1. TypeOK
  BY FleetAssumption DEF Init, TypeOK
<1>2. Control
  BY DEF Init, Control, Running, Stages
<1> QED
  BY <1>1, <1>2 DEF Inv

-----------------------------------------------------------------------------
(* Each action preserves the invariant. *)

\* Ending the process gives all listeners back.
LEMMA ExitKeeps ==
  ASSUME Inv, NEW reason \in {"panicked", "deadlocked", "killed"}, Exit(reason)
  PROVE  Inv'
<1>1. TypeOK'
  BY DEF Exit, Inv, TypeOK, Chains, Ports
<1>2. Control'
  BY DEF Exit, Inv, Control, Running, Stages
<1> QED
  BY <1>1, <1>2 DEF Inv

LEMMA MakeServersKeeps == ASSUME Inv, MakeServers PROVE Inv'
<1> USE Numbers DEF MakeServers, server
<1>1. TypeOK'
  BY DEF Inv, TypeOK, Chains, Ports
<1>2. Control'
  BY DEF Inv, Control, Running, Stages
<1> QED
  BY <1>1, <1>2 DEF Inv

LEMMA NextChainKeeps == ASSUME Inv, NextChain PROVE Inv'
<1> USE Numbers DEF NextChain, server
<1>1. TypeOK'
  BY DEF Inv, TypeOK, Chains, Ports
<1>2. Control'
  BY DEF Inv, Control, Running, Stages
<1> QED
  BY <1>1, <1>2 DEF Inv

LEMMA NewMockChainKeeps == ASSUME Inv, NewMockChain PROVE Inv'
<1>1. pc = "build" /\ built' = built \cup {chain} /\ pc' = "unstarted"
      /\ UNCHANGED <<numChains, chain, temporary, bound, serving, others>>
  BY DEF NewMockChain, server
<1>2. chain \in 0 .. numChains - 1
  BY <1>1, Numbers DEF Inv, Control, Stages
<1>3. TypeOK'
  BY <1>1, <1>2 DEF Inv, TypeOK, Chains, Ports
<1>4. Control'
  BY <1>1, <1>2 DEF Inv, Control, Running, Stages, Port
<1> QED
  BY <1>3, <1>4 DEF Inv

\* The temporary listener gets an ephemeral port.
LEMMA NewUnstartedServerKeeps == ASSUME Inv, NewUnstartedServer PROVE Inv'
<1> USE Numbers DEF NewUnstartedServer
<1>1. temporary' \in Ephemeral \cap Free
  OBVIOUS
<1>2. TypeOK'
  BY <1>1 DEF Inv, TypeOK, Chains, Ports
<1>3. Control'
  BY DEF Inv, Control, Running, Stages
<1> QED
  BY <1>2, <1>3 DEF Inv

\* The fixed port is a port when it is bound.
LEMMA ListenKeeps == ASSUME Inv, Listen PROVE Inv'
<1> USE Numbers DEF Listen
<1>1. bound' = Port(chain) /\ Port(chain) \in Free /\ Port(chain) # 0
  BY DEF Inv, TypeOK, Free, Ports
<1>2. TypeOK'
  BY <1>1 DEF Inv, TypeOK, Chains, Ports, Free
<1>3. Control'
  BY <1>1 DEF Inv, Control, Running, Stages, Port
<1> QED
  BY <1>2, <1>3 DEF Inv

LEMMA ReplaceListenerKeeps == ASSUME Inv, ReplaceListener PROVE Inv'
<1> USE Numbers DEF ReplaceListener
<1>1. TypeOK'
  BY DEF Inv, TypeOK, Chains, Ports
<1>2. Control'
  BY DEF Inv, Control, Running, Stages, Port
<1> QED
  BY <1>1, <1>2 DEF Inv

LEMMA StartServerKeeps == ASSUME Inv, StartServer PROVE Inv'
<1>1. pc = "start" /\ serving' = serving \cup {chain} /\ bound' = 0 /\ chain' = chain + 1
      /\ pc' = "loop" /\ UNCHANGED <<numChains, built, temporary, others>>
  BY DEF StartServer
<1>2. /\ chain < numChains /\ chain \in built /\ bound = Port(chain) /\ bound # 0
      /\ serving = 0 .. chain - 1 /\ temporary = 0 /\ 0 .. chain - 1 \subseteq built
  BY <1>1 DEF Inv, Control, Running, Stages
<1>3. chain \in Nat /\ numChains \in Int /\ chain \in 0 .. numChains - 1
  BY <1>2, Numbers DEF Inv
<1>4. serving' = 0 .. chain' - 1 /\ 0 .. chain' - 1 \subseteq built /\ chain' \in 0 .. numChains
  BY <1>1, <1>2, <1>3
<1>5. TypeOK'
  BY <1>1, <1>3, <1>4 DEF Inv, TypeOK, Chains, Ports
<1>6. Control'
  BY <1>1, <1>2, <1>3, <1>4 DEF Control, Running, Stages
<1> QED
  BY <1>5, <1>6 DEF Inv

LEMMA OthersMoveKeeps == ASSUME Inv, OthersMove PROVE Inv'
<1> USE Numbers DEF OthersMove, server
<1>1. others' \subseteq Ports
  BY DEF Inv, TypeOK, Free
<1>2. TypeOK'
  BY <1>1 DEF Inv, TypeOK, Chains, Ports
<1>3. Control'
  BY DEF Inv, Control, Running, Stages, Port
<1> QED
  BY <1>2, <1>3 DEF Inv

LEMMA InvNext == Inv /\ [Next]_vars => Inv'
<1> SUFFICES ASSUME Inv, [Next]_vars PROVE Inv'
  OBVIOUS
<1>1. CASE MakeServersPanics \/ NewUnstartedServerPanics \/ ListenPanics
  BY <1>1, ExitKeeps DEF MakeServersPanics, NewUnstartedServerPanics, ListenPanics
<1>2. CASE SelectDeadlocks \/ Kill
  BY <1>2, ExitKeeps DEF SelectDeadlocks, Kill
<1>3. CASE UNCHANGED vars
  <2>1. TypeOK'
    BY <1>3 DEF vars, server, Inv, TypeOK, Chains, Ports
  <2>2. Control'
    BY <1>3 DEF vars, server, Inv, Control, Running, Stages, Port
  <2> QED
    BY <2>1, <2>2 DEF Inv
<1> QED
  BY <1>1, <1>2, <1>3, MakeServersKeeps, NextChainKeeps, NewMockChainKeeps,
     NewUnstartedServerKeeps, ListenKeeps, ReplaceListenerKeeps, StartServerKeeps, OthersMoveKeeps
     DEF Next, Main

-----------------------------------------------------------------------------
(* The invariant holds whatever happens to the process and its host. *)
THEOREM Invariance == Spec => []Inv
  BY InvInit, InvNext, PTL DEF Spec

(* The process is always at a statement of main or has ended, and what it   *)
(* holds are ports.                                                         *)
THEOREM TypeCorrect == Spec => []TypeOK
<1>1. Inv => TypeOK
  BY DEF Inv
<1> QED
  BY <1>1, Invariance, PTL

(* A running process serves exactly the chains before the one it starts,    *)
(* and none whose data New has not built.                                   *)
THEOREM FirstChainsServed == Spec => []ServesFirstChains
<1>1. Inv => ServesFirstChains
  BY DEF Inv, Control, ServesFirstChains
<1> QED
  BY <1>1, Invariance, PTL

(* New leaves no listener behind but the one of its chain.                  *)
THEOREM NothingLeaks == Spec => []NoListenerLeaks
<1>1. Inv => NoListenerLeaks
  BY DEF Inv, Control, Stages, NoListenerLeaks, Held
<1> QED
  BY <1>1, Invariance, PTL

-----------------------------------------------------------------------------
(* Panics. *)

\* The fixed port of a chain is not the one of a chain that serves.
LEMMA OwnPort ==
  ASSUME Inv, Running
  PROVE  Port(chain) \notin {Port(i) : i \in serving}
<1>1. serving = 0 .. chain - 1 /\ chain \in Nat /\ StartPort \in Nat
  BY Numbers DEF Inv, Control
<1>2. \A i \in 0 .. chain - 1 : Port(i) # Port(chain)
  BY <1>1 DEF Port
<1> QED
  BY <1>1, <1>2

(* A process panics for a reason outside of the chains it already serves:   *)
(* its arguments, the ports of others, or its own temporary listener on an  *)
(* ephemeral port that is also the chain's fixed one.                       *)
THEOREM PanicsAreCaused == Spec => PanicsHaveACause
<1> DEFINE Caused ==
      pc # "panicked" /\ pc' = "panicked" =>
        \/ numChains < 0
        \/ Port(chain) > MaxPort
        \/ Port(chain) \in others
        \/ Port(chain) = temporary /\ Port(chain) \in Ephemeral
        \/ Ephemeral \subseteq {Port(i) : i \in 0 .. chain - 1} \cup others
<1>1. ASSUME Inv, ListenPanics PROVE Caused
  <2>1. pc = "listen" /\ Port(chain) \notin Free
    BY <1>1 DEF ListenPanics
  <2>2. Running /\ bound = 0 /\ temporary \in Ephemeral \cup {0}
    BY <1>1, <2>1 DEF Inv, Control, Running, TypeOK
  <2>3. Port(chain) \in Nat /\ Port(chain) > 0
    BY <1>1, Numbers DEF Inv, Port
  <2>4. Port(chain) \notin {Port(i) : i \in serving}
    BY <1>1, <2>2, OwnPort
  <2>5. CASE Port(chain) > MaxPort
    BY <2>5
  <2>6. CASE Port(chain) <= MaxPort
    <3>1. Port(chain) \in Ports
      BY <1>1, <2>3, <2>6, Numbers DEF Inv, Ports
    <3>2. Port(chain) \in others \/ Port(chain) \in {temporary, bound} \ {0}
      BY <2>1, <2>4, <3>1 DEF Free, Held
    <3> QED
      BY <2>2, <3>2
  <2> QED
    BY <1>1, <2>3, <2>5, <2>6, Numbers DEF Inv
<1>2. ASSUME Inv, NewUnstartedServerPanics PROVE Caused
  <2>1. pc = "unstarted" /\ Ephemeral \cap Free = {}
    BY <1>2 DEF NewUnstartedServerPanics
  <2>2. temporary = 0 /\ bound = 0 /\ serving = 0 .. chain - 1
    BY <1>2, <2>1 DEF Inv, Control, Running
  <2>3. Held = {Port(i) : i \in 0 .. chain - 1}
    BY <2>2 DEF Held
  <2>4. Ephemeral \subseteq Ports
    BY <1>2, Numbers DEF Inv
  <2> QED
    BY <2>1, <2>3, <2>4 DEF Free
<1>3. ASSUME Inv, [Next]_vars PROVE Caused
  <2>1. CASE MakeServersPanics
    BY <2>1 DEF MakeServersPanics
  <2>2. CASE SelectDeadlocks \/ Kill
    BY <2>2 DEF SelectDeadlocks, Kill, Exit
  <2>3. CASE UNCHANGED vars
    BY <2>3 DEF vars
  <2>4. CASE \/ MakeServers \/ NextChain \/ NewMockChain \/ NewUnstartedServer \/ Listen
             \/ ReplaceListener \/ StartServer \/ OthersMove
    BY <2>4 DEF MakeServers, NextChain, NewMockChain, NewUnstartedServer, Listen,
                ReplaceListener, StartServer, OthersMove
  <2> QED
    BY <1>1, <1>2, <1>3, <2>1, <2>2, <2>3, <2>4 DEF Next, Main
<1>4. Inv /\ [Next]_vars => [Caused]_vars
  BY <1>3
<1> QED
  BY <1>4, Invariance, PTL DEF Spec, PanicsHaveACause
=============================================================================
