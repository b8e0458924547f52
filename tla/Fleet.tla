------------------------------- MODULE Fleet -------------------------------
(***************************************************************************)
(* The process of main.go and the servers it starts with New of            *)
(* mockserver/server.go: one chain after the other is built, gets a        *)
(* temporary listener on an ephemeral port (httptest.NewUnstartedServer),  *)
(* a listener on its fixed port, and starts to serve.  After the last one  *)
(* main blocks in an empty select.                                         *)
(*                                                                         *)
(* Other processes of the host take and release ports meanwhile.  A panic  *)
(* anywhere, and a select nobody can wake while no server runs, end the    *)
(* process with all its servers.                                           *)
(***************************************************************************)
EXTENDS Integers

CONSTANTS
  ChainCounts, \* values of -chains
  StartPort,   \* -start-port
  MaxPort,     \* the largest TCP port (65535)
  Ephemeral    \* the ports the kernel hands out to listeners on port 0

ASSUME FleetAssumption ==
  /\ ChainCounts \subseteq Int
  /\ StartPort \in Nat \ {0}
  /\ MaxPort \in Nat
  /\ Ephemeral \subseteq 1 .. MaxPort

VARIABLES
  numChains, \* -chains of this process
  pc,        \* what main does next
  chain,     \* the loop's index
  built,     \* the chains whose data are complete
  temporary, \* the port of the temporary listener, 0 if there is none
  bound,     \* the fixed port of the server being started, 0 if there is none
  serving,   \* the chains whose server accepts requests
  others     \* ports held by other processes

server == <<temporary, bound, serving>>
vars == <<numChains, pc, chain, built, server, others>>

Chains == 0 .. numChains - 1
Ports == 1 .. MaxPort

\* Mutant: the chain's index is not added.
PortFixed(i) == StartPort

Port(i) == StartPort + i

\* The ports the process listens on.
Held == {Port(i) : i \in serving} \cup ({temporary, bound} \ {0})

Free == Ports \ (Held \cup others)

Running == pc \notin {"panicked", "deadlocked", "killed"}

\* The process ends; the kernel closes its listeners.
Exit(reason) ==
  /\ pc' = reason
  /\ temporary' = 0
  /\ bound' = 0
  /\ serving' = {}
  /\ UNCHANGED <<numChains, chain, built, others>>

-----------------------------------------------------------------------------
Init ==
  /\ numChains \in ChainCounts
  /\ pc = "make"
  /\ chain = 0
  /\ built = {}
  /\ temporary = 0
  /\ bound = 0
  /\ serving = {}
  /\ others \in SUBSET Ports

\* main makes the slice of its servers; a negative capacity panics.
MakeServers ==
  /\ pc = "make"
  /\ numChains >= 0
  /\ pc' = "loop"
  /\ UNCHANGED <<numChains, chain, built, server, others>>

MakeServersPanics ==
  /\ pc = "make"
  /\ numChains < 0
  /\ Exit("panicked")

\* Mutant: one chain too many.
NextChainInclusive ==
  /\ pc = "loop"
  /\ pc' = IF chain <= numChains THEN "build" ELSE "select"
  /\ UNCHANGED <<numChains, chain, built, server, others>>

\* The head of main's loop.
NextChain ==
  /\ pc = "loop"
  /\ pc' = IF chain < numChains THEN "build" ELSE "select"
  /\ UNCHANGED <<numChains, chain, built, server, others>>

\* Mutant: the data are left for later.
NewMockChainDeferred ==
  /\ pc = "build"
  /\ pc' = "unstarted"
  /\ UNCHANGED <<numChains, chain, built, server, others>>

\* New builds the whole chain before it opens a listener.
NewMockChain ==
  /\ pc = "build"
  /\ built' = built \cup {chain}
  /\ pc' = "unstarted"
  /\ UNCHANGED <<numChains, chain, server, others>>

NewUnstartedServer ==
  /\ pc = "unstarted"
  /\ \E port \in Ephemeral \cap Free : temporary' = port
  /\ pc' = "listen"
  /\ UNCHANGED <<numChains, chain, built, bound, serving, others>>

\* Without a free port for the temporary listener httptest panics.
NewUnstartedServerPanics ==
  /\ pc = "unstarted"
  /\ Ephemeral \cap Free = {}
  /\ Exit("panicked")

Listen ==
  /\ pc = "listen"
  /\ Port(chain) \in Free
  /\ bound' = Port(chain)
  /\ pc' = "replace"
  /\ UNCHANGED <<numChains, chain, built, temporary, serving, others>>

\* Mutant: main waits for a port that is taken.
ListenPanicsWithoutPort ==
  /\ pc = "listen"
  /\ Port(chain) \notin Ports
  /\ Exit("panicked")

\* The port is taken, be it by the temporary listener, or there is no such port.
ListenPanics ==
  /\ pc = "listen"
  /\ Port(chain) \notin Free
  /\ Exit("panicked")

\* Mutant: the temporary listener is not closed.
ReplaceListenerOnly ==
  /\ pc = "replace"
  /\ pc' = "start"
  /\ UNCHANGED <<numChains, chain, built, server, others>>

\* The fixed listener replaces the temporary one.
ReplaceListener ==
  /\ pc = "replace"
  /\ temporary' = 0
  /\ pc' = "start"
  /\ UNCHANGED <<numChains, chain, built, bound, serving, others>>

\* The server's goroutine accepts from here on; main goes on.
StartServer ==
  /\ pc = "start"
  /\ serving' = serving \cup {chain}
  /\ bound' = 0
  /\ chain' = chain + 1
  /\ pc' = "loop"
  /\ UNCHANGED <<numChains, built, temporary, others>>

\* The runtime stops a process without a goroutine that can run; a goroutine
\* in Accept can.
SelectDeadlocks ==
  /\ pc = "select"
  /\ serving = {}
  /\ Exit("deadlocked")

Kill ==
  /\ Running
  /\ Exit("killed")

\* Another process takes or releases a port; it cannot take a held one.
OthersMove ==
  /\ Running
  /\ \/ \E port \in Free : others' = others \cup {port}
     \/ \E port \in others : others' = others \ {port}
  /\ UNCHANGED <<numChains, pc, chain, built, server>>

Main ==
  \/ MakeServers
  \/ MakeServersPanics
  \/ NextChain
  \/ NewMockChain
  \/ NewUnstartedServer
  \/ NewUnstartedServerPanics
  \/ Listen
  \/ ListenPanics
  \/ ReplaceListener
  \/ StartServer
  \/ SelectDeadlocks

Next == Main \/ Kill \/ OthersMove

Spec == Init /\ [][Next]_vars

\* main is one goroutine of straight-line code.
FairSpec == Spec /\ WF_vars(Main)

-----------------------------------------------------------------------------
TypeOK ==
  /\ numChains \in ChainCounts
  /\ pc \in {"make", "loop", "build", "unstarted", "listen", "replace", "start", "select",
             "panicked", "deadlocked", "killed"}
  /\ chain = 0 \/ chain \in 0 .. numChains
  /\ built \subseteq Chains
  /\ temporary \in Ephemeral \cup {0}
  /\ bound \in Ports \cup {0}
  /\ serving \subseteq Chains
  /\ others \subseteq Ports

\* What a running process serves are the first chains, each of them complete,
\* and while it starts the next one no chain before it is missing.
ServesFirstChains == Running => serving = 0 .. chain - 1 /\ serving \subseteq built

\* Between two chains the process holds the ports of its serving chains and no
\* other: nothing is left of the temporary listeners.
NoListenerLeaks == pc \in {"loop", "select"} => Held = {Port(i) : i \in serving}

\* Why a process may panic: it is asked for fewer than no chains, a chain's port is
\* beyond the last or taken by another process, the host has no ephemeral port left,
\* or, as the fixed ports of the fleet may be ephemeral ones, New has just taken the
\* chain's port itself for the temporary listener.  It never panics because of a
\* chain that serves or of a listener an earlier chain has left.
PanicsHaveACause ==
  [][pc # "panicked" /\ pc' = "panicked" =>
       \/ numChains < 0
       \/ Port(chain) > MaxPort
       \/ Port(chain) \in others
       \/ Port(chain) = temporary /\ Port(chain) \in Ephemeral
       \/ Ephemeral \subseteq {Port(i) : i \in 0 .. chain - 1} \cup others]_vars

\* main comes to rest: all the chains are served, or the process has ended with
\* none.  It never waits for a port.
AllServedOrEnded ==
  <>[](\/ pc = "select" /\ serving = Chains
       \/ ~Running /\ serving = {})
=============================================================================
