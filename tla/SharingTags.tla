---------------------------- MODULE SharingTags ----------------------------
(***************************************************************************)
(* One sharing tag of the clusterer module                                 *)
(* (modules/clusterer/sharing_tags.c) on every node of a cluster, together *)
(* with the part of the cluster engine it depends on: which links a node   *)
(* sees as up (topology.c, set_link_w_neigh), the node-up and node-down    *)
(* events this leaves behind (clusterer.c, do_actions_node_ev), and the    *)
(* sending of a packet (clusterer_send_msg).  Rerouting is off             *)
(* (clusterer_enable_rerouting = 0), so a packet goes over the direct link *)
(* or not at all.                                                          *)
(*                                                                         *)
(* A node is several processes that share its memory; each of them can run *)
(* a command, handle a packet or run the heartbeat timer.  Everything that *)
(* is done under shtags_lock excludes everything else done under it: a     *)
(* switchable reader excludes other switchable readers and writers.  What  *)
(* interleaves inside an activation is therefore the links and the wire.   *)
(***************************************************************************)
EXTENDS Naturals, FiniteSets

CONSTANTS
    Node,            \* the nodes of the cluster
    Proc,            \* the processes of a node
    NoProc,          \* "nobody holds shtags_lock"
    Configs,         \* the modparam settings: functions from Node to State
    MaxActivations,  \* bound: shtag_set_active commands
    MaxFaults,       \* bound: links found down and failed sends
    MaxRestarts,     \* bound: node crashes
    Loss,            \* whether the packets on a link are lost when it breaks
    Windows          \* FALSE: no process of a node runs while another one is
                     \* between the two halves of set_link_w_neigh

State == {"active", "backup"}

ASSUME TagConstants ==
    /\ IsFiniteSet(Node)
    /\ NoProc \notin Proc
    /\ Configs \subseteq [Node -> State]
    /\ MaxActivations \in Nat /\ MaxFaults \in Nat /\ MaxRestarts \in Nat
    /\ Loss \in BOOLEAN /\ Windows \in BOOLEAN

VARIABLES
    config,            \* how each node's configuration file sets the tag
    state,             \* tag->state
    send_active_msg,   \* tag->send_active_msg
    active_msgs_sent,  \* tag->active_msgs_sent, the set of its node ids
    sw,                \* the process holding shtags_lock as switchable reader
    up,                \* up[n]: the nodes whose link_state is LS_UP at n
    events,            \* events[n][m]: NODE_EVENT_UP, _DOWN flags of m at n
    pc,                \* what each process is doing
    todo,              \* the nodes its loop has yet to visit
    nested,            \* the same for a do_actions_node_ev inside that loop
    peer,              \* the node it is flushing the tag to
    wire,              \* wire[n][m]: ACTIVE packets on their way from n to m
    budget             \* what is left of the bounds

tag == <<state, send_active_msg, active_msgs_sent>>
links == <<up, events>>
procs == <<pc, todo, nested, peer>>
vars == <<config, tag, sw, links, procs, wire, budget>>

\* Mutant: a node finds itself in its list of nodes.
OthersAndSelf(n) == Node

Others(n) == Node \ {n}

Labels == {"idle", "activate", "activate_events", "linkup",
           "events", "flush", "flush_events", "stuck"}

\* The types of the state; a node neither links to itself (topology.c) nor notes
\* itself as informed (active_msgs_sent).
TypeOK ==
    /\ config \in [Node -> State]
    /\ state \in [Node -> State]
    /\ send_active_msg \in [Node -> BOOLEAN]
    /\ active_msgs_sent \in [Node -> SUBSET Node]
    /\ \A n \in Node : n \notin active_msgs_sent[n] \cup up[n]
    /\ sw \in [Node -> Proc \cup {NoProc}]
    /\ up \in [Node -> SUBSET Node]
    /\ events \in [Node -> [Node -> SUBSET {"up", "down"}]]
    /\ pc \in [Node -> [Proc -> Labels]]
    /\ todo \in [Node -> [Proc -> SUBSET Node]]
    /\ nested \in [Node -> [Proc -> SUBSET Node]]
    /\ peer \in [Node -> [Proc -> Node]]
    /\ wire \in [Node -> [Node -> Nat]]
    /\ budget \in [activations : Nat, faults : Nat, restarts : Nat]

----------------------------------------------------------------------------
(* Starting: shtag_modparam_func forces the configured state, and an active *)
(* tag is to be announced later, when the other nodes are seen.             *)

Configured(c) == c = "active"

Init ==
    /\ config \in Configs
    /\ state = config
    /\ send_active_msg = [n \in Node |-> Configured(config[n])]
    /\ active_msgs_sent = [n \in Node |-> {}]
    /\ sw = [n \in Node |-> NoProc]
    /\ up = [n \in Node |-> {}]
    /\ events = [n \in Node |-> [m \in Node |-> {}]]
    /\ pc = [n \in Node |-> [p \in Proc |-> "idle"]]
    /\ todo = [n \in Node |-> [p \in Proc |-> {}]]
    /\ nested = [n \in Node |-> [p \in Proc |-> {}]]
    /\ peer = [n \in Node |-> [p \in Proc |-> n]]
    /\ wire = [n \in Node |-> [m \in Node |-> 0]]
    /\ budget = [activations |-> MaxActivations, faults |-> MaxFaults,
                 restarts |-> MaxRestarts]

Goto(n, p, l) == pc' = [pc EXCEPT ![n][p] = l]

\* The node crashes and is started again with the same configuration.  Its
\* memory is gone, and so are the packets on their way to it; the others keep
\* what they knew about it.
Restart(n) ==
    /\ budget.restarts > 0
    /\ budget' = [budget EXCEPT !.restarts = @ - 1]
    /\ state' = [state EXCEPT ![n] = config[n]]
    /\ send_active_msg' = [send_active_msg EXCEPT ![n] = Configured(config[n])]
    /\ active_msgs_sent' = [active_msgs_sent EXCEPT ![n] = {}]
    /\ sw' = [sw EXCEPT ![n] = NoProc]
    /\ up' = [up EXCEPT ![n] = {}]
    /\ events' = [events EXCEPT ![n] = [m \in Node |-> {}]]
    /\ pc' = [pc EXCEPT ![n] = [p \in Proc |-> "idle"]]
    /\ todo' = [todo EXCEPT ![n] = [p \in Proc |-> {}]]
    /\ nested' = [nested EXCEPT ![n] = [p \in Proc |-> {}]]
    /\ peer' = [peer EXCEPT ![n] = [p \in Proc |-> n]]
    /\ wire' = [k \in Node |-> [wire[k] EXCEPT ![n] = 0]]
    /\ UNCHANGED config

----------------------------------------------------------------------------
(* Sending the ACTIVE packet: shtag_send_active_info, clusterer_send_msg    *)
(* and msg_send_retry.  A link that is not up refuses; otherwise msg_send   *)
(* takes the packet, or fails, which puts the link down.                    *)

Refused(n, m) == m \notin up[n] /\ UNCHANGED <<links, wire, budget>>

Accepted(n, m) ==
    /\ m \in up[n]
    /\ wire' = [wire EXCEPT ![n][m] = @ + 1]
    /\ active_msgs_sent' = [active_msgs_sent EXCEPT ![n] = @ \cup {m}]
    /\ UNCHANGED <<links, budget>>

SetLinkDown(n, m) ==
    /\ m \in up[n]
    /\ budget.faults > 0
    /\ budget' = [budget EXCEPT !.faults = @ - 1]
    /\ up' = [up EXCEPT ![n] = @ \ {m}]
    /\ events' = [events EXCEPT ![n][m] = @ \cup {"down"}]

Broken(n, m) == SetLinkDown(n, m) /\ UNCHANGED wire

----------------------------------------------------------------------------
(* shtag_activate: take the lock, set the state, visit the other nodes.     *)

Activate(n, p) ==
    /\ pc[n][p] = "idle"
    /\ sw[n] = NoProc
    /\ budget.activations > 0
    /\ budget' = [budget EXCEPT !.activations = @ - 1]
    /\ sw' = [sw EXCEPT ![n] = p]
    /\ state' = [state EXCEPT ![n] = "active"]
    /\ Goto(n, p, "activate")
    /\ todo' = [todo EXCEPT ![n][p] = Others(n)]
    /\ UNCHANGED <<config, send_active_msg, active_msgs_sent, links, nested, peer, wire>>

\* The node was informed by an earlier pass of the same announcement.
AlreadySent(n, m) == send_active_msg[n] /\ m \in active_msgs_sent[n]

\* A failed send leaves send_active_msg set, for shtag_flush_state to try
\* again; when it broke the link, clusterer_send_msg first runs the events.
ActivateSend(n, p, m) ==
    /\ pc[n][p] = "activate"
    /\ m \in todo[n][p]
    /\ todo' = [todo EXCEPT ![n][p] = @ \ {m}]
    /\ \/ /\ AlreadySent(n, m)
          /\ UNCHANGED <<tag, links, pc, nested, wire, budget>>
       \/ /\ ~AlreadySent(n, m)
          /\ Refused(n, m)
          /\ send_active_msg' = [send_active_msg EXCEPT ![n] = TRUE]
          /\ UNCHANGED <<state, active_msgs_sent, pc, nested>>
       \/ /\ ~AlreadySent(n, m)
          /\ Accepted(n, m)
          /\ UNCHANGED <<state, send_active_msg, pc, nested>>
       \/ /\ ~AlreadySent(n, m)
          /\ Broken(n, m)
          /\ Goto(n, p, "activate_events")
          /\ nested' = [nested EXCEPT ![n][p] = Others(n)]
          /\ UNCHANGED tag
    /\ UNCHANGED <<config, sw, peer>>

ActivateDone(n, p) ==
    /\ pc[n][p] = "activate"
    /\ todo[n][p] = {}
    /\ sw' = [sw EXCEPT ![n] = NoProc]
    /\ Goto(n, p, "idle")
    /\ UNCHANGED <<config, tag, links, todo, nested, peer, wire, budget>>

----------------------------------------------------------------------------
(* The links.  Whoever changes one runs do_actions_node_ev afterwards.      *)

StartEvents(n, p) ==
    /\ Goto(n, p, "events")
    /\ todo' = [todo EXCEPT ![n][p] = Others(n)]

\* A pong brings a link up (handle_pong, set_link_w_neigh_up).  The event flag
\* is set, and the node's lock released and taken again, before link_state is.
LinkUp(n, p, m) ==
    /\ pc[n][p] = "idle"
    /\ m \in Others(n) \ up[n]
    /\ events' = [events EXCEPT ![n][m] = @ \cup {"up"}]
    /\ Goto(n, p, "linkup")
    /\ peer' = [peer EXCEPT ![n][p] = m]
    /\ UNCHANGED <<config, tag, sw, up, todo, nested, wire, budget>>

LinkUpSet(n, p) ==
    /\ pc[n][p] = "linkup"
    /\ up' = [up EXCEPT ![n] = @ \cup {peer[n][p]}]
    /\ StartEvents(n, p)
    /\ peer' = [peer EXCEPT ![n][p] = n]
    /\ UNCHANGED <<config, tag, sw, events, nested, wire, budget>>

\* A heartbeat is not answered, or a packet other than ACTIVE cannot be sent.
\* msg_send takes packets that then break with the connection (Loss).
LinkDown(n, p, m) ==
    /\ pc[n][p] = "idle"
    /\ SetLinkDown(n, m)
    /\ StartEvents(n, p)
    /\ wire' \in {wire} \cup (IF Loss THEN {[wire EXCEPT ![n][m] = 0]} ELSE {})
    /\ UNCHANGED <<config, tag, sw, nested, peer>>

\* The timer and the handlers also run the events when they changed no link
\* themselves (a retried ping, a link-state update), and then find the flags
\* another process has set and not yet acted upon.
RunEvents(n, p) ==
    /\ pc[n][p] = "idle"
    /\ \E m \in Others(n) : events[n][m] # {}
    /\ StartEvents(n, p)
    /\ UNCHANGED <<config, tag, sw, links, nested, peer, wire, budget>>

----------------------------------------------------------------------------
(* do_actions_node_ev visits every node: a down event is consumed and does  *)
(* nothing to the tag, otherwise an up event has the tag flushed.           *)

NoEvent(n, m) == events[n][m] = {} /\ UNCHANGED events

DownEvent(n, m) ==
    /\ "down" \in events[n][m]
    /\ events' = [events EXCEPT ![n][m] = @ \ {"down"}]

UpEvent(n, m) ==
    /\ events[n][m] = {"up"}
    /\ events' = [events EXCEPT ![n][m] = {}]

DoEvent(n, p, m) ==
    /\ pc[n][p] = "events"
    /\ m \in todo[n][p]
    /\ todo' = [todo EXCEPT ![n][p] = @ \ {m}]
    /\ \/ /\ NoEvent(n, m) \/ DownEvent(n, m)
          /\ UNCHANGED <<pc, peer>>
       \/ /\ UpEvent(n, m)
          /\ Goto(n, p, "flush")
          /\ peer' = [peer EXCEPT ![n][p] = m]
    /\ UNCHANGED <<config, tag, sw, up, nested, wire, budget>>

DoneEvents(n, p) ==
    /\ pc[n][p] = "events"
    /\ todo[n][p] = {}
    /\ Goto(n, p, "idle")
    /\ UNCHANGED <<config, tag, sw, links, todo, nested, peer, wire, budget>>

\* shtag_flush_state, once it has the lock.
Flush(n, p) ==
    LET m == peer[n][p] IN
    /\ pc[n][p] = "flush"
    /\ sw[n] = NoProc
    /\ \/ /\ ~send_active_msg[n] \/ m \in active_msgs_sent[n]
          /\ Goto(n, p, "events")
          /\ UNCHANGED <<active_msgs_sent, sw, links, nested, wire, budget>>
       \/ /\ send_active_msg[n] /\ m \notin active_msgs_sent[n]
          /\ \/ Accepted(n, m)
             \/ Refused(n, m) /\ UNCHANGED active_msgs_sent
          /\ Goto(n, p, "events")
          /\ UNCHANGED <<sw, nested>>
       \/ /\ send_active_msg[n] /\ m \notin active_msgs_sent[n]
          /\ Broken(n, m)
          /\ sw' = [sw EXCEPT ![n] = p]
          /\ Goto(n, p, "flush_events")
          /\ nested' = [nested EXCEPT ![n][p] = Others(n)]
          /\ UNCHANGED active_msgs_sent
    /\ peer' = [peer EXCEPT ![n][p] = n]
    /\ UNCHANGED <<config, state, send_active_msg, todo>>

\* A do_actions_node_ev run from clusterer_send_msg, with shtags_lock held by
\* this very process.  An up event makes it wait for a lock it holds itself.
NestedEvent(n, p, m) ==
    /\ pc[n][p] \in {"activate_events", "flush_events"}
    /\ m \in nested[n][p]
    /\ nested' = [nested EXCEPT ![n][p] = @ \ {m}]
    /\ \/ /\ NoEvent(n, m) \/ DownEvent(n, m)
          /\ UNCHANGED pc
       \/ /\ UpEvent(n, m)
          /\ Goto(n, p, "stuck")
    /\ UNCHANGED <<config, tag, sw, up, todo, peer, wire, budget>>

\* Mutant: the activation does not note that it has to be repeated.
ActivateFailedForgets(n, p) ==
    /\ pc[n][p] = "activate_events"
    /\ nested[n][p] = {}
    /\ Goto(n, p, "activate")
    /\ UNCHANGED <<config, tag, sw, links, todo, nested, peer, wire, budget>>

\* Back from the failed send: the activation notes that it has to be repeated.
ActivateFailed(n, p) ==
    /\ pc[n][p] = "activate_events"
    /\ nested[n][p] = {}
    /\ send_active_msg' = [send_active_msg EXCEPT ![n] = TRUE]
    /\ Goto(n, p, "activate")
    /\ UNCHANGED <<config, state, active_msgs_sent, sw, links, todo, nested, peer,
                   wire, budget>>

FlushFailed(n, p) ==
    /\ pc[n][p] = "flush_events"
    /\ nested[n][p] = {}
    /\ sw' = [sw EXCEPT ![n] = NoProc]
    /\ Goto(n, p, "events")
    /\ UNCHANGED <<config, tag, links, todo, nested, peer, wire, budget>>

----------------------------------------------------------------------------
\* Mutant: the node steps down but keeps the list of the nodes it informed.
HandleActiveKeepsList(n, p, m) ==
    /\ pc[n][p] = "idle"
    /\ wire[m][n] > 0
    /\ sw[n] = NoProc
    /\ wire' = [wire EXCEPT ![m][n] = @ - 1]
    /\ state' = [state EXCEPT ![n] = "backup"]
    /\ send_active_msg' = [send_active_msg EXCEPT ![n] = FALSE]
    /\ UNCHANGED <<config, active_msgs_sent, sw, links, procs, budget>>

\* handle_shtag_active, under the write lock: step down, forget everything.
HandleActive(n, p, m) ==
    /\ pc[n][p] = "idle"
    /\ wire[m][n] > 0
    /\ sw[n] = NoProc
    /\ wire' = [wire EXCEPT ![m][n] = @ - 1]
    /\ state' = [state EXCEPT ![n] = "backup"]
    /\ send_active_msg' = [send_active_msg EXCEPT ![n] = FALSE]
    /\ active_msgs_sent' = [active_msgs_sent EXCEPT ![n] = {}]
    /\ UNCHANGED <<config, sw, links, procs, budget>>

----------------------------------------------------------------------------
Step(n, p) ==
    \/ ActivateDone(n, p) \/ LinkUpSet(n, p) \/ DoneEvents(n, p) \/ Flush(n, p)
    \/ ActivateFailed(n, p) \/ FlushFailed(n, p)
    \/ \E m \in Others(n) :
          ActivateSend(n, p, m) \/ DoEvent(n, p, m) \/ NestedEvent(n, p, m)

Idle(n, p) == pc[n][p] = "idle"

Stuck(n, p) == pc[n][p] = "stuck"

\* All has been done, or some node has a process that waits for itself and
\* whatever else it does may be waiting behind it.
Rest ==
    /\ \/ \A n \in Node, p \in Proc : Idle(n, p)
       \/ \E n \in Node, p \in Proc : Stuck(n, p)
    /\ UNCHANGED vars

InWindow(n, p) == ~Windows /\ \E q \in Proc \ {p} : pc[n][q] = "linkup"

Call(n, p) ==
    \/ Activate(n, p) \/ RunEvents(n, p) \/ Step(n, p)
    \/ \E m \in Others(n) :
          LinkUp(n, p, m) \/ LinkDown(n, p, m) \/ HandleActive(n, p, m)

Next ==
    \/ \E n \in Node : Restart(n)
    \/ \E n \in Node, p \in Proc : ~InWindow(n, p) /\ Call(n, p)
    \/ Rest

\* A process that is in the middle of something goes on, a packet on the wire
\* is handled, and the pings of two nodes that run bring their link up.
Fairness ==
    \A n \in Node :
       /\ \A p \in Proc : WF_vars(~InWindow(n, p) /\ Step(n, p))
       /\ \A m \in Node \ {n} :
             /\ SF_vars(\E p \in Proc : ~InWindow(n, p) /\ LinkUp(n, p, m))
             /\ SF_vars(\E p \in Proc : ~InWindow(n, p) /\ HandleActive(n, p, m))

Spec == Init /\ [][Next]_vars /\ Fairness

----------------------------------------------------------------------------
(* Properties                                                              *)

Actives == {n \in Node : state[n] = "active"}

\* Every node sees every other one, no packet is on its way, no event waits.
Connected == \A n \in Node : up[n] = Others(n) /\ \A m \in Node : events[n][m] = {} /\ wire[n][m] = 0

Quiet == Connected /\ \A n \in Node, p \in Proc : Idle(n, p)

\* What shtag_set_active is for ("to force any other node that may be active on
\* this tag to step down"): once everything has been delivered, the tag is
\* active on one node at most, whatever links failed and nodes restarted
\* meanwhile, and whichever activations raced.
AtMostOneActive == Quiet => \A n, m \in Actives : n = m

\* The same when the cluster has done all it ever will: a process that waits
\* for a lock it holds itself is not going to inform anybody.
BroadcastReaches ==
    (Connected /\ \A n \in Node, p \in Proc : Idle(n, p) \/ Stuck(n, p))
       => \A n, m \in Actives : n = m

\* n has not noted m as informed, and is going to send to it or try again: the
\* activation has not come to m, or the tag is marked for repetition (or will
\* be when the activation is back from its failed send) while m is down or its
\* up event is not yet acted upon.
WillTell(n, m) ==
    /\ m \notin active_msgs_sent[n]
    /\ \/ \E p \in Proc : pc[n][p] \in {"activate", "activate_events"} /\ m \in todo[n][p]
       \/ /\ send_active_msg[n] \/ \E p \in Proc : pc[n][p] = "activate_events"
          /\ \/ m \notin up[n]
             \/ "up" \in events[n][m]
             \/ \E p \in Proc : pc[n][p] = "flush" /\ peer[n][p] = m
       \/ \E p \in Proc : Stuck(n, p)

Owes(n, m) == wire[n][m] > 0 \/ WillTell(n, m)

\* While two nodes are active one of them still owes the other the news: it is
\* on the wire, or it will be sent.  (Unless, that is, the sending process has
\* blocked itself.)
SomeoneOwes == \A n, m \in Actives : n # m => Owes(n, m) \/ Owes(m, n)
=============================================================================
