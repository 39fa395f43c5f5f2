------------------------------ MODULE Plugins ------------------------------
(***************************************************************************)
(* The registry of plugin processes and the calls made to them.            *)
(*                                                                         *)
(* A call has an id, unique to its connection at most: a plugin that is    *)
(* registered again starts over, with a new process and nothing of what    *)
(* the old one had in flight, cancelled or answered.                       *)
(***************************************************************************)
EXTENDS Naturals, FiniteSets

CONSTANTS
  PluginId,   \* ids that manifests carry
  Family,     \* extension families
  MaxCall     \* bound: call ids of a process

\* The ids that callers choose for long calls.
CallId == 1 .. MaxCall

VARIABLE plugins   \* PluginRegistry: [PluginId -> process or Absent]

\* The three sorts of manifest: one that passes the handshake, one with
\* another protocol version, one that misses a method of its family.
Manifest == [family : Family, offers : {"contract", "version", "methods"}]

Absent == [family |-> "none", state |-> "absent", next |-> 1,
           in_flight |-> {}, cancelled |-> {}, answered |-> {}]

negotiate(m) == m.offers = "contract"

connect(m) ==
  [Absent EXCEPT !.family = m.family,
                 !.state = IF negotiate(m) THEN "active" ELSE "refused"]

PluginsInit == plugins = [id \in PluginId |-> Absent]

\* A plugin that is refused is recorded; one that would be the second of its
\* family is not.  Either replaces what had its id.
register(id, m) ==
  /\ \/ ~negotiate(m)
     \/ \A o \in PluginId \ {id} :
          ~(plugins[o].family = m.family /\ plugins[o].state = "active")
  /\ plugins' = [plugins EXCEPT ![id] = connect(m)]

mark_unavailable(id) ==
  /\ plugins[id].state = "active"
  /\ plugins' = [plugins EXCEPT ![id].state = "unavailable", ![id].in_flight = {}]

shutdown(id) ==
  /\ plugins[id].state \notin {"absent", "refused"}
  /\ plugins' = [plugins EXCEPT ![id].state = "stopped", ![id].in_flight = {}]

\* Every call of an active plugin takes the next id, is in flight under it and
\* then answered; one to a method it does not have is answered for it.  A plugin
\* that is not active answers too, and nothing changes.
invoke(id) ==
  LET p == plugins[id] IN
  /\ p.state = "active"
  /\ p.next <= MaxCall
  /\ plugins' = [plugins EXCEPT ![id].next = @ + 1,
                                ![id].in_flight = @ \ {p.next},
                                ![id].answered = @ \cup {p.next}]

\* Mutation of begin_call: the counter moves on by one, whatever the id.
begin_call_counted(id, call) ==
  /\ plugins[id].state # "absent"
  /\ plugins' = [plugins EXCEPT ![id].in_flight = @ \cup {call},
                                ![id].next = IF @ > MaxCall THEN @ ELSE @ + 1]

\* A long call is registered under an id of the caller's choice, in any state
\* and whatever became of an earlier call with that id.
begin_call(id, call) ==
  /\ plugins[id].state # "absent"
  /\ plugins' = [plugins EXCEPT ![id].in_flight = @ \cup {call},
                                ![id].next = IF call < @ THEN @ ELSE call + 1]

cancel(id, call) ==
  /\ call \in plugins[id].in_flight
  /\ plugins' = [plugins EXCEPT ![id].in_flight = @ \ {call},
                                ![id].cancelled = @ \cup {call}]

PluginsNext ==
  \E id \in PluginId :
    \/ \E m \in Manifest : register(id, m)
    \/ mark_unavailable(id)
    \/ shutdown(id)
    \/ invoke(id)
    \/ \E call \in CallId : begin_call(id, call)
    \/ \E call \in plugins[id].in_flight : cancel(id, call)

-----------------------------------------------------------------------------
(***************************************************************************)
(* The id that invoke takes, and next_pending_id offers, has not been used *)
(* on this connection, whatever ids callers chose for calls of their own:  *)
(* an invoke never ends a long call that is in flight, and never answers   *)
(* under an id that is reported as cancelled.  (invoke, begin_call)        *)
(***************************************************************************)
NextIdIsUnused ==
  \A id \in PluginId :
    LET p == plugins[id]
    IN  p.next \notin p.in_flight \cup p.cancelled \cup p.answered
=============================================================================
