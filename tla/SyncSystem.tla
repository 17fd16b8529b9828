----------------------------- MODULE SyncSystem -----------------------------
(***************************************************************************)
(* The whole protocol: the sync cycles of ClientSync on several devices    *)
(* against the server, over a network that loses requests and replies and  *)
(* delivers a request after its sender gave up on it.                      *)
(*                                                                         *)
(* The server stamps a request when it comes in and applies it later, in   *)
(* one step: load, merge and rename are what SyncServer is proved to do    *)
(* atomically, for any stamp, but nothing there puts the commits in the    *)
(* order of the stamps.  The clock is strict: no two batches that carry    *)
(* events have the same stamp (SyncServer shows what happens otherwise).   *)
(***************************************************************************)
EXTENDS ClientSync

CONSTANTS
  MaxLost   \* bound: exchanges that fail

ASSUME SyncSystemAssumption == MaxLost \in Nat

VARIABLES
  server,   \* the canonical state
  clock,    \* the server's clock
  req,      \* req[d][p]: the exchange process p waits for, see NoRequest
  stray,    \* requests under way whose senders gave up
  lost,     \* failed exchanges
  (* History: *)
  overruled,  \* overruled[d][p]: channels that p's request is about and on which
              \* a batch not stamped before it, but applied first, says the opposite
  wanted,   \* the channels the users want, by their last changes
  editors   \* editors[c]: the devices where c was ever changed

netvars == <<server, clock, req, stray, lost, overruled>>
wishes  == <<wanted, editors>>
sysvars == <<vars, netvars, wishes>>

\* A request, its stamp and its reply; at = 0 has yet to be stamped.
NoRequest == [st |-> "none", events |-> {}, at |-> 0, reply |-> {}]

SysInit ==
  /\ Init
  /\ server = EmptyState /\ clock = 1
  /\ req = [d \in Device |-> [p \in Proc |-> NoRequest]]
  /\ stray = {} /\ lost = 0
  /\ overruled = [d \in Device |-> [p \in Proc |-> {}]]
  /\ wanted = UNION {db[d][k] : d \in Device, k \in Install}
  /\ editors = [c \in Channel |-> {d \in Device : \E k \in Install : c \in db[d][k]}]

-----------------------------------------------------------------------------
(* The user, with history. *)
UserToggles(d, c) ==
  /\ Toggle(d, c)
  /\ wanted' = IF c \in mem'[d] THEN wanted \cup {c} ELSE wanted \ {c}
  /\ editors' = [editors EXCEPT ![c] = @ \cup {d}]
  /\ UNCHANGED netvars

UserStep(d) ==
  \/ \E c \in Channel : UserToggles(d, c)
  \/ /\ Close(d) \/ Die(d) \/ \E k \in Install : Open(d, k)
     /\ UNCHANGED <<netvars, wishes>>

-----------------------------------------------------------------------------
(* The exchange of a cycle with the server. *)

Send(d, p) ==
  /\ Post(d, p)
  /\ req' = [req EXCEPT ![d][p].st = "sent", ![d][p].events = buildEvents(d, p)]
  /\ UNCHANGED <<server, clock, stray, lost, overruled, wishes>>

\* Mistake: the stamp is the same for batches close to each other.
MistakeCoarseStamp(events) == UNCHANGED clock

\* The clock has gone on before the next batch is stamped; no batch can tell what
\* stamp an empty one has.
Stamps(events) == clock' = IF events = {} THEN clock ELSE clock + 1

\* The handler has the request, and is yet to get hold of the state.
Arrive(d, p) ==
  /\ req[d][p].st = "sent"
  /\ Stamps(req[d][p].events)
  /\ req' = [req EXCEPT ![d][p].st = "stamped", ![d][p].at = clock]
  /\ overruled' = [overruled EXCEPT ![d][p] = {}]
  /\ UNCHANGED <<vars, server, stray, lost, wishes>>

\* The channels on which one of two batches says the opposite of the other.
Contrary(ours, theirs) ==
  {c \in Channel :
     \/ [channel |-> c, action |-> Add] \in ours /\ [channel |-> c, action |-> Remove] \in theirs
     \/ [channel |-> c, action |-> Remove] \in ours /\ [channel |-> c, action |-> Add] \in theirs}

(* Store.Apply, with history. *)
Apply(events, at) ==
  /\ server' = ApplyEvents(server, events, at)
  /\ overruled' = [d \in Device |-> [p \in Proc |->
       IF req[d][p].st = "stamped" /\ at >= req[d][p].at
       THEN overruled[d][p] \cup Contrary(req[d][p].events, events)
       ELSE overruled[d][p]]]

Commit(d, p) ==
  /\ req[d][p].st = "stamped"
  /\ Apply(req[d][p].events, req[d][p].at)
  /\ req' = [req EXCEPT ![d][p].st = "answered", ![d][p].at = 0,
                        ![d][p].reply = SubscribedChannels(server')]
  /\ UNCHANGED <<vars, clock, stray, lost, wishes>>

Answer(d, p) ==
  /\ req[d][p].st = "answered"
  /\ Receive(d, p, req[d][p].reply)
  /\ req' = [req EXCEPT ![d][p] = NoRequest]
  /\ UNCHANGED <<server, clock, stray, lost, overruled, wishes>>

\* Mistake: the reply that comes too late is still waited for.
MistakeKeepsRequest(d, p) ==
  /\ lost < MaxLost
  /\ lost' = lost + 1
  /\ NetworkFailed(d, p)
  /\ UNCHANGED <<req, stray, server, clock, overruled, wishes>>

(***************************************************************************)
(* The exchange fails, or the process is killed while it waits: the        *)
(* request never arrives, or arrives later, or it did and is applied later *)
(* or never, or it was and the reply is lost.  A late batch without events *)
(* would change nothing.                                                   *)
(***************************************************************************)
GiveUp(d, p) ==
  /\ lost < MaxLost
  /\ lost' = lost + 1
  /\ NetworkFailed(d, p)
  /\ req' = [req EXCEPT ![d][p] = NoRequest]
  /\ \/ UNCHANGED stray
     \/ /\ req[d][p].st \in {"sent", "stamped"} /\ req[d][p].events # {}
        /\ stray' = stray \cup {[device |-> d, events |-> req[d][p].events,
                                 at |-> req[d][p].at]}
  /\ UNCHANGED <<server, clock, overruled, wishes>>

LateArrive(r) ==
  /\ r \in stray /\ r.at = 0
  /\ Stamps(r.events)
  /\ stray' = (stray \ {r}) \cup {[r EXCEPT !.at = clock]}
  /\ UNCHANGED <<vars, server, req, lost, overruled, wishes>>

LateCommit(r) ==
  /\ r \in stray /\ r.at # 0
  /\ Apply(r.events, r.at)
  /\ stray' = stray \ {r}
  /\ UNCHANGED <<vars, clock, req, lost, wishes>>

LateStep == \E r \in stray : LateArrive(r) \/ LateCommit(r)

-----------------------------------------------------------------------------
(* Files that disappear between two syncs; each counts as a fault.         *)

\* uninstall-client.sh, and a reinstall: the next cycle is a first one.
LoseShadow(d) ==
  /\ faults < MaxFaults
  /\ faults' = faults + 1
  /\ \A p \in Proc : sync[d][p].pc = "idle"
  /\ shadow' = [shadow EXCEPT ![d] = {}]
  /\ UNCHANGED <<db, freetube, sync, toggles, history, netvars, wishes>>

\* The server starts over without its state file.
LoseState ==
  /\ faults < MaxFaults
  /\ faults' = faults + 1
  /\ server' = EmptyState
  /\ UNCHANGED <<files, freetube, sync, toggles, history,
                 clock, req, stray, lost, overruled, wishes>>

-----------------------------------------------------------------------------
CycleStep(d, p) ==
  \/ LocalStep(d, p) /\ UNCHANGED <<netvars, wishes>>
  \/ Send(d, p) \/ Arrive(d, p) \/ Commit(d, p) \/ Answer(d, p)

Killed(d, p) ==
  /\ sync[d][p].pc # "wait"
  /\ Abort(d, p)
  /\ UNCHANGED <<netvars, wishes>>

SysNext ==
  \/ \E d \in Device :
       \/ UserStep(d) \/ LoseShadow(d)
       \/ \E p \in Proc : CycleStep(d, p) \/ GiveUp(d, p) \/ Killed(d, p)
  \/ LateStep
  \/ LoseState

(***************************************************************************)
(* The timer starts a cycle again and again (freetube-sync.timer), a       *)
(* started cycle goes on, a request or reply that is not lost arrives, and *)
(* the server handles it.  Nobody is obliged to open or close FreeTube.    *)
(***************************************************************************)
SysFairness ==
  /\ \A d \in Device, p \in Proc : WF_sysvars(CycleStep(d, p))
  /\ WF_sysvars(LateStep)

SysSpec == SysInit /\ [][SysNext]_sysvars /\ SysFairness

-----------------------------------------------------------------------------
(* Server, messages and history keep their types. *)
SysTypeOK ==
  /\ TypeOK
  /\ server \in State /\ clock \in Nat \ {0}
  /\ req \in [Device -> [Proc -> [st : {"none", "sent", "stamped", "answered"},
                                  events : SUBSET Event, at : Nat,
                                  reply : SUBSET Channel]]]
  /\ \A d \in Device, p \in Proc : req[d][p].st = "none" <=> sync[d][p].pc # "wait"
  /\ stray \subseteq [device : Device, events : SUBSET Event, at : Nat]
  /\ lost \in 0..MaxLost
  /\ overruled \in [Device -> [Proc -> SUBSET Channel]]
  /\ wanted \subseteq Channel /\ editors \in [Channel -> SUBSET Device]

(***************************************************************************)
(* README.md:117-125, handler.go:101: what a cycle has told the server is  *)
(* the last word when its reply is made, and so the cycle leaves it in the *)
(* database, though other devices' batches, late ones among them, are      *)
(* stamped and applied between any two of its steps, and not always in the *)
(* order of their stamps.  Only a word that is really later can take it    *)
(* back: one stamped while the request waited for the state, and applied   *)
(* before it.                                                              *)
(***************************************************************************)
OwnChangesKept ==
  [][\A d \in Device, p \in Proc :
       WriteDB(d, p) =>
         \A c \in (added(d, p) \cup removed(d, p)) \ overruled[d][p] :
           c \in db'[d][sync[d][p].k] <=> c \in sync[d][p].cur]_vars

(***************************************************************************)
(* shadow.go:1-5, clientsync.go:1-4: nothing the user changed is forgotten *)
(* between the devices and the server.  While nothing fails, a channel     *)
(* that only one device's user ever changed is on the server as that user  *)
(* wants it, or the device's next events will say so.                      *)
(***************************************************************************)
ChangeUnderWay ==
  lost = 0 /\ faults = 0 =>
    \A d \in Device, c \in Channel : editors[c] = {d} =>
      \/ c \in SubscribedChannels(server) <=> c \in wanted
      \/ \E k \in Install : c \in SymDiff(db[d][k], shadow[d])

\* FreeTube is closed, and was closed properly.
Quiet == \A d \in Device : ft[d] = Off /\ lock[d] = {}

Agreed ==
  \A d \in Device : /\ shadow[d] = SubscribedChannels(server)
                    /\ \A k \in Install : db[d][k] = SubscribedChannels(server)

(***************************************************************************)
(* README.md:117-125: the devices converge.  Once FreeTube stays closed    *)
(* everywhere, all databases and shadows come to be, and stay, the         *)
(* server's set, whatever was lost, late or interrupted before.            *)
(***************************************************************************)
Convergence == <>[]Quiet => <>[]Agreed

(***************************************************************************)
(* A channel only one device's user ever changed has no conflict: in the   *)
(* end it is as that user left it.  (When nothing was interrupted after    *)
(* the server applied it and no file disappeared; a lost reply may cost    *)
(* the user's next change.)                                                *)
(***************************************************************************)
SoleEditorWins ==
  <>[]Quiet =>
    <>[](lost = 0 /\ faults = 0 =>
           \A c \in Channel : Cardinality(editors[c]) = 1 =>
             (c \in SubscribedChannels(server) <=> c \in wanted))
=============================================================================
