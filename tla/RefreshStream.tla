---------------------------- MODULE RefreshStream ----------------------------
(***************************************************************************)
(* How an open browser learns that the connected workspace has changed:    *)
(* every transaction that changes something also counts up the revision in *)
(* the Simulation row, each browser's websocket polls that revision        *)
(* (api/workspace_ws.py), and a frame makes the browser fetch its data     *)
(* again (frontend/src/lib/api.ts, ConnectedApp.tsx).                      *)
(*                                                                         *)
(* Requests lock the row before they read it, so one of them is one step.  *)
(* The worker (workspace_worker.cycle) has the row in its session from the *)
(* start of a cycle until its first commit, and locking a row that a       *)
(* session already holds does not read it again.                           *)
(***************************************************************************)
EXTENDS Integers, TLC

CONSTANTS
    Clients,     \* browsers with the workspace open
    MaxContent,  \* committed changes, a bound of the model
    MaxDue,      \* changes that one cycle of the worker commits: a tick, weather, receipts
    None

ASSUME RefreshAssumption == MaxContent \in Nat /\ MaxDue \in Nat /\ None \notin Nat

VARIABLES
    revision,  \* Simulation.revision
    content,   \* changes committed so far; the revision is meant to count them
    loaded,    \* the revision in the worker's session, or None
    due,       \* changes the worker's cycle has still to commit
    signed,    \* signed[c]: c's session is valid
    stream,    \* stream[c]: the revision c's socket has reported last, or None when closed
    frames,    \* frames[c]: messages on their way to c
    told,      \* told[c]: the changes committed when c's last frame was sent
    fetching,  \* fetching[c]: the changes in the answer c waits for, or None
    shown      \* shown[c]: the changes that c shows

server == <<revision, content, loaded, due>>
browser == <<fetching, shown>>
vars == <<server, signed, stream, frames, told, browser>>

Init ==
    /\ revision = 0 /\ content = 0
    /\ loaded = None /\ due = 0
    /\ signed = [c \in Clients |-> TRUE]
    /\ stream = [c \in Clients |-> None]
    /\ frames = [c \in Clients |-> 0]
    /\ told = [c \in Clients |-> 0]
    /\ fetching = [c \in Clients |-> None]
    /\ shown = [c \in Clients |-> 0]

-----------------------------------------------------------------------------
(***************************************************************************)
(* Writers.                                                                *)
(***************************************************************************)
\* A transaction that changes something: state(db, lock=True), bump, commit.
Mutate ==
    /\ content < MaxContent
    /\ content' = content + 1
    /\ revision' = revision + 1
    /\ UNCHANGED <<loaded, due, signed, stream, frames, told, browser>>

\* cycle: the row is read to learn what there is to do.
CycleBegins ==
    /\ due = 0 /\ MaxDue > 0
    /\ \E n \in 1 .. MaxDue : due' = n
    /\ loaded' = revision
    /\ UNCHANGED <<revision, content, signed, stream, frames, told, browser>>

\* bump(state(db, True)) and the commit, which expires the session's rows.
CycleCommits ==
    /\ due > 0 /\ content < MaxContent
    /\ content' = content + 1
    /\ revision' = (IF loaded = None THEN revision ELSE loaded) + 1
    /\ due' = due - 1
    /\ loaded' = None
    /\ UNCHANGED <<signed, stream, frames, told, browser>>

\* run_worker: a failed cycle is tried again as a whole.
CycleFails ==
    /\ due > 0
    /\ due' = 0 /\ loaded' = None
    /\ UNCHANGED <<revision, content, signed, stream, frames, told, browser>>

-----------------------------------------------------------------------------
(***************************************************************************)
(* The stream.                                                             *)
(***************************************************************************)
Open(c) == stream[c] # None

Send(c) ==
    /\ stream' = [stream EXCEPT ![c] = revision]
    /\ frames' = [frames EXCEPT ![c] = @ + 1]
    /\ told' = [told EXCEPT ![c] = content]

\* Fault: a new stream says nothing until the revision changes.
ConnectQuietly(c) ==
    /\ ~Open(c) /\ signed[c]
    /\ stream' = [stream EXCEPT ![c] = revision]
    /\ UNCHANGED <<server, signed, frames, told, browser>>

\* The socket is accepted for a valid session only, and reports ready.
Connect(c) ==
    /\ ~Open(c) /\ signed[c]
    /\ Send(c)
    /\ UNCHANGED <<server, signed, browser>>

\* Once a second: the socket is closed when the session has ended, and reports a revision
\* that is not the one it reported last.
Poll(c) ==
    /\ Open(c)
    /\ \/ /\ ~signed[c]
          /\ stream' = [stream EXCEPT ![c] = None]
          /\ UNCHANGED <<frames, told>>
       \/ /\ signed[c] /\ revision # stream[c]
          /\ Send(c)
    /\ UNCHANGED <<server, signed, browser>>

\* The connection is lost, and what was on its way.
Drop(c) ==
    /\ Open(c)
    /\ stream' = [stream EXCEPT ![c] = None]
    /\ frames' = [frames EXCEPT ![c] = 0]
    /\ UNCHANGED <<server, signed, told, browser>>

\* The session expires, or the user signs out elsewhere.
SignOut(c) ==
    /\ signed[c]
    /\ signed' = [signed EXCEPT ![c] = FALSE]
    /\ UNCHANGED <<server, stream, frames, told, browser>>

-----------------------------------------------------------------------------
(***************************************************************************)
(* The browser.                                                            *)
(***************************************************************************)
\* A frame invalidates the data.  An answer that is awaited is not asked for again
\* (cancelRefetch: false).
Receive(c) ==
    /\ frames[c] > 0
    /\ frames' = [frames EXCEPT ![c] = @ - 1]
    /\ fetching' = [fetching EXCEPT ![c] = IF @ = None THEN content ELSE @]
    /\ UNCHANGED <<server, signed, stream, told, shown>>

\* Fault: the browser fetches by itself only while its stream is closed.
RefetchWhenClosed(c) ==
    /\ fetching[c] = None /\ ~Open(c)
    /\ fetching' = [fetching EXCEPT ![c] = content]
    /\ UNCHANGED <<server, signed, stream, frames, told, shown>>

\* refetchInterval: the browser also fetches every five seconds.
Refetch(c) ==
    /\ fetching[c] = None
    /\ fetching' = [fetching EXCEPT ![c] = content]
    /\ UNCHANGED <<server, signed, stream, frames, told, shown>>

\* The answer arrives; a request without a valid session is refused.
FetchEnds(c) ==
    /\ fetching[c] # None
    /\ shown' = [shown EXCEPT ![c] = IF signed[c] THEN fetching[c] ELSE @]
    /\ fetching' = [fetching EXCEPT ![c] = None]
    /\ UNCHANGED <<server, signed, stream, frames, told>>

Next ==
    \/ Mutate \/ CycleBegins \/ CycleCommits \/ CycleFails
    \/ \E c \in Clients :
         \/ Connect(c) \/ Poll(c) \/ Drop(c) \/ SignOut(c)
         \/ Receive(c) \/ Refetch(c) \/ FetchEnds(c)

\* Browsers reconnect and fetch on timers, sockets poll, and answers and frames arrive.
Fairness == \A c \in Clients :
    WF_vars(Connect(c)) /\ WF_vars(Poll(c)) /\ WF_vars(Receive(c))
    /\ WF_vars(Refetch(c)) /\ WF_vars(FetchEnds(c))

Spec == Init /\ [][Next]_vars /\ Fairness

-----------------------------------------------------------------------------
(***************************************************************************)
(* Properties.                                                             *)
(***************************************************************************)
\* A signed-in browser comes to show every change, whatever frames were lost, sent while
\* it was fetching, or never sent (refetchInterval).
EventuallyShown ==
    \A c \in Clients : \A n \in 1 .. MaxContent :
        content = n ~> (shown[c] >= n \/ ~signed[c])

\* A stream that stays open reports every change, provided that no request commits between
\* the worker's reading of the row and the first commit of its cycle: the revision that the
\* worker then writes would hide that change (stream; workspace_worker.cycle).
EventuallyTold ==
    [](loaded # None => loaded = revision) =>
        \A c \in Clients : \A n \in 1 .. MaxContent :
            (Open(c) /\ content = n) ~> (told[c] >= n \/ ~Open(c))
=============================================================================
