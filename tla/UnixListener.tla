---------------------------- MODULE UnixListener ----------------------------
(***************************************************************************)
(* Ownership of a Unix socket path by the listeners of                     *)
(* src/go/transport/unixsocket/listen_unix.go: ListenStream refuses an     *)
(* existing leaf, binds, and remembers which file it created; Close        *)
(* removes the leaf if it still is that file.  Every system call is one    *)
(* step.  The listeners share one path and belong to different processes;  *)
(* another program (an operator's rm, a start script) may also unlink the  *)
(* leaf at any time.  UnixTransport composes the steps.                    *)
(***************************************************************************)
EXTENDS Integers

CONSTANTS
  Listeners,  \* calls of ListenStream on the path, over all processes
  None        \* no listener

ListenerPC == {"idle", "bind", "identify", "chmod", "open", "netClose", "check", "remove",
               "closed", "closeErr", "failed"}

VARIABLES
  path,      \* the listener whose socket the leaf is, None when absent
  lpc,       \* control of ListenStream and then of Close
  identity,  \* Listener.identity: the file it takes for its own
  accepting, \* listeners whose socket accepts connections
  unlinked   \* has another program unlinked a leaf?

vars == <<path, lpc, identity, accepting, unlinked>>

Init ==
  /\ path = None
  /\ lpc = [l \in Listeners |-> "idle"]
  /\ identity = [l \in Listeners |-> None]
  /\ accepting = {} /\ unlinked = FALSE

Goto(l, label) == lpc' = [lpc EXCEPT ![l] = label]

-----------------------------------------------------------------------------
(* ListenStream                                                            *)

\* The first Lstat: any existing leaf is refused.
Inspect(l) ==
  /\ lpc[l] = "idle"
  /\ Goto(l, IF path = None THEN "bind" ELSE "failed")
  /\ UNCHANGED <<path, identity, accepting, unlinked>>

\* Mutant: a leaf that appeared since the inspection is replaced.
Bind_replaces(l) ==
  /\ lpc[l] = "bind"
  /\ path' = l /\ accepting' = accepting \cup {l} /\ Goto(l, "identify")
  /\ UNCHANGED <<identity, unlinked>>

\* net.ListenUnix: bind fails if the leaf exists by now.
Bind(l) ==
  /\ lpc[l] = "bind"
  /\ \/ /\ path = None
        /\ path' = l /\ accepting' = accepting \cup {l} /\ Goto(l, "identify")
     \/ /\ path # None
        /\ Goto(l, "failed") /\ UNCHANGED <<path, accepting>>
  /\ UNCHANGED <<identity, unlinked>>

\* The second Lstat; if it fails the listener is closed and nothing removed.
Identify(l) ==
  /\ lpc[l] = "identify"
  /\ \/ /\ path # None
        /\ identity' = [identity EXCEPT ![l] = path]
        /\ Goto(l, "chmod") /\ UNCHANGED accepting
     \/ /\ accepting' = accepting \ {l}
        /\ Goto(l, "failed") /\ UNCHANGED identity
  /\ UNCHANGED <<path, unlinked>>

\* Chmod; if it fails the new listener is closed like any other.
Chmod(l) ==
  /\ lpc[l] = "chmod"
  /\ \/ path # None /\ Goto(l, "open")
     \/ Goto(l, "netClose")
  /\ UNCHANGED <<path, identity, accepting, unlinked>>

-----------------------------------------------------------------------------
(* Close, inside closeOnce                                                 *)

Close(l) ==
  /\ lpc[l] = "open"
  /\ Goto(l, "netClose")
  /\ UNCHANGED <<path, identity, accepting, unlinked>>

\* listener.Close; its own error would only become the error of Close.
NetClose(l) ==
  /\ lpc[l] = "netClose"
  /\ accepting' = accepting \ {l}
  /\ Goto(l, "check")
  /\ UNCHANGED <<path, identity, unlinked>>

\* Lstat and SameFile; any Lstat error but ErrNotExist is Close's error.
Check(l) ==
  /\ lpc[l] = "check"
  /\ \/ Goto(l, IF path # None /\ path = identity[l] THEN "remove" ELSE "closed")
     \/ path # None /\ Goto(l, "closeErr")
  /\ UNCHANGED <<path, identity, accepting, unlinked>>

\* os.Remove takes whatever the leaf is now; ErrNotExist is ignored, another
\* error leaves the leaf and is returned.
Remove(l) ==
  /\ lpc[l] = "remove"
  /\ \/ path' = None /\ Goto(l, "closed")
     \/ path # None /\ UNCHANGED path /\ Goto(l, "closeErr")
  /\ UNCHANGED <<identity, accepting, unlinked>>

Unlink ==
  /\ path # None
  /\ path' = None /\ unlinked' = TRUE
  /\ UNCHANGED <<lpc, identity, accepting>>

Next ==
  \/ \E l \in Listeners : \/ Inspect(l) \/ Bind(l) \/ Identify(l) \/ Chmod(l)
                           \/ Close(l) \/ NetClose(l) \/ Check(l) \/ Remove(l)
  \/ Unlink

Spec == Init /\ [][Next]_vars

-----------------------------------------------------------------------------
(* Properties                                                              *)

\* Types; a listener that may remove a leaf knows which file it created.
TypeOK ==
  /\ path \in Listeners \cup {None}
  /\ lpc \in [Listeners -> ListenerPC]
  /\ identity \in [Listeners -> Listeners \cup {None}]
  /\ \A l \in Listeners :
       lpc[l] \in {"chmod", "open", "netClose", "check", "remove"} => identity[l] # None
  /\ accepting \subseteq Listeners /\ unlinked \in BOOLEAN

\* As long as no other program removes a leaf, at most one listener at a time
\* owns the path, clients that dial it reach the listener that is open, and a
\* Close that is about to remove the leaf removes its own.
PathReachesOpen ==
  ~unlinked => \A l \in Listeners :
    l \in accepting \/ lpc[l] \in {"check", "remove"} =>
      path = l /\ identity[l] = IF lpc[l] = "identify" THEN None ELSE l

\* A listener whose Close reported no error leaves no stale leaf behind that
\* would keep the next one from starting.
NoStaleLeaf ==
  \A l \in Listeners : lpc[l] = "closed" => path # l

-----------------------------------------------------------------------------
(* The inductive invariant behind them                                     *)

\* A socket accepts from bind to listener.Close; a listener knows no file before
\* the second Lstat; and as long as the leaf is the one a listener bound, what
\* it took for its own is that leaf, whatever was unlinked before.
OwnLeaf ==
  \A l \in Listeners :
    /\ l \in accepting <=> lpc[l] \in {"identify", "chmod", "open", "netClose"}
    /\ lpc[l] \in {"idle", "bind", "identify"} => identity[l] = None
    /\ path = l => /\ lpc[l] \notin {"idle", "bind"}
                   /\ lpc[l] \notin {"identify", "failed"} => identity[l] = l

PathInv == TypeOK /\ PathReachesOpen /\ NoStaleLeaf /\ OwnLeaf
=============================================================================
