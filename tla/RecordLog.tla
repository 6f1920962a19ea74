------------------------------ MODULE RecordLog ------------------------------
(***************************************************************************)
(* What BoundedRecordStore promises its callers                            *)
(* (docs/record-store-persistence.md): a run record is one append list per *)
(* field; a call that returns success has added exactly one entry, for     *)
(* good; a call that raises or whose process dies may or may not have      *)
(* added it; nothing else ever changes the lists; unreadable content is    *)
(* never replaced.  A crash of the host may take back entries, but none    *)
(* that a caller was told of.                                              *)
(***************************************************************************)
EXTENDS Sequences, Naturals

CONSTANTS Calls,        \* identities of append calls
          Fields,       \* decisions, refusals, attempts, ...
          NoFile,       \* the record file does not exist
          Corrupt       \* the record file does not parse or validate

VARIABLES log,          \* the committed document, NoFile or Corrupt
          open,         \* append calls that have started and not ended
          acked         \* append calls that returned success

logVars == <<log, open, acked>>

Documents == [Fields -> Seq(Calls)]
Empty == [f \in Fields |-> <<>>]

\* The entry of call c is in document d.
Holds(d, c) == \E f \in Fields : \E k \in DOMAIN d[f] : d[f][k] = c

\* Document d is e or an earlier version of it, field by field.
Earlier(d, e) == \A f \in Fields :
    Len(d[f]) =< Len(e[f]) /\ SubSeq(e[f], 1, Len(d[f])) = d[f]

Init == /\ log \in {NoFile, Corrupt, Empty}
        /\ open = {}
        /\ acked = {}

Create == /\ log = NoFile
          /\ log' = Empty
          /\ UNCHANGED <<open, acked>>

Begin(c) == /\ c \notin open \cup acked
            /\ log \in Documents => ~Holds(log, c)
            /\ open' = open \cup {c}
            /\ UNCHANGED <<log, acked>>

Commit(c, f) == /\ c \in open
                /\ log \in Documents
                /\ ~Holds(log, c)
                /\ log' = [log EXCEPT ![f] = Append(@, c)]
                /\ UNCHANGED <<open, acked>>

Acknowledge(c) == /\ c \in open
                  /\ log \in Documents
                  /\ Holds(log, c)
                  /\ open' = open \ {c}
                  /\ acked' = acked \cup {c}
                  /\ UNCHANGED log

\* Exceptions and process deaths: the calls in C end without an answer.
Abandon(C) == /\ open' = open \ C
              /\ UNCHANGED <<log, acked>>

\* The host stops: what comes back is an earlier version that still holds
\* every acknowledged entry, or no file if nothing was acknowledged.
HostCrash ==
    /\ \/ log' = log
       \/ log' = NoFile /\ acked = {} /\ log # Corrupt
       \/ /\ log \in Documents
          /\ log' \in Documents
          /\ Earlier(log', log)
          /\ \A c \in acked : Holds(log', c)
    /\ open' = {}
    /\ UNCHANGED acked

Next == \/ Create \/ HostCrash
        \/ \E c \in Calls : Begin(c) \/ Acknowledge(c)
        \/ \E c \in Calls, f \in Fields : Commit(c, f)
        \/ \E C \in SUBSET open : Abandon(C)

Spec == Init /\ [][Next]_logVars
==============================================================================
