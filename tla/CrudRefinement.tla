-------------------------- MODULE CrudRefinement --------------------------
(***************************************************************************)
(* Requests that do not overlap: CrudStore implements KeyValueStore.  The  *)
(* document a client sees is the one the writer of the file was given, so  *)
(* create, update and del take effect when the directory entry changes,    *)
(* and a writer's reply is due from then on.                               *)
(***************************************************************************)
EXTENDS CrudStore

CONSTANTS Missing, NoReply

ASSUME MissingAssumption == Missing \notin Bodies

Document(i) ==
    IF i = NoInode THEN Missing
    ELSE IF Writers(i) = {} THEN content[i]
    ELSE LET t == CHOOSE u \in Writers(i) : TRUE IN req[t].body

StoreView == [e \in Entities |-> [k \in Ids |-> Document(link[e][k])]]

StatusView(t) ==
    IF pc[t] = "done" THEN status[t]
    ELSE IF IsPost(req[t]) /\ id[t] = -1 THEN 500 ELSE 200

ReplyOf(t) ==
    IF pc[t] \in {"write", "done"}
    THEN [status |-> StatusView(t), id |-> id[t],
          body |-> IF got[t] = <<>> THEN Missing ELSE got[t],
          ids |-> listed[t]]
    ELSE NoReply

ReplyView == [t \in Threads |-> ReplyOf(t)]

Promise == INSTANCE KeyValueStore
               WITH Clients <- Threads, store <- StoreView, reply <- ReplyView

ASSUME NoReplyAssumption == NoReply \notin Promise!Replies

\* Every sequence of requests, one at a time, on a disk that does not fail,
\* gets the replies of an atomic map, whatever system calls it takes.
AtomicStore == Promise!Spec
=============================================================================
