---------------------------- MODULE SequencedWrites ----------------------------
(***************************************************************************)
(* Clients of p4_pdpi/sequencing.cc and a P4Runtime server that checks     *)
(* references.  A client sends a list of updates in one of three ways: in  *)
(* the batches of SequencePiUpdatesInPlace, cut into requests by           *)
(* SequencePiUpdatesIntoWriteRequests; one by one in the order of          *)
(* StableSortUpdates; or as it is, cut by ExtractWriteRequests.  Requests  *)
(* are sent one after the other, and the server applies the updates of one *)
(* in any order.  The server is not part of this repository; it decides as *)
(* ReferenceIntegrity, which StatefulReferenceChecker implements.          *)
(***************************************************************************)
EXTENDS Sequencing, SequencesExt

CONSTANTS
  Problems,  \* the situations considered, of [before, updates, maximum]: a
             \* table, a list of updates to bring about, and the maximum size
             \* of a request
  Unlimited  \* stands for no maximum

(***************************************************************************)
(* A list of updates is sent to a server whose table it has checked        *)
(* itself: entries are found by their key, and no reference dangles.       *)
(***************************************************************************)
ASSUME ProblemsAreReal ==
  \A p \in Problems :
    /\ p.before = [k \in DOMAIN p.before |-> p.before[k]]
    /\ \A k \in DOMAIN p.before : Key(p.before[k]) = k
    /\ UnsatisfiedOutgoingReferences({p.before[k] : k \in DOMAIN p.before}) = {}
    /\ p.maximum = Unlimited \/ p.maximum \in Int

VARIABLES
  before,     \* history: the table before anything is sent
  maximum,    \* max_batch_size, or max_write_request_size
  formed,     \* number of batches that requests were formed of
  requests,   \* the requests to send, sets of updates
  sent,       \* number of requests sent
  pending,    \* updates of the last request the server has not looked at
  installed,  \* the server's table
  response    \* the server's last decision

writeVars == <<before, maximum, formed, requests, sent, pending, installed, response>>
allVars == <<sequencerVars, writeVars>>

Entities == UNION {{p.updates[i].entity : i \in DOMAIN p.updates} : p \in Problems}

Server == INSTANCE ReferenceIntegrity WITH
  Entities <- Entities, installed <- installed, response <- response

------------------------------------------------------------------------------
(* From updates to requests                                                *)

MaximumOk == maximum # Unlimited => maximum > 0

SequenceUpdates == (pc = "build" => MaximumOk) /\ Next /\ UNCHANGED writeVars

RefuseMaximum ==
  /\ pc = "build" /\ ~MaximumOk
  /\ pc' = "returned" /\ status' = "INVALID_MAXIMUM"
  /\ UNCHANGED <<updates, graph, roots, expanding, new_roots, batches, pushed, writeVars>>

Ceiling(m, n) == (m + n - 1) \div n

(* Mutant of the next definition: a full request is followed by another one, *)
(* even if nothing is left.                                                 *)
CutWhenFull(batch) ==
  IF maximum = Unlimited THEN <<batch>>
  ELSE [n \in 1 .. (Cardinality(batch) \div maximum) + 1 |->
          {i \in batch : Cardinality({j \in batch : j < i}) \div maximum = n - 1}]

(* The requests for one batch.                                              *)
Cut(batch) ==
  IF maximum = Unlimited THEN <<batch>>
  ELSE [n \in 1 .. Ceiling(Cardinality(batch), maximum) |->
          {i \in batch : Cardinality({j \in batch : j < i}) \div maximum = n - 1}]

(* Mutant of the next definition: the last batch is never sent.             *)
LastBatchForgotten ==
  /\ status = "OK" /\ formed < Len(batches)
  /\ formed' = formed + 1
  /\ requests' = IF formed + 1 < Len(batches) THEN requests \o Cut(batches[formed + 1]) ELSE requests
  /\ UNCHANGED <<sequencerVars, before, maximum, sent, pending, installed, response>>

(* The next turn of the loop over the batches.                              *)
FormRequests ==
  /\ status = "OK" /\ formed < Len(batches)
  /\ formed' = formed + 1
  /\ requests' = requests \o Cut(batches[formed + 1])
  /\ UNCHANGED <<sequencerVars, before, maximum, sent, pending, installed, response>>

UpdateTypes == {updates[i].type : i \in Indices}

Rank(i) == DependencyRank[updates[i].entity.table]

(* The orders StableSortUpdates may give to the updates.  Reversed, its     *)
(* comparator also holds between equal ranks, so it is no strict order and  *)
(* leaves their order open.                                                 *)
StableSortUpdates(reverse_ordering) ==
  {order \in Bijection(Indices, Indices) :
     \A m, n \in Indices : m < n =>
       IF reverse_ordering THEN Rank(order[m]) <= Rank(order[n])
       ELSE \/ Rank(order[m]) > Rank(order[n])
            \/ Rank(order[m]) = Rank(order[n]) /\ order[m] < order[n]}

(* A client that only deletes sorts in reverse.  All updates are of tables  *)
(* that have a rank; the comparator orders no others.                       *)
SortUpdates ==
  /\ pc = "build" /\ maximum = Unlimited
  /\ \A i \in Indices : updates[i].entity.table \in Tables
  /\ "DELETE" \in UpdateTypes => UpdateTypes = {"DELETE"}
  /\ \E order \in StableSortUpdates("DELETE" \in UpdateTypes) :
       requests' = [n \in Indices |-> {order[n]}]
  /\ pc' = "sorted"
  /\ UNCHANGED <<updates, graph, roots, expanding, new_roots, batches, pushed, status,
                 before, maximum, formed, sent, pending, installed, response>>

(* A maximum below one is refused only if it is exceeded.                   *)
ExtractWriteRequests ==
  /\ pc = "build"
  /\ IF maximum = Unlimited \/ Len(updates) <= maximum
     THEN requests' = <<Indices>> /\ UNCHANGED status
     ELSE IF maximum < 1 THEN status' = "INVALID_MAXIMUM" /\ UNCHANGED requests
     ELSE /\ requests' = [n \in 1 .. Ceiling(Len(updates), maximum) |->
                            {i \in Indices : (i - 1) \div maximum = n - 1}]
          /\ UNCHANGED status
  /\ pc' = "extracted"
  /\ UNCHANGED <<updates, graph, roots, expanding, new_roots, batches, pushed,
                 before, maximum, formed, sent, pending, installed, response>>

------------------------------------------------------------------------------
(* Requests are sent                                                       *)

SendRequest ==
  /\ formed = Len(batches)
  /\ pending = {} /\ sent < Len(requests)
  /\ sent' = sent + 1
  /\ pending' = requests[sent + 1]
  /\ UNCHANGED <<sequencerVars, before, maximum, formed, requests, installed, response>>

ApplyUpdate ==
  /\ \E i \in pending :
       /\ pending' = pending \ {i}
       /\ \/ updates[i].type = "INSERT" /\ Server!Add(updates[i].entity)
          \/ updates[i].type = "MODIFY" /\ Server!Update(updates[i].entity)
          \/ updates[i].type = "DELETE" /\ Server!Remove(updates[i].entity)
  /\ UNCHANGED <<sequencerVars, before, maximum, formed, requests, sent>>

WritesInit ==
  /\ \E p \in Problems : updates = p.updates /\ before = p.before /\ maximum = p.maximum
  /\ Init
  /\ installed = before
  /\ formed = 0 /\ requests = << >> /\ sent = 0 /\ pending = {}
  /\ response = [operation |-> "none", entity |-> << >>, status |-> "OK"]

WritesNext ==
  \/ SequenceUpdates \/ RefuseMaximum \/ FormRequests
  \/ SortUpdates \/ ExtractWriteRequests
  \/ SendRequest \/ ApplyUpdate

(* The client is a sequential program that waits for every response.        *)
WritesSpec == WritesInit /\ [][WritesNext]_allVars /\ WF_allVars(WritesNext)

------------------------------------------------------------------------------
(* Properties                                                              *)

Updated(type, done) == {Key(updates[i].entity) : i \in {j \in done : updates[j].type = type}}

(* The table after the updates of `done', in whatever order.                *)
TableAfter(done) ==
  [k \in (DOMAIN before \cup Updated("INSERT", done)) \ Updated("DELETE", done) |->
     IF k \in Updated("INSERT", done) \cup Updated("MODIFY", done)
     THEN updates[CHOOSE i \in done : Key(updates[i].entity) = k].entity
     ELSE before[k]]

(* Every update makes sense on its own: keys are distinct, what is inserted *)
(* is new, what is deleted is there as it is.                               *)
MakesSense ==
  /\ \A i, j \in Indices : Key(updates[i].entity) = Key(updates[j].entity) => i = j
  /\ \A i \in Indices :
       LET e == updates[i].entity
       IN  /\ NeededOk(e) /\ SatisfiedOk(e)
           /\ updates[i].type = "INSERT" <=> Key(e) \notin DOMAIN before
           /\ updates[i].type = "DELETE" => before[Key(e)] = e

(* Only insertions and modifications, or only deletions, of whole entries,  *)
(* that lead to a consistent table.                                         *)
BuildsUpOrTearsDown ==
  /\ MakesSense /\ MaximumOk /\ \A i \in Indices : CanBeSequenced(updates[i].entity)
  /\ UpdateTypes = {"DELETE"} \/ "DELETE" \notin UpdateTypes
  /\ Server!NothingDangles(TableAfter(Indices))

(* Such a list is never refused, in whatever order the server takes the     *)
(* updates of a request: the dependencies recorded field by field for the   *)
(* sequencer cover the references the server checks, and so do the ranks    *)
(* the updates are sorted by.                                               *)
BuildUpAndTearDownAccepted ==
  response.status # "OK" => pc = "extracted" \/ ~BuildsUpOrTearsDown

(* A client that sets out with such a list sends every request, and the     *)
(* table becomes the intended one.                                          *)
TableEventuallyReached ==
  (pc = "build" /\ BuildsUpOrTearsDown) ~> (pc = "extracted" \/ installed = TableAfter(Indices))

(* The least number of requests that the updates of `part' fit into.       *)
Needed(part) == IF maximum = Unlimited THEN 1 ELSE Ceiling(Cardinality(part), maximum)

(* Update i may be sent before update j: it is in an earlier batch, or      *)
(* earlier in the list.                                                     *)
InTurn(i, j) ==
  IF pc = "extracted" THEN i < j
  ELSE \A a, b \in DOMAIN batches :
         i \in batches[a] /\ j \in batches[b] => a < b \/ (a = b /\ i < j)

AllFormed ==
  \/ pc = "returned" /\ status = "OK" /\ formed = Len(batches)
  \/ pc = "sorted"
  \/ pc = "extracted" /\ status # "INVALID_MAXIMUM"

(* Every update is in exactly one request when all are formed, in the order *)
(* of the batches and within a batch in that of the list; no request mixes  *)
(* batches, and there are as few as the maximum allows, none of them empty  *)
(* (SequencePiUpdatesIntoWriteRequests).  The same holds of a list that is  *)
(* cut as it is (ExtractWriteRequests), but for one without updates: that   *)
(* makes one empty request, where sequencing.h promises none.               *)
RequestsFit ==
  /\ \A m, n \in DOMAIN requests : m # n => requests[m] \cap requests[n] = {}
  /\ AllFormed => UNION {requests[n] : n \in DOMAIN requests} = Indices
  /\ \A m, n \in DOMAIN requests : m < n =>
       \A i \in requests[m], j \in requests[n] : InTurn(i, j)
  /\ \A n \in DOMAIN requests :
       /\ maximum # Unlimited => Cardinality(requests[n]) <= maximum
       /\ requests[n] = {} => pc = "extracted" /\ Indices = {}
       /\ pc = "returned" => \E b \in 1 .. formed : requests[n] \subseteq batches[b]
  /\ \A b \in 1 .. formed :
       Cardinality({n \in DOMAIN requests : requests[n] \subseteq batches[b]}) = Needed(batches[b])
  /\ pc = "extracted" /\ AllFormed =>
       Len(requests) = IF Indices = {} THEN 1 ELSE Needed(Indices)

(* Some order of the list never leaves a reference dangling.                *)
SomeOrderWorks ==
  /\ MakesSense
  /\ \E order \in Permutations(Indices) :
       \A n \in Indices : Server!NothingDangles(TableAfter({order[m] : m \in 1 .. n}))

(* What sequencing.h says of the batches: "updates are sequenced correctly  *)
(* when the write requests are sent in order", whenever that is possible.   *)
SequencedCorrectly == SomeOrderWorks /\ pc = "returned" => response.status = "OK"
=============================================================================
