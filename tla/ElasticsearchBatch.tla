-------------------------- MODULE ElasticsearchBatch --------------------------
(***************************************************************************)
(* The Elasticsearch output of version 2 with Batching (the client's       *)
(* batcher and elasticsearchPost, src/outputs/elasticsearch.go): each call *)
(* of the batcher starts a goroutine, which posts the batch in one bulk    *)
(* request and counts its events by the answer. The server is external.    *)
(***************************************************************************)
EXTENDS Batcher, FiniteSets, SequencesExt

CONSTANT MaxRequests   \* MaxConcurrentRequests

VARIABLES
  posts,     \* for each call of the batcher, where its goroutine is
  indexed,   \* the events the server has indexed
  unread,    \* history: the events of requests answered with 200 and an unreadable body
  total, ok, error   \* the output's statistics

countVars == <<total, ok, error>>
vars == <<batcherVars, posts, indexed, unread, countVars>>

Init ==
  /\ BatcherInit
  /\ posts = <<>>
  /\ indexed = {} /\ unread = {}
  /\ total = 0 /\ ok = 0 /\ error = 0

\* ElasticsearchPost is called in a goroutine of each event, in any order.
ElasticsearchPost(e) ==
  /\ e \notin ToSet(pushed)
  /\ Push(e)
  /\ UNCHANGED <<posts, indexed, unread, countVars>>

FlushTimer == BatcherStep /\ UNCHANGED <<posts, indexed, unread, countVars>>

\* The callback's goroutines start in the order of the calls: which one is first makes no
\* difference to what follows.
StartPost ==
  /\ Len(posts) < Len(calls)
  /\ posts' = Append(posts, "waiting")
  /\ total' = total + Len(calls[Len(posts) + 1].payloads)
  /\ UNCHANGED <<batcherVars, indexed, unread, ok, error>>

\* Mutant: those that wait for a slot count as well.
AcquireCountsWaiting(i) ==
  /\ posts[i] = "waiting"
  /\ Cardinality({j \in DOMAIN posts : posts[j] # "done"}) <= MaxRequests
  /\ posts' = [posts EXCEPT ![i] = "sent"]
  /\ UNCHANGED <<batcherVars, indexed, unread, countVars>>

Acquire(i) ==
  /\ posts[i] = "waiting"
  /\ Cardinality({j \in DOMAIN posts : posts[j] = "sent"}) < MaxRequests
  /\ posts' = [posts EXCEPT ![i] = "sent"]
  /\ UNCHANGED <<batcherVars, indexed, unread, countVars>>

\* Mutant: the successes are not reduced by the failures.
ItemsCountedTwice(n, taken) == <<n - taken, n>>

\* What the goroutine makes of the answer: [failed, succeeded] numbers of events.
AllFailed(n) == <<n, 0>>
ItemsCounted(n, taken) == <<n - taken, taken>>
AllSucceeded(n) == <<0, n>>

CountResult(result) ==
  /\ error' = error + result[1]
  /\ ok' = ok + result[2]
  /\ UNCHANGED total

\* No answer, another status than 2xx, or a body that is no list of as many items.
PostFails(i, taken) ==
  /\ CountResult(AllFailed(Len(calls[i].payloads)))
  /\ indexed' = indexed \union taken
  /\ UNCHANGED unread

\* The items say which events were taken.
ItemsAnswered(i, taken) ==
  /\ CountResult(ItemsCounted(Len(calls[i].payloads), Cardinality(taken)))
  /\ indexed' = indexed \union taken
  /\ UNCHANGED unread

\* The body cannot be read or decompressed: its text is empty, and so is the response.
BodyLost(i, taken) ==
  /\ CountResult(AllSucceeded(Len(calls[i].payloads)))
  /\ indexed' = indexed \union taken
  /\ unread' = unread \union ToSet(calls[i].payloads)

Answer(i) ==
  /\ posts[i] = "sent"
  /\ posts' = [posts EXCEPT ![i] = "done"]
  /\ \E taken \in SUBSET ToSet(calls[i].payloads) :
       PostFails(i, taken) \/ ItemsAnswered(i, taken) \/ BodyLost(i, taken)
  /\ UNCHANGED batcherVars

Next ==
  \/ \E e \in Events : ElasticsearchPost(e)
  \/ FlushTimer
  \/ StartPost
  \/ \E i \in DOMAIN posts : Acquire(i) \/ Answer(i)

\* Timers fire, the mutex is fair, goroutines run and the server answers.
Fairness ==
  /\ WF_vars(TimerFires /\ FlushTimer)
  /\ WF_vars(FlushOnTimer /\ FlushTimer)
  /\ WF_vars(StartPost)
  /\ WF_vars(\E i \in DOMAIN posts : Acquire(i) \/ Answer(i))

Spec == Init /\ [][Next]_vars /\ Fairness

-----------------------------------------------------------------------------
\* No more events are counted as successes than are in the index, but for those whose
\* answer could not be read.
BulkOkMeansIndexed == ok <= Cardinality(indexed \union unread)

\* In the end the total is what was pushed, and each event of it is counted once, as a
\* success or as an error: the timer flushes the last batch, whichever batch it was started
\* for, and of a request some items of which were rejected each item is counted for itself.
EventuallyCounted == <>[](total = Len(pushed) /\ ok + error = total)

=============================================================================
