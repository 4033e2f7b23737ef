------------------------------- MODULE Requests --------------------------------
(***************************************************************************)
(* What a request does from its arrival to the deferred releases, and what *)
(* a refresh does beside it: the lookup, the upstream, the pooled slices,  *)
(* buffers and responses each of them borrows, the entry they share, and   *)
(* how old the entry says it is.                                           *)
(*                                                                         *)
(* Time is counted in epochs, each as long as an entry is fresh (ttl *     *)
(* coefficient, hours) and far longer than a request: the epoch changes    *)
(* when no request and no refresh is under way.                            *)
(***************************************************************************)
EXTENDS Integers, FiniteSets, FiniteSetsExt

CONSTANTS
    Req, Worker, \* the handlers and the refreshes under way at once
    Key,
    Ruled,       \* the keys of paths that have a rule
    Ver, Bad,    \* the upstream's answers to one question: with status 200, or another
    MaxEpoch,    \* bound
    Nil

Proc == Req \cup Worker

\* Enough of each for all at once; an empty pool makes what it lacks.
Slice == 1..(3 * Cardinality(Proc))
Obj   == 1..Cardinality(Proc)
EntryId == 1..(Cardinality(Proc) + Cardinality(Ruled))

\* What passes: an answer with the question it is to, a stored payload, an entry, and
\* what the pairs in a slice point into.
Answer  == [key : Key, ver : Ver \cup {Bad}, epoch : Nat]
Payload == [key : Key, headers : Answer, body : Answer]
Entry   == [payload : Payload, at : Nat]
Pairs   == [of : {"req"}, is : Key] \cup [of : {"resp"}, is : Obj] \cup [of : {"payload"}, is : Answer]
Output  == [headers : Answer, body : Answer]

ASSUME RequestsAssumption ==
    /\ IsFiniteSet(Proc) /\ Req \cap Worker = {}
    /\ Ruled \subseteq Key /\ IsFiniteSet(Ruled) /\ MaxEpoch \in Nat \ {0}
    /\ Nil \notin Nat \cup Key \cup Answer \cup Payload \cup Pairs \cup Output

VARIABLES
    enabled,
    epoch,
    store,                     \* key -> the entry stored, or Nil
    ent,                       \* entry -> [payload, at]: at is updatedAt
    slices, bufs, resps,       \* the pools: how often each object is in its pool
    inSlice, inBuf, inResp,    \* what the objects hold
    proc                       \* the state of each handler and refresh

pools == <<slices, bufs, resps, inSlice, inBuf, inResp>>
vars == <<enabled, epoch, store, ent, pools, proc>>

\* q, h: the slices of the request's and the response's headers; uh, resp and buf:
\* what requestExternalBackend holds; val: a stored payload's bytes; lm: the time
\* Last-Modified is set to; out: the response.
Idle == [pc |-> "idle", key |-> Nil, cached |-> FALSE, e |-> Nil, q |-> Nil, h |-> Nil,
         uh |-> Nil, resp |-> Nil, buf |-> Nil, val |-> Nil, lm |-> Nil, out |-> Nil]
At(p, pc) == proc[p].pc = pc
Step(p, r) == proc' = [proc EXCEPT ![p] = r]
Quiet == \A p \in Proc : At(p, "idle")

ProcState ==
    [pc : {"idle", "unpack", "ask", "receive", "got", "write", "restamp", "put"},
     key : Key \cup {Nil}, cached : BOOLEAN, e : EntryId \cup {Nil},
     q : Slice \cup {Nil}, h : Slice \cup {Nil}, uh : Slice \cup {Nil},
     resp : Obj \cup {Nil}, buf : Obj \cup {Nil},
     val : Payload \cup {Nil}, lm : Nat \cup {Nil}, out : Output \cup {Nil}]

TypeOK ==
    /\ enabled \in BOOLEAN /\ epoch \in 1..MaxEpoch
    /\ store \in [Key -> EntryId \cup {Nil}]
    /\ ent \in [EntryId -> Entry \cup {Nil}]
    /\ slices \in [Slice -> Nat] /\ bufs \in [Obj -> Nat] /\ resps \in [Obj -> Nat]
    /\ inSlice \in [Slice -> Pairs \cup {Nil}]
    /\ inBuf \in [Obj -> Answer \cup {Nil}] /\ inResp \in [Obj -> Answer \cup {Nil}]
    /\ proc \in [Proc -> ProcState]

Init ==
    /\ enabled \in BOOLEAN /\ epoch = 1
    /\ store = [k \in Key |-> Nil]
    /\ ent = [e \in EntryId |-> Nil]
    /\ slices = [s \in Slice |-> 1] /\ bufs = [o \in Obj |-> 1] /\ resps = [o \in Obj |-> 1]
    /\ inSlice = [s \in Slice |-> Nil]
    /\ inBuf = [o \in Obj |-> Nil] /\ inResp = [o \in Obj |-> Nil]
    /\ proc = [p \in Proc |-> Idle]

-------------------------------------------------------------------------------
(***************************************************************************)
(* The pools.  Which of the objects a Get returns is open; emptied, they   *)
(* differ in nothing, and the least stands for any.                        *)
(***************************************************************************)
Least(pool) == Min({o \in DOMAIN pool : pool[o] > 0})
Least2(pool) == Min({o \in DOMAIN pool : pool[o] > 0} \ {Least(pool)})
Taken(pool, S) == [o \in DOMAIN pool |-> IF o \in S THEN pool[o] - 1 ELSE pool[o]]
Given(pool, S) == [o \in DOMAIN pool |-> IF o \in S THEN pool[o] + 1 ELSE pool[o]]
Emptied(in, S) == [o \in DOMAIN in |-> IF o \in S THEN Nil ELSE in[o]]

\* What the headers in a slice say: they are the response's own bytes, or a stored
\* payload's.
Said(s) == IF inSlice[s] = Nil THEN Nil
           ELSE IF inSlice[s].of = "resp" THEN inResp[inSlice[s].is] ELSE inSlice[s].is

-------------------------------------------------------------------------------
(***************************************************************************)
(* Requests                                                                *)
(***************************************************************************)
\* Index: with the cache on, and a rule for the path, the entry is looked up.  A hit
\* reads the entry's time now, and its payload after; a miss, and a request that is
\* passed through, takes a slice over its own headers (queryHeaders).
Begin(r, k) ==
    LET cached == enabled /\ k \in Ruled
        e == IF cached THEN store[k] ELSE Nil
        q == Least(slices)
    IN  /\ At(r, "idle")
        /\ IF e # Nil
           THEN /\ Step(r, [Idle EXCEPT !.pc = "unpack", !.key = k, !.e = e, !.lm = ent[e].at])
                /\ UNCHANGED <<slices, inSlice>>
           ELSE /\ Step(r, [Idle EXCEPT !.pc = "ask", !.key = k, !.cached = cached, !.q = q])
                /\ slices' = Taken(slices, {q})
                /\ inSlice' = [inSlice EXCEPT ![q] = [of |-> "req", is |-> k]]
        /\ UNCHANGED <<enabled, epoch, store, ent, bufs, resps, inBuf, inResp>>

\* Entry.Payload, by a hit or a refresh: two slices over the payload's bytes.
UnpackV(p) ==                                   \* the time is read again, after the payload
    \/ /\ At(p, "unpack")
       /\ LET q == Least(slices)  h == Least2(slices)  v == ent[proc[p].e].payload
          IN  /\ Step(p, [proc[p] EXCEPT !.pc = IF p \in Req THEN "late" ELSE "ask",
                                         !.q = q, !.h = h, !.val = v])
              /\ slices' = Taken(slices, {q, h})
              /\ inSlice' = [inSlice EXCEPT ![q] = [of |-> "req", is |-> v.key],
                                            ![h] = [of |-> "payload", is |-> v.headers]]
       /\ UNCHANGED <<enabled, epoch, store, ent, bufs, resps, inBuf, inResp>>
    \/ /\ At(p, "late")
       /\ Step(p, [proc[p] EXCEPT !.pc = "write", !.lm = ent[proc[p].e].at])
       /\ UNCHANGED <<enabled, epoch, store, ent, pools>>
Unpack(p) ==
    /\ At(p, "unpack")
    /\ LET q == Least(slices)  h == Least2(slices)  v == ent[proc[p].e].payload
       IN  /\ Step(p, [proc[p] EXCEPT !.pc = IF p \in Req THEN "write" ELSE "ask",
                                      !.q = q, !.h = h, !.val = v,
                                      !.e = IF p \in Req THEN Nil ELSE @])
           /\ slices' = Taken(slices, {q, h})
           /\ inSlice' = [inSlice EXCEPT ![q] = [of |-> "req", is |-> v.key],
                                         ![h] = [of |-> "payload", is |-> v.headers]]
    /\ UNCHANGED <<enabled, epoch, store, ent, bufs, resps, inBuf, inResp>>

\* Fetch waits for the limiter, which fails when the context ends or the rate is too
\* low (a refresh goes round it); then DoTimeout into a pooled response, which goes
\* back when it fails.  A failure is answered with 503 (its way to the log is
\* ErrorLog's).
Ask(p) ==
    /\ At(p, "ask")
    /\ LET o == Least(resps)
       IN  \/ \E v \in Ver \cup {Bad} :
                 /\ Step(p, [proc[p] EXCEPT !.pc = "receive", !.resp = o])
                 /\ resps' = Taken(resps, {o})
                 /\ inResp' = [inResp EXCEPT ![o] =
                        [key |-> inSlice[proc[p].q].is, ver |-> v, epoch |-> epoch]]
           \/ Step(p, [proc[p] EXCEPT !.pc = "put"]) /\ UNCHANGED <<resps, inResp>>
    /\ UNCHANGED <<enabled, epoch, store, ent, slices, bufs, inSlice, inBuf>>

\* The headers stay the response's, the body is written to a pooled buffer; when
\* that fails everything goes back at once, and the caller's release is empty.
ReceiveV(p) ==                                          \* ... and once more by the caller
    /\ At(p, "receive")
    /\ LET h == Least(slices)  b == Least(bufs)  o == proc[p].resp
       IN  \/ /\ Step(p, [proc[p] EXCEPT !.pc = "got", !.uh = h, !.buf = b])
              /\ slices' = Taken(slices, {h}) /\ bufs' = Taken(bufs, {b})
              /\ inSlice' = [inSlice EXCEPT ![h] = [of |-> "resp", is |-> o]]
              /\ inBuf' = [inBuf EXCEPT ![b] = inResp[o]]
              /\ UNCHANGED <<resps, inResp>>
           \/ /\ Step(p, [proc[p] EXCEPT !.pc = "put", !.uh = h, !.buf = b])
              /\ resps' = Given(resps, {o}) /\ inResp' = Emptied(inResp, {o})
              /\ UNCHANGED <<slices, bufs, inSlice, inBuf>>
    /\ UNCHANGED <<enabled, epoch, store, ent>>
Receive(p) ==
    /\ At(p, "receive")
    /\ LET h == Least(slices)  b == Least(bufs)  o == proc[p].resp
       IN  \/ /\ Step(p, [proc[p] EXCEPT !.pc = "got", !.uh = h, !.buf = b])
              /\ slices' = Taken(slices, {h}) /\ bufs' = Taken(bufs, {b})
              /\ inSlice' = [inSlice EXCEPT ![h] = [of |-> "resp", is |-> o]]
              /\ inBuf' = [inBuf EXCEPT ![b] = inResp[o]]
              /\ UNCHANGED <<resps, inResp>>
           \/ /\ Step(p, [proc[p] EXCEPT !.pc = "put", !.resp = Nil])
              /\ resps' = Given(resps, {o}) /\ inResp' = Emptied(inResp, {o})
              /\ UNCHANGED <<slices, bufs, inSlice, inBuf>>
    /\ UNCHANGED <<enabled, epoch, store, ent>>

\* SetPayload copies what the slices and the buffer say.
Packed(p) == [key |-> inSlice[proc[p].q].is, headers |-> Said(proc[p].uh), body |-> inBuf[proc[p].buf]]
Succeeded(p) == inResp[proc[p].resp].ver # Bad
NewId == Min(EntryId \ ({store[k] : k \in Key} \cup {proc[p].e : p \in Proc}))

\* Set: an entry that is there takes the payload when it differs, and its time
\* becomes time.Now().Unix(), some fifty years ago to all who read nanoseconds; a new
\* one has the time it was built at; or it is refused.
Insert(r) ==
    LET k == proc[r].key
        e == store[k]
        v == Packed(r)
    IN  IF e # Nil
        THEN /\ ent' = IF ent[e].payload = v THEN ent
                       ELSE [ent EXCEPT ![e] = [payload |-> v, at |-> 0]]
             /\ UNCHANGED store
        ELSE \/ /\ ent' = [ent EXCEPT ![NewId] = [payload |-> v, at |-> epoch]]
                /\ store' = [store EXCEPT ![k] = NewId]
             \/ UNCHANGED <<ent, store>>

GotV(r) ==                                              \* whatever the status
    /\ r \in Req /\ At(r, "got")
    /\ IF proc[r].cached THEN Insert(r) ELSE UNCHANGED <<ent, store>>
    /\ Step(r, [proc[r] EXCEPT !.pc = "write", !.lm = epoch])
    /\ UNCHANGED <<enabled, epoch, pools>>
\* A miss stores what came with status 200; Last-Modified is now, or the new entry's.
Got(r) ==
    /\ r \in Req /\ At(r, "got")
    /\ IF proc[r].cached /\ Succeeded(r) THEN Insert(r) ELSE UNCHANGED <<ent, store>>
    /\ Step(r, [proc[r] EXCEPT !.pc = "write", !.lm = epoch])
    /\ UNCHANGED <<enabled, epoch, pools>>

\* Status, headers and body are written from the payload or from what was fetched.
Write(r) ==
    LET s == proc[r]
        hit == s.val # Nil
    IN  /\ At(r, "write")
        /\ Step(r, [s EXCEPT !.pc = "put",
              !.out = [headers |-> Said(IF hit THEN s.h ELSE s.uh),
                       body |-> IF hit THEN s.val.body ELSE inBuf[s.buf]]])
        /\ UNCHANGED <<enabled, epoch, store, ent, pools>>

-------------------------------------------------------------------------------
(***************************************************************************)
(* Refreshes                                                               *)
(***************************************************************************)
\* ShouldBeRefreshed: not before the entry's time is an epoch ago (its dice may say
\* no, and Rand may find another).
Candidate(e) == ent[e].at < epoch

Refresh(w, k) ==
    /\ w \in Worker /\ At(w, "idle")
    /\ store[k] # Nil /\ Candidate(store[k])
    /\ Step(w, [Idle EXCEPT !.pc = "unpack", !.key = k, !.e = store[k]])
    /\ UNCHANGED <<enabled, epoch, store, ent, pools>>

\* Revalidate packs an answer with status 200, and only then renews the time.
RepackV(w) ==                                           \* the time is renewed all the same
    /\ w \in Worker /\ At(w, "got")
    /\ ent' = IF Succeeded(w) THEN [ent EXCEPT ![proc[w].e].payload = Packed(w)] ELSE ent
    /\ Step(w, [proc[w] EXCEPT !.pc = "restamp"])
    /\ UNCHANGED <<enabled, epoch, store, pools>>
Repack(w) ==
    /\ w \in Worker /\ At(w, "got")
    /\ IF Succeeded(w)
       THEN /\ ent' = [ent EXCEPT ![proc[w].e].payload = Packed(w)]
            /\ Step(w, [proc[w] EXCEPT !.pc = "restamp"])
       ELSE Step(w, [proc[w] EXCEPT !.pc = "put"]) /\ UNCHANGED ent
    /\ UNCHANGED <<enabled, epoch, store, pools>>

Restamp(w) ==
    /\ At(w, "restamp")
    /\ ent' = [ent EXCEPT ![proc[w].e].at = epoch]
    /\ Step(w, [proc[w] EXCEPT !.pc = "put"])
    /\ UNCHANGED <<enabled, epoch, store, pools>>

-------------------------------------------------------------------------------
\* The deferred releases: the upstream's objects, if it answered, and the slices of
\* the payload or of the request.
Put(p) ==
    LET s == proc[p]
        own == {s.q, s.h, s.uh} \ {Nil}
    IN  /\ At(p, "put")
        /\ slices' = Given(slices, own) /\ inSlice' = Emptied(inSlice, own)
        /\ bufs' = Given(bufs, {s.buf}) /\ inBuf' = Emptied(inBuf, {s.buf})
        /\ resps' = Given(resps, {s.resp}) /\ inResp' = Emptied(inResp, {s.resp})
        /\ Step(p, Idle)
        /\ UNCHANGED <<enabled, epoch, store, ent>>

\* Eviction, Clear.
Drop(k) ==
    /\ store[k] # Nil
    /\ store' = [store EXCEPT ![k] = Nil]
    /\ UNCHANGED <<enabled, epoch, ent, pools, proc>>

\* /cache/on and /cache/off
OnOff ==
    /\ enabled' = ~ enabled
    /\ UNCHANGED <<epoch, store, ent, pools, proc>>

Age ==
    /\ Quiet /\ epoch < MaxEpoch
    /\ epoch' = epoch + 1
    /\ UNCHANGED <<enabled, store, ent, pools, proc>>

Next ==
    \/ \E r \in Req : \/ \E k \in Key : Begin(r, k)
                      \/ Got(r) \/ Write(r)
    \/ \E w \in Worker : (\E k \in Key : Refresh(w, k)) \/ Repack(w) \/ Restamp(w)
    \/ \E p \in Proc : Unpack(p) \/ Ask(p) \/ Receive(p) \/ Put(p)
    \/ \E k \in Key : Drop(k)
    \/ OnOff \/ Age

Spec == Init /\ [][Next]_vars

-------------------------------------------------------------------------------
(***************************************************************************)
(* Properties                                                              *)
(***************************************************************************)
\* Whatever fails on the way, a pooled object is at every moment in its pool, once,
\* or with one handler or refresh, in one role: never shared, put twice or lost.
Holders(o, roles) == {x \in Proc \X roles : proc[x[1]][x[2]] = o}
Once(pool, roles) == \A o \in DOMAIN pool : pool[o] + Cardinality(Holders(o, roles)) = 1
PoolsSound == Once(slices, {"q", "h", "uh"}) /\ Once(bufs, {"buf"}) /\ Once(resps, {"resp"})

\* A response's headers and body are those of one answer to this request's
\* question, and so are a stored payload's, whose status was 200: the pooled bytes
\* they came from were nobody else's until they were written or copied.
OwnAnswer ==
    /\ \A r \in Req : LET o == proc[r].out IN
          o # Nil => o.headers # Nil /\ o.headers = o.body /\ o.body.key = proc[r].key
    /\ \A k \in Key : store[k] # Nil => LET v == ent[store[k]].payload IN
          v.key = k /\ v.headers = v.body /\ v.body.key = k /\ v.body.ver # Bad

\* Last-Modified is never later than the answer it comes with, though a refresh may
\* come between the two reads.
LastModifiedHonest ==
    \A r \in Req : proc[r].out # Nil => proc[r].lm <= proc[r].out.body.epoch

\* Old content is never taken for fresh: an entry whose payload is of an earlier
\* epoch is one the refresher may pick, whatever failed, was swapped or overlapped.
StaleIsCandidate ==
    \A k \in Key : store[k] # Nil =>
        (ent[store[k]].payload.body.epoch < epoch => Candidate(store[k]))

\* "updatedAt int64 // atomic: unix nano (last update was at)", model/entry.go:43:
\* once nothing is under way, an entry updated in this epoch says so.
UpdatedAtIsNano ==
    Quiet => \A k \in Key : store[k] # Nil =>
        (ent[store[k]].payload.body.epoch = epoch => ent[store[k]].at = epoch)
===============================================================================
