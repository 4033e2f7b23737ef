--------------------------------- MODULE Entry ---------------------------------
(***************************************************************************)
(* pkg/model/entry.go: how a request becomes a key, and how request and    *)
(* response become the bytes of a payload and of a dump, and come back.    *)
(*                                                                         *)
(* Bytes are numbers.  A field of fixed width (a length, a status, a key,  *)
(* a fingerprint) is one cell of a buffer, whatever its width.  The hash   *)
(* xxh3 is external: its 128 bits are taken to tell byte strings apart,    *)
(* its 64 bits are Hash.  The escapes of a URL (%xx, +) are left out: the  *)
(* queries are those that contain none.                                    *)
(***************************************************************************)
EXTENDS Integers, Sequences, FiniteSets, SequencesExt

CONSTANTS
    Path,           \* paths of requests
    Query,          \* query strings of requests, without the "?" of the URL
    Headers,        \* request headers: sequences of <<name, value>>
    Configs,        \* configurations: path -> its rule, [query, headers]
    Answers,        \* what the upstream may answer: [status, headers, body]
    Hash(_),        \* the 64-bit hash
    MapShardKey(_), \* ShardedMap's
    None

Amp == 38  Eq == 61  Mark == 63                                    \* & = ?
StatusOK == 200

Byte == 0..255
Bytes == Seq(Byte)
KV == Bytes \X Bytes                                  \* a name and its value

\* The queries parsed here do not begin with "=" (no mock's does), and no rule
\* names an empty prefix.
ASSUME EntryAssumption ==
    /\ Path \subseteq Bytes /\ Query \subseteq Bytes /\ Headers \subseteq Seq(KV)
    /\ Configs # {}
    /\ \A c \in Configs : /\ DOMAIN c \subseteq Path
                          /\ \A p \in DOMAIN c : c[p].query \subseteq Bytes \ {<<>>}
    /\ \A q \in Query : q = <<>> \/ (Head(q) # Eq /\ Head(q) # Mark)
    /\ Answers \subseteq [status : Nat, headers : Seq(KV), body : Bytes]

VARIABLES
    req,    \* the request: [path, query, headers]
    rules,  \* the configuration in force
    entry,  \* the entry, or None
    told,   \* what its payload was made of (history)
    image,   \* the bytes of its dump, or <<>>
    saved   \* the entry when it was dumped (history)

entryVars == <<req, rules, entry, told, image, saved>>

-------------------------------------------------------------------------------
(***************************************************************************)
(* Keys.  (A definition whose name ends in V is a slip a change to the     *)
(* code could make; nothing uses it.)                                      *)
(***************************************************************************)
\* The pair between an "&" and the byte before the next one; k and v are where its
\* name and its value begin, 0 if not found.
Pair(b, s, end) ==
    IF s.v = 0 THEN <<SubSeq(b, s.k, end), <<>>>>
    ELSE <<SubSeq(b, s.k, s.v - 2), SubSeq(b, s.v, end)>>
Flushed(b, s, end) == IF s.k = 0 THEN s.out ELSE Append(s.out, Pair(b, s, end))

ParseByteV(b, s, i) ==                          \* "=" inside a value begins a new one
    IF b[i] = Amp THEN [out |-> Flushed(b, s, i - 1), k |-> i + 1, v |-> 0]
    ELSE IF b[i] = Eq THEN [s EXCEPT !.v = i + 1]
    ELSE IF s.k = 0 THEN [s EXCEPT !.k = i] ELSE s
ParseByte(b, s, i) ==
    IF b[i] = Amp THEN [out |-> Flushed(b, s, i - 1), k |-> i + 1, v |-> 0]
    ELSE IF b[i] = Eq /\ s.v = 0 THEN [s EXCEPT !.v = i + 1]
    ELSE IF s.k = 0 THEN [s EXCEPT !.k = i] ELSE s

TrimLeft(b) == IF b # <<>> /\ Head(b) = Mark THEN Tail(b) ELSE b
Parse(query) ==
    LET b == TrimLeft(query)
        f[i \in 0..Len(b)] == IF i = 0 THEN [out |-> <<>>, k |-> 0, v |-> 0]
                              ELSE ParseByte(b, f[i-1], i)
    IN  Flushed(b, f[Len(b)], Len(b))

\* The elements of s at the positions of I, in their order.
Picked(s, I) ==
    LET f[i \in 0..Len(s)] == IF i = 0 THEN <<>>
                              ELSE IF i \in I THEN Append(f[i-1], s[i]) ELSE f[i-1]
    IN  f[Len(s)]

\* fasthttp's QueryArgs: the segments between "&"s that are not empty, split at
\* the first "="; bare when there is none.
Segments(q) ==
    LET Cut(ss, c) == IF c = Amp THEN Append(ss, <<>>) ELSE [ss EXCEPT ![Len(ss)] = Append(@, c)]
        f[i \in 0..Len(q)] == IF i = 0 THEN <<<<>>>> ELSE Cut(f[i-1], q[i])
    IN  f[Len(q)]
SplitSegment(seg) ==
    IF ~ Contains(seg, Eq) THEN [name |-> seg, value |-> <<>>, bare |-> TRUE]
    ELSE LET i == SelectInSeq(seg, LAMBDA c : c = Eq)
         IN  [name |-> SubSeq(seg, 1, i - 1), value |-> SubSeq(seg, i + 1, Len(seg)),
              bare |-> FALSE]
QueryArgs(q) ==
    LET all == [i \in DOMAIN Segments(q) |-> SplitSegment(Segments(q)[i])]
    IN  Picked(all, {i \in DOMAIN all : all[i].name # <<>> \/ all[i].value # <<>>})
Joined(parts) ==
    LET f[i \in 0..Len(parts)] ==
            IF i = 0 THEN <<>> ELSE f[i-1] \o (IF i = 1 THEN <<>> ELSE <<Amp>>) \o parts[i]
    IN  f[Len(parts)]
QueryString(args) ==
    Joined([i \in DOMAIN args |->
              args[i].name \o (IF args[i].bare THEN <<>> ELSE <<Eq>> \o args[i].value)])

\* sort.less and sort.KVSlice: an insertion sort by name, which keeps the order of
\* pairs with one name.
Less(a, b) ==
    \/ \E i \in DOMAIN a \cap DOMAIN b : a[i] < b[i] /\ \A j \in 1..(i - 1) : a[j] = b[j]
    \/ IsStrictPrefix(a, b)
InsertedV(s, kv) == Append(s, kv)                                     \* left unsorted
Inserted(s, kv) ==
    LET n == SelectLastInSeq(s, LAMBDA x : ~ Less(kv[1], x[1]))
    IN  SubSeq(s, 1, n) \o <<kv>> \o SubSeq(s, n + 1, Len(s))
KVSlice(kvs) ==
    LET f[i \in 0..Len(kvs)] == IF i = 0 THEN <<>> ELSE Inserted(f[i-1], kvs[i])
    IN  f[Len(kvs)]

Allowed(rule, name) == \E p \in rule.query : IsPrefix(p, name)
parseFilterAndSortQuery(rule, query) ==
    LET kvs == Parse(query)
    IN  KVSlice(Picked(kvs, {i \in DOMAIN kvs : Allowed(rule, kvs[i][1])}))
QueriesFastHttp(rule, args) ==
    LET kvs == [i \in DOMAIN args |-> <<args[i].name, args[i].value>>]
    IN  KVSlice(Picked(kvs, {i \in DOMAIN kvs : Allowed(rule, kvs[i][1])}))
HeadersFastHttp(rule, hs) == KVSlice(Picked(hs, {i \in DOMAIN hs : hs[i][1] \in rule.headers}))
\* A net/http header is a map from a name to its values, walked in any order.
HeadersNetHttp(rule, hs, order) ==
    LET Values(name) == Picked(hs, {i \in DOMAIN hs : hs[i][1] = name})
    IN  KVSlice(FlattenSeq([i \in DOMAIN order |-> IF order[i] \in rule.headers
                                                   THEN Values(order[i]) ELSE <<>>]))
\* What filteredAndSortedKeyHeadersInPlace leaves of its argument, which it writes
\* over as it reads it: the first n are those kept.
KeptInPlace(rule, hs) ==
    LET f[i \in 0..Len(hs)] ==
            IF i = 0 THEN [h |-> hs, n |-> 0]
            ELSE IF f[i-1].h[i][1] \in rule.headers
            THEN [h |-> [f[i-1].h EXCEPT ![f[i-1].n + 1] = f[i-1].h[i]], n |-> f[i-1].n + 1]
            ELSE f[i-1]
    IN  f[Len(hs)]
HeadersInPlace(rule, hs) ==
    LET kept == KeptInPlace(rule, hs) IN KVSlice(SubSeq(kept.h, 1, kept.n))

\* calculateAndSetUpKeys: names and values run together, the path is not among them.
Keyed(rule, queries, headers) ==
    LET bytes == FlattenSeq([i \in DOMAIN (queries \o headers) |->
                               (queries \o headers)[i][1] \o (queries \o headers)[i][2]])
    IN  [rule |-> rule, key |-> Hash(bytes), shard |-> MapShardKey(Hash(bytes)),
         fp |-> bytes, payload |-> <<>>, compressed |-> 0, updatedAt |-> "built"]

NewEntryFastHttp(cfg, r) ==
    LET rule == cfg[r.path]
    IN  Keyed(r.path, QueriesFastHttp(rule, QueryArgs(r.query)), HeadersFastHttp(rule, r.headers))
NewEntryManual(cfg, r) ==
    LET rule == cfg[r.path]
    IN  Keyed(r.path, parseFilterAndSortQuery(rule, r.query), HeadersInPlace(rule, r.headers))

-------------------------------------------------------------------------------
(***************************************************************************)
(* The payload: path, query, request headers, status, response headers     *)
(* (each with a count of values, always 1), body.                          *)
(***************************************************************************)
Sized(s) == <<Len(s)>> \o s
PackPairs(kvs) ==
    <<Len(kvs)>> \o FlattenSeq([i \in DOMAIN kvs |-> Sized(kvs[i][1]) \o Sized(kvs[i][2])])
PackHeaders(kvs) ==
    <<Len(kvs)>> \o FlattenSeq([i \in DOMAIN kvs |->
                                  Sized(kvs[i][1]) \o <<1>> \o Sized(kvs[i][2])])
Pack(t) ==
    Sized(t.path) \o Sized(t.query) \o PackPairs(t.asked) \o <<t.status>>
      \o PackHeaders(t.headers) \o Sized(t.body)

\* SetPayload's "total", in cells: the capacity the payload is allocated with.
PairsSize(kvs, n) ==
    LET f[i \in 0..Len(kvs)] == IF i = 0 THEN 0
                                ELSE f[i-1] + n + Len(kvs[i][1]) + Len(kvs[i][2])
    IN  f[Len(kvs)]
Total(t) ==
    (1 + Len(t.path)) + (1 + Len(t.query)) + 1 + PairsSize(t.asked, 2)
      + 1 + 1 + PairsSize(t.headers, 3) + (1 + Len(t.body))

\* A sized field behind offset o of buf: its bytes, and the offset behind it.
Field(buf, o) == [val |-> SubSeq(buf, o + 2, o + 1 + buf[o + 1]), off |-> o + 1 + buf[o + 1]]
UnpackPairs(buf, o) ==
    LET n == buf[o + 1]
        f[i \in 0..n] ==
            IF i = 0 THEN [kvs |-> <<>>, off |-> o + 1]
            ELSE LET k == Field(buf, f[i-1].off)
                     v == Field(buf, k.off)
                 IN  [kvs |-> Append(f[i-1].kvs, <<k.val, v.val>>), off |-> v.off]
    IN  f[n]
UnpackHeaders(buf, o) ==
    LET n == buf[o + 1]
        f[i \in 0..n] ==
            IF i = 0 THEN [kvs |-> <<>>, off |-> o + 1]
            ELSE LET k == Field(buf, f[i-1].off)
                     vals[j \in 0..buf[k.off + 1]] ==
                         IF j = 0 THEN [kvs |-> f[i-1].kvs, off |-> k.off + 1]
                         ELSE LET v == Field(buf, vals[j-1].off)
                              IN  [kvs |-> Append(vals[j-1].kvs, <<k.val, v.val>>), off |-> v.off]
                 IN  vals[buf[k.off + 1]]
    IN  f[n]
\* Payload: the body is whatever follows its length.
UnpackPayload(buf) ==
    LET path  == Field(buf, 0)
        query == Field(buf, path.off)
        asked == UnpackPairs(buf, query.off)
        hs    == UnpackHeaders(buf, asked.off + 1)
    IN  [path |-> path.val, query |-> query.val, asked |-> asked.kvs,
         status |-> buf[asked.off + 1], headers |-> hs.kvs,
         body |-> SubSeq(buf, hs.off + 2, Len(buf))]

\* The dump of an entry and what is read back from it.
ToBytes(e) ==
    Sized(e.rule) \o <<e.key, e.shard, e.fp, e.compressed, e.updatedAt>> \o Sized(e.payload)
EntryFromBytesV(buf) ==                        \* the shard is read where the key is
    LET rule == Field(buf, 0)
        o    == rule.off
    IN  [rule |-> rule.val, key |-> buf[o + 1], shard |-> buf[o + 1], fp |-> buf[o + 3],
         compressed |-> buf[o + 4], updatedAt |-> buf[o + 5], payload |-> Field(buf, o + 5).val]
EntryFromBytes(buf) ==
    LET rule == Field(buf, 0)
        o    == rule.off
    IN  [rule |-> rule.val, key |-> buf[o + 1], shard |-> buf[o + 2], fp |-> buf[o + 3],
         compressed |-> buf[o + 4], updatedAt |-> buf[o + 5], payload |-> Field(buf, o + 5).val]

-------------------------------------------------------------------------------
(***************************************************************************)
(* The life of an entry: built for a request of the server or for a mock,  *)
(* filled, refreshed, dumped, and loaded by a process that may have        *)
(* another configuration.                                                  *)
(***************************************************************************)
EntryInit ==
    /\ req \in [path : Path, query : Query, headers : Headers]
    /\ rules \in Configs
    /\ entry = None /\ told = None /\ image = <<>> /\ saved = None

Request(query, asked, a) ==
    [path |-> req.path, query |-> query, asked |-> asked,
     status |-> a.status, headers |-> a.headers, body |-> a.body]
Filled(e, t) == /\ entry' = [e EXCEPT !.payload = Pack(t), !.compressed = 0]
                /\ told' = t

\* A miss: only an answer of 200 is kept, with the query as fasthttp prints it and
\* all the request's headers.
Miss(a) ==
    /\ entry = None /\ req.path \in DOMAIN rules
    /\ a.status = StatusOK
    /\ Filled(NewEntryFastHttp(rules, req),
              Request(QueryString(QueryArgs(req.query)), req.headers, a))
    /\ UNCHANGED <<req, rules, image, saved>>

\* A mock, whose headers were filtered in place before they are packed.
Mock(a) ==
    /\ entry = None /\ req.path \in DOMAIN rules
    /\ a.status = StatusOK
    /\ Filled(NewEntryManual(rules, req),
              Request(<<Mark>> \o req.query, HeadersInPlace(rules[req.path], req.headers), a))
    /\ UNCHANGED <<req, rules, image, saved>>

RevalidateV(a) ==                            \* the answer's headers go to the request
    LET t == UnpackPayload(entry.payload)
        u == [t EXCEPT !.status = a.status, !.asked = a.headers, !.body = a.body]
    IN  /\ entry # None /\ a.status = StatusOK
        /\ entry' = [entry EXCEPT !.payload = Pack(u), !.compressed = 0, !.updatedAt = "refreshed"]
        /\ told' = [told EXCEPT !.status = a.status, !.headers = a.headers, !.body = a.body]
        /\ UNCHANGED <<req, rules, image, saved>>
\* Revalidate: the request is taken from the payload and packed again with the
\* answer, unless that is not a 200.
Revalidate(a) ==
    LET t == UnpackPayload(entry.payload)
        u == [t EXCEPT !.status = a.status, !.headers = a.headers, !.body = a.body]
    IN  /\ entry # None /\ a.status = StatusOK
        /\ entry' = [entry EXCEPT !.payload = Pack(u), !.compressed = 0, !.updatedAt = "refreshed"]
        /\ told' = [told EXCEPT !.status = a.status, !.headers = a.headers, !.body = a.body]
        /\ UNCHANGED <<req, rules, image, saved>>

Dump ==
    /\ entry # None
    /\ image' = ToBytes(entry) /\ saved' = entry
    /\ UNCHANGED <<req, rules, entry, told>>

\* The next process: its configuration may have other rules, or none for the path.
Restart(cfg) ==
    /\ rules' = cfg /\ entry' = None /\ told' = None
    /\ UNCHANGED <<req, image, saved>>

\* EntryFromBytes: an entry without a rule is refused.
Load ==
    /\ entry = None /\ image # <<>>
    /\ EntryFromBytes(image).rule \in DOMAIN rules
    /\ entry' = EntryFromBytes(image)
    /\ told' = UnpackPayload(entry'.payload)
    /\ UNCHANGED <<req, rules, image, saved>>

EntryNext ==
    \/ \E a \in Answers : Miss(a) \/ Mock(a) \/ Revalidate(a)
    \/ Dump \/ Load
    \/ \E cfg \in Configs : Restart(cfg)

EntrySpec == EntryInit /\ [][EntryNext]_entryVars

-------------------------------------------------------------------------------
(***************************************************************************)
(* Properties                                                              *)
(***************************************************************************)
Rules == UNION {{c[p] : p \in DOMAIN c} : c \in Configs}
Names(hs) == {hs[i][1] : i \in DOMAIN hs}

\* An entry a mock, a net/http request or the server's request is built for is the
\* same one: the two parsers and the four filters, in place or not, over a list or
\* over a map walked in any order, leave the same sorted pairs.
KeyPartsAgree ==
    \A rule \in Rules :
      /\ LET fast == QueriesFastHttp(rule, QueryArgs(req.query))
         IN  /\ parseFilterAndSortQuery(rule, req.query) = fast
             /\ parseFilterAndSortQuery(rule, <<Mark>> \o req.query) = fast
             /\ QueriesFastHttp(rule, QueryArgs(QueryString(QueryArgs(req.query)))) = fast
      /\ LET fast == HeadersFastHttp(rule, req.headers)
         IN  /\ HeadersInPlace(rule, req.headers) = fast
             /\ \A order \in SetToSeqs(Names(req.headers)) :
                   HeadersNetHttp(rule, req.headers, order) = fast

\* Parameters with different names may come in any order: the key is the same.
OrderFree ==
    LET segs == Segments(req.query)
    IN  Cardinality({SplitSegment(segs[i]).name : i \in DOMAIN segs}) = Len(segs) =>
          \A rule \in Rules, p \in Bijection(DOMAIN segs, DOMAIN segs) :
             QueriesFastHttp(rule, QueryArgs(Joined([i \in DOMAIN segs |-> segs[p[i]]])))
               = QueriesFastHttp(rule, QueryArgs(req.query))

\* After any number of refreshes, dumps and restarts a payload unpacks to the
\* request the entry was built for and the last answer to it, and it fills the
\* capacity that was computed for it (its weight counts no slack).
PayloadFaithful ==
    entry # None => /\ UnpackPayload(entry.payload) = told
                    /\ told.path = req.path
                    /\ Len(entry.payload) = Total(told)

\* A process that loads a dump has the very entry the other one dumped, key, shard,
\* fingerprint and time included, under whatever configuration still has its rule.
LoadedIsDumped == [][Load => entry' = saved]_entryVars
================================================================================
