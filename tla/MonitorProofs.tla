---------------------------- MODULE MonitorProofs ----------------------------
(***************************************************************************)
(* The monitor for any number of workers, jobs, deliveries and worlds.     *)
(*                                                                         *)
(* A scan is a list of statements still to execute.  Shape says what such  *)
(* a list looks like: submissions that have not started and plain          *)
(* statements (IsPlan), after at most one submission that goes on (Todo).  *)
(* Steps sorts the steps of Next by what they do to the scans and to the   *)
(* stream, so the three invariants are proved over seven kinds of step     *)
(* instead of twenty-odd actions:                                          *)
(*   WindowInv   a worker between its dedup claim and its INSERT is the    *)
(*               only one aiming at its window, whose row does not exist;  *)
(*   LostInv     what is owed is stored or stands in some worker's list,   *)
(*               and a claimed window is stored or aimed at;               *)
(*   ConfirmInv  a parked change seen twice is about to be unparked.       *)
(***************************************************************************)
EXTENDS Monitor, FiniteSetTheorems, SequenceTheorems, TLAPS

-----------------------------------------------------------------------------
(* Lists of lists.                                                         *)

LEMMA ImageFinite ==
  ASSUME NEW S, NEW f, IsFiniteSet(S)
  PROVE  IsFiniteSet({f[x] : x \in S})
<1> DEFINE g == [x \in S |-> f[x]]
<1>1. g \in Surjection(S, {f[x] : x \in S})
  BY DEF Surjection
<1> QED BY <1>1, FS_Surjection

LEMMA PlacesFinite ==
  ASSUME NEW lists, IsFiniteSet(DOMAIN lists),
         \A i \in DOMAIN lists : IsFiniteSet(DOMAIN lists[i])
  PROVE  IsFiniteSet(Places(lists))
<1> DEFINE f == [i \in DOMAIN lists |-> {i} \X DOMAIN lists[i]]
<1>1. {f[i] : i \in DOMAIN lists} = {{i} \X DOMAIN lists[i] : i \in DOMAIN lists}
  OBVIOUS
<1>3. \A i \in DOMAIN lists : IsFiniteSet({i} \X DOMAIN lists[i])
  BY FS_Singleton, FS_Product
<1> HIDE DEF f
<1>2. IsFiniteSet({f[i] : i \in DOMAIN lists})
  BY ImageFinite
<1>4. IsFiniteSet(UNION {{i} \X DOMAIN lists[i] : i \in DOMAIN lists})
  <2> DEFINE U == {{i} \X DOMAIN lists[i] : i \in DOMAIN lists}
  <2>1. IsFiniteSet(U) /\ \A T \in U : IsFiniteSet(T)
    BY <1>1, <1>2, <1>3
  <2> HIDE DEF U
  <2>2. IsFiniteSet(UNION U)
    BY <2>1, FS_UNION
  <2> QED BY <2>2 DEF U
<1> QED BY <1>4 DEF Places

\* The places of a finite set of places are ranked 1, 2, ... to the last.
LEMMA Ranks ==
  ASSUME NEW P \in SUBSET (Nat \X Nat), IsFiniteSet(P)
  PROVE  /\ \A p \in P : Cardinality(UpTo(p, P)) \in 1 .. Cardinality(P)
         /\ \A n \in 1 .. Cardinality(P) :
               NthPlace(P, n) \in P /\ Cardinality(UpTo(NthPlace(P, n), P)) = n
         /\ \A p \in P : NthPlace(P, Cardinality(UpTo(p, P))) = p
<1> DEFINE N == Cardinality(P)
           rank == [p \in P |-> Cardinality(UpTo(p, P))]
<1>0. N \in Nat
  BY FS_CardinalityType
<1>1. \A p \in P : p \in UpTo(p, P) /\ UpTo(p, P) \subseteq P
  BY DEF UpTo
<1>2. \A p \in P : IsFiniteSet(UpTo(p, P)) /\ Cardinality(UpTo(p, P)) \in Nat
                   /\ Cardinality(UpTo(p, P)) <= N
  BY <1>1, FS_Subset, FS_CardinalityType
<1>3. \A p \in P : Cardinality(UpTo(p, P)) # 0
  BY <1>1, <1>2, FS_EmptySet
<1>4. \A p \in P : Cardinality(UpTo(p, P)) \in 1 .. N
  BY <1>0, <1>2, <1>3
<1>5. ASSUME NEW p \in P, NEW q \in P, p # q,
             Cardinality(UpTo(p, P)) = Cardinality(UpTo(q, P))
      PROVE  FALSE
  <2>1. p \in UpTo(q, P) \/ q \in UpTo(p, P)
    BY <1>5 DEF UpTo
  <2>2. ASSUME NEW a \in P, NEW b \in P, a # b, a \in UpTo(b, P),
               Cardinality(UpTo(a, P)) = Cardinality(UpTo(b, P))
        PROVE  FALSE
    <3>1. UpTo(a, P) \subseteq UpTo(b, P)
      BY <2>2 DEF UpTo
    <3>2. b \notin UpTo(a, P)
      BY <2>2 DEF UpTo
    <3>3. UpTo(b, P) = UpTo(a, P)
      BY <1>2, <2>2, <3>1, FS_Subset
    <3> QED BY <1>1, <3>2, <3>3
  <2> QED BY <1>5, <2>1, <2>2
<1>6. rank \in Injection(P, 1 .. N)
  BY <1>4, <1>5 DEF Injection, IsInjective
<1>7. \A n \in Nat : IsFiniteSet(1 .. n) /\ Cardinality(1 .. n) = n
  BY FS_Interval
<1>8. rank \in Surjection(P, 1 .. N)
  BY <1>0, <1>6, <1>7, FS_Injection
<1>9. \A n \in 1 .. N : \E p \in P : Cardinality(UpTo(p, P)) = n
  BY <1>8 DEF Surjection
<1>10. \A n \in 1 .. N :
          NthPlace(P, n) \in P /\ Cardinality(UpTo(NthPlace(P, n), P)) = n
  BY <1>9 DEF NthPlace
<1>11. \A p \in P : NthPlace(P, Cardinality(UpTo(p, P))) = p
  BY <1>4, <1>5, <1>10
<1> QED BY <1>4, <1>10, <1>11

\* A list of lists is flattened into the list of all their items.
IsListOfLists(lists) ==
    /\ IsFiniteSet(DOMAIN lists) /\ DOMAIN lists \subseteq Nat
    /\ \A i \in DOMAIN lists : \E S : lists[i] \in Seq(S)

LEMMA FlattenIs ==
  ASSUME NEW lists, IsListOfLists(lists), NEW T,
         \A i \in DOMAIN lists : \A j \in DOMAIN lists[i] : lists[i][j] \in T
  PROVE  /\ Flatten(lists) \in Seq(T)
         /\ \A i \in DOMAIN lists : \A j \in DOMAIN lists[i] :
               \E n \in DOMAIN Flatten(lists) : Flatten(lists)[n] = lists[i][j]
         /\ \A n \in DOMAIN Flatten(lists) : \E i \in DOMAIN lists :
               \E j \in DOMAIN lists[i] : Flatten(lists)[n] = lists[i][j]
<1> DEFINE P == Places(lists)
           N == Cardinality(P)
<1>1. \A i \in DOMAIN lists : IsFiniteSet(DOMAIN lists[i]) /\ DOMAIN lists[i] \subseteq Nat
  <2> TAKE i \in DOMAIN lists
  <2>1. PICK S : lists[i] \in Seq(S)
    BY DEF IsListOfLists
  <2>2. Len(lists[i]) \in Nat /\ DOMAIN lists[i] = 1 .. Len(lists[i])
    BY <2>1, LenProperties
  <2> QED BY <2>2, FS_Interval
<1>2. IsFiniteSet(P)
  BY <1>1, PlacesFinite DEF IsListOfLists
<1>3. \A p : p \in P <=> \E i \in DOMAIN lists : \E j \in DOMAIN lists[i] : p = <<i, j>>
  BY DEF Places
<1>4. P \in SUBSET (Nat \X Nat)
  BY <1>1, <1>3 DEF IsListOfLists
<1>5. N \in Nat
  BY <1>2, FS_CardinalityType
<1>6. \A n \in 1 .. N : NthPlace(P, n) \in P
  BY <1>2, <1>4, Ranks
<1>7. \A p \in P : Cardinality(UpTo(p, P)) \in 1 .. N
                   /\ NthPlace(P, Cardinality(UpTo(p, P))) = p
  BY <1>2, <1>4, Ranks
<1> DEFINE F == Flatten(lists)
<1>8. DOMAIN F = 1 .. N
      /\ \A n \in 1 .. N : F[n] = lists[NthPlace(P, n)[1]][NthPlace(P, n)[2]]
  BY DEF Flatten
<1>9. \A n \in 1 .. N : \E i \in DOMAIN lists : \E j \in DOMAIN lists[i] : F[n] = lists[i][j]
  <2> TAKE n \in 1 .. N
  <2>1. PICK i \in DOMAIN lists : \E j \in DOMAIN lists[i] : NthPlace(P, n) = <<i, j>>
    BY <1>3, <1>6
  <2>2. PICK j \in DOMAIN lists[i] : NthPlace(P, n) = <<i, j>>
    BY <2>1
  <2> QED BY <1>8, <2>2
<1>10. F = [n \in 1 .. N |-> F[n]]
  BY DEF Flatten
<1>11. \A i \in DOMAIN lists : \A j \in DOMAIN lists[i] : \E n \in 1 .. N : F[n] = lists[i][j]
  <2> TAKE i \in DOMAIN lists
  <2> TAKE j \in DOMAIN lists[i]
  <2>1. <<i, j>> \in P
    BY <1>3
  <2>2. PICK n \in 1 .. N : NthPlace(P, n) = <<i, j>>
    BY <1>7, <2>1
  <2>3. F[n] = lists[i][j]
    BY <1>8, <2>2
  <2> QED BY <2>3
<1> HIDE DEF F, N, P
<1>12. F \in Seq(T)
  BY <1>5, <1>9, <1>10
<1> QED BY <1>8, <1>9, <1>11, <1>12 DEF F

LEMMA SetToSeqIs ==
  ASSUME NEW S, IsFiniteSet(S)
  PROVE  /\ SetToSeq(S) \in Seq(S)
         /\ \A x \in S : \E i \in DOMAIN SetToSeq(S) : SetToSeq(S)[i] = x
         /\ IsFiniteSet(DOMAIN SetToSeq(S)) /\ DOMAIN SetToSeq(S) \subseteq Nat
<1> DEFINE N == Cardinality(S)
<1>1. N \in Nat /\ ExistsBijection(1 .. N, S)
  BY FS_CardinalityType
<1>2. PICK b : b \in Bijection(1 .. N, S)
  BY <1>1 DEF ExistsBijection
<1>3. b \in [1 .. N -> S] /\ IsInjective(b)
  BY <1>2 DEF Bijection, Injection
<1>4. SetToSeq(S) \in [1 .. N -> S] /\ IsInjective(SetToSeq(S))
  BY <1>3 DEF SetToSeq
<1> DEFINE s == SetToSeq(S)
<1> HIDE DEF s, N
<1>5. s \in Injection(1 .. N, S)
  BY <1>4 DEF Injection, s
<1>6. IsFiniteSet(1 .. N) /\ Cardinality(1 .. N) = N
  BY <1>1, FS_Interval
<1>7. s \in Surjection(1 .. N, S)
  BY <1>5, <1>6, FS_Injection DEF N
<1>8. s \in Seq(S) /\ DOMAIN s = 1 .. N
  BY <1>1, <1>4 DEF s
<1> QED BY <1>1, <1>6, <1>7, <1>8 DEF Surjection, s

Includes(r, s) == \A i \in DOMAIN s : \E n \in DOMAIN r : r[n] = s[i]

LEMMA ConcatIs ==
  ASSUME NEW S, NEW T, NEW s \in Seq(S), NEW t \in Seq(T), NEW r, r = s \o t
  PROVE  r \in Seq(S \cup T) /\ Includes(r, s) /\ Includes(r, t)
<1>1. s \in Seq(S \cup T) /\ t \in Seq(S \cup T)
  BY SeqMonotonic
<1>3. r \in Seq(S \cup T) /\ Len(r) = Len(s) + Len(t)
      /\ \A i \in 1 .. Len(s) + Len(t) : r[i] = IF i <= Len(s) THEN s[i] ELSE t[i - Len(s)]
  BY <1>1, ConcatProperties
<1>4. Len(s) \in Nat /\ Len(t) \in Nat /\ DOMAIN s = 1 .. Len(s) /\ DOMAIN t = 1 .. Len(t)
      /\ DOMAIN r = 1 .. Len(s) + Len(t)
  BY <1>1, <1>3, LenProperties
<1>5. \A i \in DOMAIN s : \E n \in DOMAIN r : r[n] = s[i]
  <2> TAKE i \in DOMAIN s
  <2>1. i \in DOMAIN r /\ r[i] = s[i]
    BY <1>3, <1>4
  <2> QED BY <2>1
<1>6. \A i \in DOMAIN t : \E n \in DOMAIN r : r[n] = t[i]
  <2> TAKE i \in DOMAIN t
  <2>1. PICK n : n = Len(s) + i
    OBVIOUS
  <2>2. n \in DOMAIN r /\ ~(n <= Len(s)) /\ n - Len(s) = i
    BY <1>4, <2>1
  <2>3. r[n] = t[i]
    BY <1>3, <1>4, <2>2
  <2> QED BY <2>2, <2>3
<1> QED BY <1>3, <1>5, <1>6 DEF Includes

-----------------------------------------------------------------------------
(* The diff names changes of the asset.                                    *)

OfAsset(c) == c.type \notin {"monitor.change_burst", "candidate"}
Changes(s) == \E T : s \in Seq(T) /\ \A c \in T : OfAsset(c)

LEMMA ConcatChanges ==
  ASSUME NEW s, NEW t, Changes(s), Changes(t) PROVE Changes(s \o t)
<1>1. PICK S : s \in Seq(S) /\ \A c \in S : OfAsset(c)
  BY DEF Changes
<1>2. PICK T : t \in Seq(T) /\ \A c \in T : OfAsset(c)
  BY DEF Changes
<1>3. s \o t \in Seq(S \cup T) /\ \A c \in S \cup T : OfAsset(c)
  BY <1>1, <1>2, ConcatIs
<1> QED BY <1>3 DEF Changes

LEMMA WhenIs ==
  ASSUME NEW cond, NEW c, OfAsset(c) PROVE Changes(When(cond, c))
<1>1. PICK s : s = When(cond, c)
  OBVIOUS
<1>2. s = <<c>> \/ s = <<>>
  BY <1>1 DEF When
<1>3. s \in Seq({c})
  <2>1. <<c>> \in Seq({c}) /\ <<>> \in Seq({c})
    OBVIOUS
  <2> QED BY <1>2, <2>1
<1>4. Changes(s)
  BY <1>3 DEF Changes
<1> QED BY <1>1, <1>4

LEMMA ChangeIs ==
  ASSUME NEW type, NEW key, NEW sev
  PROVE  /\ Change(type, key, sev).type = type /\ Change(type, key, sev).key = key
         /\ Change(type, key, sev).silent = FALSE
         /\ type \notin {"monitor.change_burst", "candidate"} => OfAsset(Change(type, key, sev))
  BY DEF Change, OfAsset

LEMMA DNSChanges == ASSUME NEW prev, NEW curr PROVE Changes(DNS(prev, curr))
<1> DEFINE Differs(rt) == Records(prev, rt) # Records(curr, rt)
           OfType(rt) == RecordChange(rt, Records(prev, rt), Records(curr, rt))
           lists == [i \in DOMAIN RecordTypes |->
                        When(Differs(RecordTypes[i]), OfType(RecordTypes[i]))]
           dangling == When(curr.dangling # "no",
                Change("dns.dangling_cname", "cname",
                       IF curr.dangling = "takeable" THEN SevCritical ELSE SevMedium))
<1>1. \A rt : OfAsset(OfType(rt))
  <2> TAKE rt
  <2>1. \A sev : /\ OfAsset(Change("dns.ns_changed", rt, sev))
                 /\ OfAsset(Change("dns.new_records", rt, sev))
                 /\ OfAsset(Change("dns.records_changed", rt, sev))
    BY ChangeIs
  <2>2. \/ OfType(rt) = Change("dns.ns_changed", rt, SevHigh)
        \/ OfType(rt) = Change("dns.new_records", rt, SevInfo)
        \/ \E sev : OfType(rt) = Change("dns.records_changed", rt, sev)
    BY DEF RecordChange
  <2> HIDE DEF OfType
  <2> QED BY <2>1, <2>2
<1>2. \A i \in DOMAIN RecordTypes : Changes(lists[i])
  BY <1>1, WhenIs
<1>3. DOMAIN RecordTypes = 1 .. 6 /\ DOMAIN lists = 1 .. 6
  BY DEF RecordTypes
<1>4. Changes(dangling)
  <2>1. OfAsset(Change("dns.dangling_cname", "cname",
                       IF curr.dangling = "takeable" THEN SevCritical ELSE SevMedium))
    BY ChangeIs
  <2> QED BY <2>1, WhenIs
<1> DEFINE T == {lists[p[1]][p[2]] : p \in Places(lists)}
<1>5. DNS(prev, curr) = Flatten(lists) \o dangling
  BY DEF DNS
<1> HIDE DEF lists, dangling
<1>6. IsListOfLists(lists)
  <2>1. IsFiniteSet(DOMAIN lists)
    <3>1. \A n \in Nat : IsFiniteSet(1 .. n)
      BY FS_Interval
    <3> QED BY <1>3, <3>1
  <2>2. DOMAIN lists \subseteq Nat
    BY <1>3
  <2>3. \A i \in DOMAIN lists : \E S : lists[i] \in Seq(S)
    BY <1>2, <1>3 DEF Changes
  <2> QED BY <2>1, <2>2, <2>3 DEF IsListOfLists
<1>7. \A i \in DOMAIN lists : \A j \in DOMAIN lists[i] : lists[i][j] \in T
  <2> TAKE i \in DOMAIN lists
  <2> TAKE j \in DOMAIN lists[i]
  <2>1. <<i, j>> \in Places(lists)
    BY DEF Places
  <2> QED BY <2>1
<1>8. \A c \in T : OfAsset(c)
  <2>1. ASSUME NEW i \in DOMAIN lists, NEW j \in DOMAIN lists[i] PROVE OfAsset(lists[i][j])
    <3>1. PICK S : lists[i] \in Seq(S) /\ \A c \in S : OfAsset(c)
      BY <1>2, <1>3 DEF Changes
    <3>2. lists[i][j] \in S
      BY <3>1, LenProperties
    <3> QED BY <3>1, <3>2
  <2> QED BY <2>1 DEF Places
<1> HIDE DEF T
<1>9. Flatten(lists) \in Seq(T)
  BY <1>6, <1>7, FlattenIs
<1>10. Changes(Flatten(lists))
  BY <1>8, <1>9 DEF Changes
<1> QED BY <1>4, <1>5, <1>10, ConcatChanges

LEMMA TLSChanges == ASSUME NEW p, NEW c PROVE Changes(TLS(p, c))
<1>1. \A cond, key, sev :
         /\ Changes(When(cond, Change("tls.cert_changed", key, sev)))
         /\ Changes(When(cond, Change("tls.cert_expired", key, sev)))
         /\ Changes(When(cond, Change("tls.cert_expiring", key, sev)))
         /\ Changes(When(cond, Change("tls.protocol_downgrade", key, sev)))
         /\ Changes(When(cond, Change("tls.hostname_mismatch", key, sev)))
  BY ChangeIs, WhenIs
<1> QED BY <1>1, ConcatChanges, Zenon DEF TLS

LEMMA HTTPChanges == ASSUME NEW p, NEW c, NEW critical PROVE Changes(HTTP(p, c, critical))
<1>1. \A cond, key, sev :
         /\ Changes(When(cond, Change("http.status_changed", key, sev)))
         /\ Changes(When(cond, Change("http.title_changed", key, sev)))
         /\ Changes(When(cond, Change("http.headers_changed", key, sev)))
         /\ Changes(When(cond, Change("http.tech_added", key, sev)))
         /\ Changes(When(cond, Change("http.tech_removed", key, sev)))
         /\ Changes(When(cond, Change("http.redirect_target_changed", key, sev)))
  BY ChangeIs, WhenIs
<1>2. OfAsset(ContentChange(p, c, critical))
  BY DEF ContentChange, Change, OfAsset
<1>3. \A cond : Changes(When(cond, ContentChange(p, c, critical)))
  BY <1>2, WhenIs
<1> DEFINE pc == StatusClass(p.status)
           cc == StatusClass(c.status)
           sev == CASE c.parked /\ ~p.parked -> SevMedium
                 [] cc = "5xx" /\ pc = "2xx" -> SevHigh
                 [] cc = "4xx" /\ pc = "2xx" -> SevMedium
                 [] OTHER -> SevLow
           a1 == When(pc # cc \/ p.parked # c.parked,
             Change("http.status_changed", "status",
                    IF c.parked /\ ~p.parked THEN SevMedium ELSE sev))
           a2 == When(p.title # c.title /\ pc = "2xx" /\ cc = "2xx",
                Change("http.title_changed", "title", SevLow))
           a3 == When(p.sim # c.sim, ContentChange(p, c, critical))
           a4 == When(HeadersDiffer(p, c),
                Change("http.headers_changed", "headers", SevLow))
           a5 == When(c.tech \ p.tech # {},
                Change("http.tech_added", c.tech \ p.tech, SevLow))
           a6 == When(p.tech \ c.tech # {},
                Change("http.tech_removed", p.tech \ c.tech, SevInfo))
           a7 == When(p.redirect # c.redirect,
                Change("http.redirect_target_changed", "redirect", SevMedium))
<1>4. Changes(a1) /\ Changes(a2) /\ Changes(a4) /\ Changes(a5) /\ Changes(a6) /\ Changes(a7)
  BY <1>1
<1>5. Changes(a3)
  BY <1>3
<1>6. HTTP(p, c, critical) = a1 \o a2 \o a3 \o a4 \o a5 \o a6 \o a7
  BY DEF HTTP
<1> HIDE DEF a1, a2, a3, a4, a5, a6, a7
<1> QED BY <1>4, <1>5, <1>6, ConcatChanges

LEMMA TCPChanges ==
  ASSUME NEW prev, NEW curr, IsFiniteSet(DOMAIN curr.ports) PROVE Changes(TCP(prev, curr))
<1> DEFINE Flipped(port) == /\ port \in DOMAIN prev.ports
                            /\ prev.ports[port] # curr.ports[port]
                            /\ "open" \in {prev.ports[port], curr.ports[port]}
           S == {p \in DOMAIN curr.ports : Flipped(p)}
           s == SetToSeq(S)
           r == [i \in DOMAIN s |-> PortChange(s[i], curr.ports[s[i]])]
<1>1. IsFiniteSet(S)
  <2>1. S \in SUBSET DOMAIN curr.ports
    OBVIOUS
  <2> QED BY <2>1, FS_Subset
<1>2. TCP(prev, curr) = r
  BY DEF TCP
<1> HIDE DEF S
<1>3. s \in Seq(S)
  BY <1>1, SetToSeqIs
<1>4. \A port, state : OfAsset(PortChange(port, state))
  BY ChangeIs DEF PortChange
<1> DEFINE T == {PortChange(s[i], curr.ports[s[i]]) : i \in DOMAIN s}
<1>5. \A c \in T : OfAsset(c)
  BY <1>4
<1> HIDE DEF s
<1>6. Len(s) \in Nat /\ DOMAIN s = 1 .. Len(s)
  BY <1>3, LenProperties
<1>7. r \in Seq(T)
  BY <1>6
<1> HIDE DEF r, T
<1>8. Changes(r)
  BY <1>5, <1>7 DEF Changes
<1> QED BY <1>2, <1>8

LEMMA SnapshotChanges ==
  ASSUME NEW prev, NEW curr, NEW critical, curr.probe \in AllProbes,
         curr.probe = "tcp_port" => IsFiniteSet(DOMAIN curr.ports)
  PROVE  Changes(Snapshots(prev, curr, critical))
<1>1. CASE curr.probe = "dns"
  BY <1>1, DNSChanges DEF Snapshots
<1>2. CASE curr.probe = "tls"
  BY <1>2, TLSChanges DEF Snapshots
<1>3. CASE curr.probe = "http"
  BY <1>3, HTTPChanges DEF Snapshots
<1>4. CASE curr.probe = "tcp_port"
  BY <1>4, TCPChanges DEF Snapshots
<1> QED BY <1>1, <1>2, <1>3, <1>4 DEF AllProbes

-----------------------------------------------------------------------------
(* What a scan has left to execute.                                        *)

RawOk(raw) == raw \in {"none", "kept"} /\ (raw = "kept" => "kept" \in Raw)
Observed1(o) == /\ o.doc.outcome = "ok" /\ o.doc.probe \in AllProbes
                /\ RawOk(o.raw)
Submitted(e) == /\ DOMAIN e = {"change", "day", "gate"}
                /\ OfAsset(e.change) /\ e.day \in Nat /\ e.day <= day
Parked(p) == /\ DOMAIN p = {"change", "after", "seen"}
             /\ OfAsset(p.change) /\ Observed1(p.after)

\* A submission that has not started, or any other statement.
Phases == {"gate", "event", "outbox"}
Item(o) == /\ o[1] \notin Phases
           /\ o[1] = "dedup" => Submitted(o[2])
           /\ o[1] = "park" => Parked(o[2]) /\ o[2].seen = 1
           /\ o[1] = "latest" => Observed1(o[2])
IsPlan(s) == \E T : s \in Seq(T) /\ \A o \in T : Item(o)

\* Only the first statement may be one of a submission that goes on.
First(o) == o[1] \in Phases => Submitted(o[2])
Todo(s) == /\ \E T : s \in Seq(T)
           /\ s # <<>> => First(Head(s)) /\ (Item(Head(s)) \/ Head(s)[1] \in Phases)
                          /\ IsPlan(Tail(s))
Has(s, o) == \E n \in DOMAIN s : s[n] = o

LEMMA EmptyPlan == IsPlan(<<>>)
<1>1. PICK s : s = <<>>
  OBVIOUS
<1>2. s \in Seq({})
  BY <1>1
<1>3. IsPlan(s)
  BY <1>2 DEF IsPlan
<1> QED BY <1>1, <1>3

LEMMA ConcatPlan ==
  ASSUME NEW s, NEW t, IsPlan(s), IsPlan(t)
  PROVE  /\ IsPlan(s \o t)
         /\ \A o : Has(s, o) => Has(s \o t, o)
         /\ \A o : Has(t, o) => Has(s \o t, o)
<1>1. PICK S : s \in Seq(S) /\ \A o \in S : Item(o)
  BY DEF IsPlan
<1>2. PICK T : t \in Seq(T) /\ \A o \in T : Item(o)
  BY DEF IsPlan
<1>3. s \o t \in Seq(S \cup T) /\ \A o \in S \cup T : Item(o)
  BY <1>1, <1>2, ConcatIs
<1>4. IsPlan(s \o t)
  BY <1>3 DEF IsPlan
<1>5. s \in Seq(S) /\ t \in Seq(T)
  BY <1>1, <1>2
<1>6. PICK r : r = s \o t
  OBVIOUS
<1>7. Includes(r, s) /\ Includes(r, t)
  BY <1>5, <1>6, ConcatIs
<1> QED BY <1>4, <1>6, <1>7 DEF Has, Includes

LEMMA OpPlan ==
  ASSUME NEW name, NEW arg, Item(<<name, arg>>)
  PROVE  IsPlan(Op(name, arg)) /\ Has(Op(name, arg), <<name, arg>>)
<1>1. PICK s : s = Op(name, arg)
  OBVIOUS
<1>2. s = <<<<name, arg>>>>
  BY <1>1 DEF Op
<1>3. s \in Seq({<<name, arg>>}) /\ s[1] = <<name, arg>> /\ DOMAIN s = {1}
  BY <1>2
<1>4. IsPlan(s) /\ Has(s, <<name, arg>>)
  BY <1>3 DEF IsPlan, Has
<1> QED BY <1>1, <1>4

Special == {"dedup", "park", "latest"} \cup Phases

LEMMA PlainOp ==
  ASSUME NEW name, NEW arg, name \notin Special
  PROVE  IsPlan(Op(name, arg)) /\ Has(Op(name, arg), <<name, arg>>)
BY OpPlan DEF Item, Special

LEMMA PlanMembers ==
  ASSUME NEW s, IsPlan(s) PROVE \A n \in DOMAIN s : Item(s[n])
<1>1. PICK T : s \in Seq(T) /\ \A o \in T : Item(o)
  BY DEF IsPlan
<1>2. \A n \in DOMAIN s : s[n] \in T
  BY <1>1, LenProperties
<1> QED BY <1>1, <1>2

LEMMA FlattenPlan ==
  ASSUME NEW lists, IsFiniteSet(DOMAIN lists), DOMAIN lists \subseteq Nat,
         \A i \in DOMAIN lists : IsPlan(lists[i])
  PROVE  /\ IsPlan(Flatten(lists))
         /\ \A i \in DOMAIN lists : \A o : Has(lists[i], o) => Has(Flatten(lists), o)
<1>1. IsListOfLists(lists)
  BY DEF IsListOfLists, IsPlan
<1> DEFINE T == {lists[p[1]][p[2]] : p \in Places(lists)}
<1>2. \A i \in DOMAIN lists : \A j \in DOMAIN lists[i] : lists[i][j] \in T
  <2> TAKE i \in DOMAIN lists
  <2> TAKE j \in DOMAIN lists[i]
  <2>1. <<i, j>> \in Places(lists)
    BY DEF Places
  <2> QED BY <2>1
<1>3. \A o \in T : Item(o)
  BY PlanMembers DEF Places
<1> HIDE DEF T
<1>4. Flatten(lists) \in Seq(T)
  BY <1>1, <1>2, FlattenIs
<1>5. \A i \in DOMAIN lists : \A j \in DOMAIN lists[i] :
         \E n \in DOMAIN Flatten(lists) : Flatten(lists)[n] = lists[i][j]
  BY <1>1, <1>2, FlattenIs
<1>6. \A i \in DOMAIN lists : \A o : Has(lists[i], o) => Has(Flatten(lists), o)
  BY <1>5 DEF Has
<1> QED BY <1>3, <1>4, <1>6 DEF IsPlan

LEMMA PlanTodo == ASSUME NEW s, IsPlan(s)
                  PROVE  Todo(s) /\ (s # <<>> => Item(Head(s)))
<1>1. PICK T : s \in Seq(T) /\ \A o \in T : Item(o)
  BY DEF IsPlan
<1>2. ASSUME s # <<>> PROVE Item(Head(s)) /\ IsPlan(Tail(s))
  <2>1. Head(s) \in T /\ Tail(s) \in Seq(T)
    BY <1>1, <1>2, HeadTailProperties
  <2> QED BY <1>1, <2>1 DEF IsPlan
<1> QED BY <1>1, <1>2 DEF Todo, First, Item

\* The head makes way for the next statement of its submission.
LEMMA NextTodo ==
  ASSUME NEW s, Todo(s), s # <<>>, NEW o, o[1] \in Phases, Submitted(o[2])
  PROVE  LET r == <<o>> \o Tail(s)
         IN  /\ Todo(r) /\ r # <<>> /\ Head(r) = o /\ Tail(r) = Tail(s)
<1>1. PICK T : Tail(s) \in Seq(T) /\ \A x \in T : Item(x)
  BY DEF Todo, IsPlan
<1>2. PICK t : t = Tail(s)
  OBVIOUS
<1>3. PICK r : r = <<o>> \o t
  OBVIOUS
<1>4. t \in Seq(T)
  BY <1>1, <1>2
<1>5. <<o>> \in Seq({o}) /\ Len(<<o>>) = 1 /\ <<o>>[1] = o
  OBVIOUS
<1>6. <<o>> \in Seq(T \cup {o}) /\ t \in Seq(T \cup {o})
  BY <1>4, <1>5, SeqMonotonic
<1>7. r \in Seq(T \cup {o}) /\ Len(r) = 1 + Len(t)
      /\ \A i \in 1 .. 1 + Len(t) : r[i] = IF i <= 1 THEN o ELSE t[i - 1]
  BY <1>3, <1>5, <1>6, ConcatProperties
<1>8. Len(t) \in Nat
  BY <1>6, LenProperties
<1>9. r # <<>> /\ r[1] = o
  BY <1>7, <1>8
<1>10. Head(r) = o
  BY <1>7, <1>9
<1>11. Tail(r) \in Seq(T \cup {o}) /\ Len(Tail(r)) = Len(t)
       /\ \A i \in 1 .. Len(t) : Tail(r)[i] = r[i + 1]
  BY <1>7, <1>8, <1>9, HeadTailProperties
<1>12. \A i \in 1 .. Len(t) : Tail(r)[i] = t[i]
  BY <1>7, <1>8, <1>11
<1>13. Tail(r) = t
  BY <1>6, <1>11, <1>12, SeqEqual
<1>14. IsPlan(t)
  BY <1>1, <1>2 DEF IsPlan
<1>15. First(o)
  BY DEF First
<1>16. Todo(r)
  BY <1>7, <1>10, <1>13, <1>14, <1>15 DEF Todo
<1> QED BY <1>2, <1>3, <1>9, <1>10, <1>13, <1>16

LEMMA TodoHas ==
  ASSUME NEW s, Todo(s), s # <<>>, NEW o
  PROVE  Has(s, o) <=> (o = Head(s) \/ Has(Tail(s), o))
<1>1. PICK T : s \in Seq(T)
  BY DEF Todo
<1>2. /\ Tail(s) \in Seq(T) /\ Len(Tail(s)) = Len(s) - 1
      /\ \A i \in 1 .. Len(Tail(s)) : Tail(s)[i] = s[i + 1]
  BY <1>1, HeadTailProperties
<1>3. Len(s) \in Nat /\ Len(s) >= 1 /\ DOMAIN s = 1 .. Len(s) /\ Head(s) = s[1]
  BY <1>1
<1>4. PICK t : t = Tail(s)
  OBVIOUS
<1>5. DOMAIN t = 1 .. Len(s) - 1 /\ \A i \in 1 .. Len(s) - 1 : t[i] = s[i + 1]
  BY <1>2, <1>3, <1>4, LenProperties
<1>6. ASSUME Has(s, o) PROVE o = Head(s) \/ Has(t, o)
  <2>1. PICK n \in 1 .. Len(s) : s[n] = o
    BY <1>3, <1>6 DEF Has
  <2>2. CASE n = 1
    BY <1>3, <2>1, <2>2
  <2>3. CASE n # 1
    <3>1. n - 1 \in 1 .. Len(s) - 1 /\ (n - 1) + 1 = n
      BY <1>3, <2>1, <2>3
    <3>2. t[n - 1] = o
      BY <1>5, <2>1, <3>1
    <3> QED BY <1>5, <3>1, <3>2 DEF Has
  <2> QED BY <2>2, <2>3
<1>7. ASSUME Has(t, o) PROVE Has(s, o)
  <2>1. PICK n \in 1 .. Len(s) - 1 : t[n] = o
    BY <1>5, <1>7 DEF Has
  <2>2. n + 1 \in 1 .. Len(s) /\ s[n + 1] = o
    BY <1>3, <1>5, <2>1
  <2> QED BY <1>3, <2>2 DEF Has
<1>8. ASSUME o = Head(s) PROVE Has(s, o)
  BY <1>3, <1>8 DEF Has
<1> QED BY <1>4, <1>6, <1>7, <1>8

\* Time passes: what was planned stays planned.
LEMMA ItemLater == ASSUME NEW o, Item(o), day \in Nat, day' \in Nat, day <= day', world' = world
                   PROVE  Item(o)'
<1>1. \A e : Submitted(e) => Submitted(e)'
  BY DEF Submitted
<1>2. Raw' = Raw
  BY DEF Raw
<1> QED BY <1>1, <1>2 DEF Item, Parked, Observed1, RawOk

LEMMA TodoLater == ASSUME NEW s, Todo(s), day \in Nat, day' \in Nat, day <= day', world' = world
                   PROVE  Todo(s)'
<1>1. CASE s = <<>>
  BY <1>1 DEF Todo
<1>2. CASE s # <<>>
  <2>1. PICK T : Tail(s) \in Seq(T) /\ \A o \in T : Item(o)
    BY <1>2 DEF Todo, IsPlan
  <2>2. \A o \in T : Item(o)'
    BY <2>1, ItemLater
  <2>3. IsPlan(Tail(s))'
    BY <2>1, <2>2 DEF IsPlan
  <2>4. Item(Head(s)) => Item(Head(s))'
    BY ItemLater
  <2>5. First(Head(s))'
    BY <1>2 DEF Todo, First, Submitted
  <2> QED BY <1>2, <2>3, <2>4, <2>5 DEF Todo
<1> QED BY <1>1, <1>2

-----------------------------------------------------------------------------
(* Every plan is one.                                                      *)

PendingOk == /\ IsFiniteSet(DOMAIN pending)
             /\ \A k \in DOMAIN pending :
                   Parked(pending[k]) /\ k[1] = pending[k].after.doc.probe
LatestOk == /\ DOMAIN latest = AllProbes
            /\ \A pt \in AllProbes : "raw" \in DOMAIN latest[pt] /\ RawOk(latest[pt].raw)
RulesOk == IsFiniteSet(baseline) /\ IsFiniteSet(sticky)
ScanOk(r) == \/ r = Idle
             \/ /\ {"stage", "ops"} \subseteq DOMAIN r
                /\ r.stage # "idle" /\ Todo(r.ops)

Shape == /\ world \in Scenario /\ day \in Nat
         /\ PendingOk /\ LatestOk /\ RulesOk
         /\ DOMAIN scan = Worker /\ \A w \in Worker : ScanOk(scan[w])

\* The plans that the probes, the rules and the feed make.
LEMMA SubmitPlan ==
  ASSUME NEW w, NEW c, OfAsset(c), day \in Nat PROVE IsPlan(Submit(w, c))
<1>1. PICK e : e = Event(c)
  OBVIOUS
<1>2. Submitted(e)
  BY <1>1 DEF Event, Submitted
<1>3. Item(<<"dedup", e>>)
  BY <1>2 DEF Item, Phases
<1>4. IsPlan(Op("dedup", e))
  BY <1>3, OpPlan
<1> QED BY <1>1, <1>4, EmptyPlan DEF Submit, SubmitOps

LEMMA ConfirmPlan ==
  ASSUME Shape, NEW w, NEW obs
  PROVE  /\ IsPlan(ConfirmPending(w, obs))
         /\ \A k \in DOMAIN pending :
               k[1] = obs.doc.probe => Has(ConfirmPending(w, obs), <<"unpark", k>>)
<1> DEFINE S == {k \in DOMAIN pending : k[1] = obs.doc.probe}
           mine == SetToSeq(S)
           Plan(k) == (IF SameHash(pending[k].after, obs)
                       THEN Submit(w, pending[k].change) ELSE <<>>)
                      \o Op("unpark", k)
           lists == [i \in DOMAIN mine |-> Plan(mine[i])]
<1>1. IsFiniteSet(S)
  <2>1. S \in SUBSET DOMAIN pending
    OBVIOUS
  <2> QED BY <2>1, FS_Subset DEF Shape, PendingOk
<1>2. \A k \in S : IsPlan(Plan(k)) /\ Has(Plan(k), <<"unpark", k>>)
  <2> TAKE k \in S
  <2>1. PICK s : s = IF SameHash(pending[k].after, obs)
                     THEN Submit(w, pending[k].change) ELSE <<>>
    OBVIOUS
  <2>2. IsPlan(s)
    BY <2>1, SubmitPlan, EmptyPlan DEF Shape, PendingOk, Parked
  <2>3. IsPlan(Op("unpark", k)) /\ Has(Op("unpark", k), <<"unpark", k>>)
    BY PlainOp DEF Special, Phases
  <2>4. IsPlan(s \o Op("unpark", k)) /\ Has(s \o Op("unpark", k), <<"unpark", k>>)
    BY <2>2, <2>3, ConcatPlan
  <2> QED BY <2>1, <2>4
<1>3. ConfirmPending(w, obs) = Flatten(lists)
  BY DEF ConfirmPending
<1> HIDE DEF S, Plan
<1>4. /\ mine \in Seq(S) /\ \A k \in S : \E i \in DOMAIN mine : mine[i] = k
      /\ IsFiniteSet(DOMAIN mine) /\ DOMAIN mine \subseteq Nat
  BY <1>1, SetToSeqIs
<1> HIDE DEF mine
<1>5. \A i \in DOMAIN mine : mine[i] \in S
  BY <1>4, LenProperties
<1>6. DOMAIN lists = DOMAIN mine /\ \A i \in DOMAIN mine : lists[i] = Plan(mine[i])
  OBVIOUS
<1> HIDE DEF lists
<1>7. /\ IsPlan(Flatten(lists))
      /\ \A i \in DOMAIN lists : \A o : Has(lists[i], o) => Has(Flatten(lists), o)
  <2>1. \A i \in DOMAIN lists : IsPlan(lists[i])
    BY <1>2, <1>5, <1>6
  <2>2. IsFiniteSet(DOMAIN lists) /\ DOMAIN lists \subseteq Nat
    BY <1>4, <1>6
  <2> QED BY <2>1, <2>2, FlattenPlan
<1>8. ASSUME NEW k \in DOMAIN pending, k[1] = obs.doc.probe
      PROVE  Has(Flatten(lists), <<"unpark", k>>)
  <2>1. k \in S
    BY <1>8 DEF S
  <2>2. PICK i \in DOMAIN mine : mine[i] = k
    BY <1>4, <2>1
  <2>3. Has(lists[i], <<"unpark", k>>)
    BY <1>2, <1>6, <2>1, <2>2
  <2> QED BY <1>6, <1>7, <2>2, <2>3
<1> QED BY <1>3, <1>7, <1>8

LEMMA StorePlan ==
  ASSUME Shape, NEW w, NEW obs, Observed1(obs), obs.doc \in world.observation
  PROVE  IsPlan(StoreAndDiff(w, obs))
<1> DEFINE pt == obs.doc.probe
           changes == Snapshots(latest[pt].doc, obs.doc, FALSE)
           Plan(c) == CASE c.silent -> <<>>
                        [] ~c.silent /\ c.type \in NeedsConfirm ->
                              Op("park", [change |-> c, after |-> obs, seen |-> 1])
                        [] OTHER -> Submit(w, c)
           lists == [i \in DOMAIN changes |-> Plan(changes[i])]
           rest == IF latest[pt].stored THEN Flatten(lists) ELSE <<>>
<1>1. PICK T : changes \in Seq(T) /\ \A c \in T : OfAsset(c)
  <2>1. pt \in AllProbes /\ (pt = "tcp_port" => IsFiniteSet(DOMAIN obs.doc.ports))
    BY ScenariosAreSound DEF Shape, Observed1
  <2>2. Changes(changes)
    BY <2>1, SnapshotChanges
  <2> QED BY <2>2 DEF Changes
<1>2. \A c \in T : IsPlan(Plan(c))
  <2> TAKE c \in T
  <2>1. PICK p : p = [change |-> c, after |-> obs, seen |-> 1]
    OBVIOUS
  <2>2. Parked(p) /\ p.seen = 1
    BY <1>1, <2>1 DEF Parked
  <2>3. IsPlan(Op("park", p))
    BY <2>2, OpPlan DEF Item, Phases
  <2>4. IsPlan(Submit(w, c))
    BY <1>1, SubmitPlan DEF Shape
  <2>5. Plan(c) = <<>> \/ Plan(c) = Op("park", p) \/ Plan(c) = Submit(w, c)
    BY <2>1
  <2> QED BY <2>3, <2>4, <2>5, EmptyPlan
<1>3. StoreAndDiff(w, obs) = Op("latest", obs) \o Op("history", pt) \o rest
  BY DEF StoreAndDiff
<1> HIDE DEF changes, Plan
<1>4. IsFiniteSet(DOMAIN changes) /\ DOMAIN changes \subseteq Nat
      /\ \A i \in DOMAIN changes : changes[i] \in T
  <2>1. Len(changes) \in Nat /\ DOMAIN changes = 1 .. Len(changes)
    BY <1>1, LenProperties
  <2> QED BY <1>1, <2>1, FS_Interval, LenProperties
<1>5. DOMAIN lists = DOMAIN changes /\ \A i \in DOMAIN changes : IsPlan(lists[i])
  BY <1>2, <1>4
<1> HIDE DEF lists
<1>6. IsPlan(Flatten(lists))
  BY <1>4, <1>5, FlattenPlan
<1>7. IsPlan(rest)
  BY <1>6, EmptyPlan
<1>8. IsPlan(Op("latest", obs))
  BY OpPlan DEF Item, Phases
<1>9. IsPlan(Op("history", pt))
  BY PlainOp DEF Special, Phases
<1> HIDE DEF rest, pt
<1> QED BY <1>3, <1>7, <1>8, <1>9, ConcatPlan

LEMMA SuccessIsPlan ==
  ASSUME Shape, NEW w, NEW obs, Observed1(obs), obs.doc \in world.observation
  PROVE  /\ IsPlan(SuccessPlan(w, obs))
         /\ \A k \in DOMAIN pending :
               /\ k[1] = obs.doc.probe
               /\ latest[obs.doc.probe] # NoSnapshot
               /\ SameHash(latest[obs.doc.probe], obs)
               => Has(SuccessPlan(w, obs), <<"unpark", k>>)
<1> DEFINE row == scan[w].row
           pt == obs.doc.probe
           a == IF row.failing # "no" THEN Op("failing", "no") ELSE <<>>
           b == IF row.state = "paused"
                THEN Op("state", "active") \o Submit(w, Reactivated) ELSE <<>>
           same == latest[pt] # NoSnapshot /\ SameHash(latest[pt], obs)
           c == IF same THEN Op("touch", pt) \o ConfirmPending(w, obs)
                ELSE StoreAndDiff(w, obs)
<1>1. SuccessPlan(w, obs) = a \o b \o c
  BY DEF SuccessPlan
<1>2. \A x : IsPlan(Op("failing", x)) /\ IsPlan(Op("state", x)) /\ IsPlan(Op("touch", x))
  BY PlainOp DEF Special, Phases
<1>3. IsPlan(a)
  BY <1>2, EmptyPlan
<1>4. IsPlan(b)
  <2>1. IsPlan(Submit(w, Reactivated))
    BY ChangeIs, SubmitPlan DEF Reactivated, Shape
  <2> QED BY <1>2, <2>1, EmptyPlan, ConcatPlan
<1>5. IsPlan(ConfirmPending(w, obs)) /\ IsPlan(StoreAndDiff(w, obs))
  BY ConfirmPlan, StorePlan
<1>6. IsPlan(Op("touch", pt) \o ConfirmPending(w, obs))
      /\ \A o : Has(ConfirmPending(w, obs), o) => Has(Op("touch", pt) \o ConfirmPending(w, obs), o)
  BY <1>2, <1>5, ConcatPlan
<1>7. IsPlan(c)
  BY <1>5, <1>6
<1>8. ASSUME NEW k \in DOMAIN pending, k[1] = pt, same PROVE Has(c, <<"unpark", k>>)
  <2>1. Has(ConfirmPending(w, obs), <<"unpark", k>>)
    BY <1>8, ConfirmPlan
  <2> QED BY <1>6, <1>8, <2>1
<1> HIDE DEF a, b, c
<1>9. IsPlan(b \o c) /\ \A o : Has(c, o) => Has(b \o c, o)
  BY <1>4, <1>7, ConcatPlan
<1>10. IsPlan(a \o (b \o c)) /\ \A o : Has(b \o c, o) => Has(a \o (b \o c), o)
  BY <1>3, <1>9, ConcatPlan
<1>11. IsPlan(a \o b) /\ IsPlan((a \o b) \o c) /\ \A o : Has(c, o) => Has((a \o b) \o c, o)
  BY <1>3, <1>4, <1>7, ConcatPlan
<1> QED BY <1>1, <1>8, <1>11

LEMMA FailureIsPlan ==
  ASSUME Shape, NEW w, NEW doc PROVE IsPlan(FailurePlan(w, doc))
<1> DEFINE row == scan[w].row
           long == row.failing = "long"
           a == IF row.failing = "no" THEN Op("failing", "recent") ELSE <<>>
           b == Op("touch", doc.probe)
           c == IF long THEN Submit(w, ProbeFailing(doc.probe)) ELSE <<>>
           d == IF long /\ doc.probe = "dns" /\ doc.outcome = "nxdomain"
                   /\ row.state = "active"
                THEN Submit(w, Removed) \o Op("state", "paused") ELSE <<>>
<1>1. FailurePlan(w, doc) = a \o b \o c \o d
  BY DEF FailurePlan
<1>2. \A x : IsPlan(Op("failing", x)) /\ IsPlan(Op("state", x)) /\ IsPlan(Op("touch", x))
  BY PlainOp DEF Special, Phases
<1>3. IsPlan(Submit(w, ProbeFailing(doc.probe))) /\ IsPlan(Submit(w, Removed))
  BY ChangeIs, SubmitPlan DEF ProbeFailing, Removed, Shape
<1>4. IsPlan(a) /\ IsPlan(b) /\ IsPlan(c)
  BY <1>2, <1>3, EmptyPlan
<1>5. IsPlan(d)
  BY <1>2, <1>3, EmptyPlan, ConcatPlan
<1> HIDE DEF a, b, c, d
<1> QED BY <1>1, <1>4, <1>5, ConcatPlan

-----------------------------------------------------------------------------
(* The rules toggle finitely many ids.                                     *)

LEMMA Few == ASSUME NEW a, NEW b, NEW c, NEW d PROVE IsFiniteSet({a, b, c, d})
<1>1. IsFiniteSet({a}) /\ IsFiniteSet({b}) /\ IsFiniteSet({c}) /\ IsFiniteSet({d})
  BY FS_Singleton
<1>2. IsFiniteSet({a} \cup {b}) /\ IsFiniteSet({c} \cup {d})
  BY <1>1, FS_Union
<1>3. IsFiniteSet(({a} \cup {b}) \cup ({c} \cup {d}))
  BY <1>2, FS_Union
<1>4. ({a} \cup {b}) \cup ({c} \cup {d}) = {a, b, c, d}
  OBVIOUS
<1> QED BY <1>3, <1>4

LEMMA Several ==
  ASSUME NEW a, NEW b, NEW c, NEW d, NEW e, NEW f, NEW g
  PROVE  IsFiniteSet({a, b, c, d, e, f, g})
<1>1. IsFiniteSet({a, b, c, d}) /\ IsFiniteSet({e, f, g, g})
  BY Few
<1>2. IsFiniteSet({a, b, c, d} \cup {e, f, g, g})
  BY <1>1, FS_Union
<1>3. {a, b, c, d} \cup {e, f, g, g} = {a, b, c, d, e, f, g}
  OBVIOUS
<1> QED BY <1>2, <1>3

LEMMA HitsFinite ==
  ASSUME NEW in, NEW apex, NEW hsts
  PROVE  IsFiniteSet(EvaluateExposure(in, apex, hsts))
<1> DEFINE A == IF in["dns"] = NoData THEN {} ELSE DNSRules(in["dns"], apex)
           B == IF in["tls"] = NoData THEN {} ELSE TLSRules(in["tls"])
           C == IF in["http"] = NoData THEN {} ELSE HTTPRules(in["http"], hsts)
           D == IF in["tcp_port"] = NoData THEN {} ELSE TCPRules(in["tcp_port"])
<1>1. \A d, x : IsFiniteSet(DNSRules(d, x))
  BY Few DEF DNSRules
<1>2. \A t : IsFiniteSet(TLSRules(t))
  BY Several, Zenon DEF TLSRules
<1>3. \A h, x : IsFiniteSet(HTTPRules(h, x))
  <2>1. \A h : IsFiniteSet(TitleRules(h))
    BY Few, Zenon DEF TitleRules
  <2>2. ASSUME NEW a, NEW b, NEW c PROVE IsFiniteSet({a, b, c})
    <3>1. {a, b, c} = {a, b, c, c}
      OBVIOUS
    <3> QED BY <3>1, Few
  <2>3. \A h : IsFiniteSet(ServiceRules(h))
    BY <2>2, Zenon DEF ServiceRules
  <2>4. \A h, x : IsFiniteSet(HeaderRules(h, x))
    BY Few, Zenon DEF HeaderRules
  <2> QED BY <2>1, <2>3, <2>4, FS_Union DEF HTTPRules
<1>4. \A t : IsFiniteSet(TCPRules(t))
  BY FS_Singleton, Zenon DEF TCPRules
<1>5. IsFiniteSet(A) /\ IsFiniteSet(B) /\ IsFiniteSet(C) /\ IsFiniteSet(D)
  BY <1>1, <1>2, <1>3, <1>4, FS_EmptySet
<1>6. EvaluateExposure(in, apex, hsts) = {r \in UNION {A, B, C, D} : r.hit}
  BY DEF EvaluateExposure
<1> HIDE DEF A, B, C, D
<1>7. IsFiniteSet((A \cup B) \cup (C \cup D))
  <2>1. IsFiniteSet(A \cup B) /\ IsFiniteSet(C \cup D)
    BY <1>5, FS_Union
  <2> QED BY <2>1, FS_Union
<1>8. EvaluateExposure(in, apex, hsts) \in SUBSET ((A \cup B) \cup (C \cup D))
  BY <1>6
<1> QED BY <1>7, <1>8, FS_Subset

LEMMA RuleOpsPlan ==
  ASSUME Shape, NEW w, NEW id, NEW opens, NEW sev PROVE IsPlan(RuleOps(w, id, opens, sev))
<1> DEFINE type == IF id \in BaselineIds
                   THEN IF opens THEN "baseline.drift" ELSE "baseline.drift_resolved"
                   ELSE IF opens THEN "exposure.opened" ELSE "exposure.closed"
           name == IF opens THEN "open" ELSE "close"
<1>1. RuleOps(w, id, opens, sev) = Op(name, id) \o Submit(w, Change(type, id, sev))
  BY DEF RuleOps
<1>2. name \in {"open", "close"}
  OBVIOUS
<1>3. type \in {"baseline.drift", "baseline.drift_resolved", "exposure.opened", "exposure.closed"}
  OBVIOUS
<1> HIDE DEF type, name
<1>4. IsPlan(Op(name, id))
  BY <1>2, PlainOp DEF Special, Phases
<1>5. IsPlan(Submit(w, Change(type, id, sev)))
  BY <1>3, ChangeIs, SubmitPlan DEF Shape
<1> QED BY <1>1, <1>4, <1>5, ConcatPlan

LEMMA RulesPlan ==
  ASSUME Shape, NEW w \in Worker, EvaluateRules(w)
  PROVE  \E ops : /\ IsPlan(ops)
                  /\ scan' = [scan EXCEPT ![w].stage = "finish", ![w].ops = ops]
                  /\ owed' = owed \cup Reports(ops)
<1> DEFINE in == RulesInput
           hits == EvaluateExposure(in, FALSE, RequiresHSTS)
           sev == [id \in {r.id : r \in hits} |->
                      (CHOOSE r \in hits : r.id = id).sev]
           drifted == {b.id : b \in {b \in baseline : EvaluateBaseline(b, in)}}
           now == IF Documented = {} THEN sticky ELSE DOMAIN sev \cup drifted
           Sev(id) == CASE id \in BaselineIds -> SevMedium
                        [] id \in DOMAIN sev -> sev[id]
                        [] OTHER -> SevInfo
           Toggle(ids) == LET s == SetToSeq(ids) IN Flatten(
               [i \in DOMAIN s |-> RuleOps(w, s[i], s[i] \in now, Sev(s[i]))])
           flips == (now \ sticky) \cup (sticky \ now)
           last == IF scan[w].react THEN <<>>
                   ELSE Op("reschedule", scan[w].row.state)
           ops == Toggle(BaselineIds \cap flips)
                  \o Toggle((now \ sticky) \ BaselineIds)
                  \o Toggle((sticky \ now) \ BaselineIds)
                  \o last
<1>1. /\ scan' = [scan EXCEPT ![w].stage = "finish", ![w].ops = ops]
      /\ owed' = owed \cup Reports(ops)
  BY DEF EvaluateRules
<1>2. IsFiniteSet(now)
  <2>1. IsFiniteSet(hits)
    BY HitsFinite
  <2> HIDE DEF hits
  <2>2. IsFiniteSet({r.id : r \in hits})
    <3> DEFINE f == [r \in hits |-> r.id]
    <3>1. {f[r] : r \in hits} = {r.id : r \in hits}
      OBVIOUS
    <3> HIDE DEF f
    <3> QED BY <2>1, <3>1, ImageFinite
  <2>3. DOMAIN sev = {r.id : r \in hits}
    OBVIOUS
  <2> HIDE DEF sev
  <2> DEFINE R == {b \in baseline : EvaluateBaseline(b, in)}
  <2>4. IsFiniteSet(R)
    <3>1. R \in SUBSET baseline
      OBVIOUS
    <3> QED BY <3>1, FS_Subset DEF Shape, RulesOk
  <2>5. IsFiniteSet({b.id : b \in R})
    <3> DEFINE f == [b \in R |-> b.id]
    <3>1. {f[b] : b \in R} = {b.id : b \in R}
      OBVIOUS
    <3> HIDE DEF f, R
    <3> QED BY <2>4, <3>1, ImageFinite
  <2>6. drifted = {b.id : b \in R}
    OBVIOUS
  <2> HIDE DEF R, drifted
  <2>7. IsFiniteSet(DOMAIN sev \cup drifted)
    BY <2>2, <2>3, <2>5, <2>6, FS_Union
  <2> QED BY <2>7 DEF Shape, RulesOk
<1> HIDE DEF now, Sev
<1>3. IsFiniteSet(sticky)
  BY DEF Shape, RulesOk
<1>4. IsFiniteSet(now \cup sticky)
  BY <1>2, <1>3, FS_Union
<1>5. ASSUME NEW ids \in SUBSET (now \cup sticky) PROVE IsPlan(Toggle(ids))
  <2> DEFINE s == SetToSeq(ids)
             lists == [i \in DOMAIN s |-> RuleOps(w, s[i], s[i] \in now, Sev(s[i]))]
  <2>1. IsFiniteSet(ids)
    BY <1>4, FS_Subset
  <2>2. IsFiniteSet(DOMAIN s) /\ DOMAIN s \subseteq Nat
    BY <2>1, SetToSeqIs
  <2>3. Toggle(ids) = Flatten(lists)
    OBVIOUS
  <2> HIDE DEF s
  <2>4. DOMAIN lists = DOMAIN s
    OBVIOUS
  <2>5. \A i \in DOMAIN lists : IsPlan(lists[i])
    BY RuleOpsPlan
  <2> HIDE DEF lists, Toggle
  <2> QED BY <2>2, <2>3, <2>4, <2>5, FlattenPlan
<1>6. /\ BaselineIds \cap flips \in SUBSET (now \cup sticky)
      /\ (now \ sticky) \ BaselineIds \in SUBSET (now \cup sticky)
      /\ (sticky \ now) \ BaselineIds \in SUBSET (now \cup sticky)
  OBVIOUS
<1>7. PICK a, b, c : /\ a = Toggle(BaselineIds \cap flips)
                     /\ b = Toggle((now \ sticky) \ BaselineIds)
                     /\ c = Toggle((sticky \ now) \ BaselineIds)
  OBVIOUS
<1>8. IsPlan(a) /\ IsPlan(b) /\ IsPlan(c)
  <2> HIDE DEF Toggle, flips
  <2> QED BY <1>5, <1>6, <1>7
<1>9. IsPlan(last)
  <2>1. IsPlan(Op("reschedule", scan[w].row.state))
    BY PlainOp DEF Special, Phases
  <2> QED BY <2>1, EmptyPlan
<1>10. ops = a \o b \o c \o last
  BY <1>7
<1> HIDE DEF last, ops, Toggle, flips
<1>11. IsPlan(ops)
  BY <1>8, <1>9, <1>10, ConcatPlan
<1> QED BY <1>1, <1>11

-----------------------------------------------------------------------------
(* What a step does to the scans and to the stream.                        *)

Burst == <<<<"monitor.change_burst", "">>, day>>
Same == UNCHANGED <<world, day, latest, sticky>>
Others(w) == /\ w \in Worker /\ DOMAIN scan' = Worker
             /\ \A v \in Worker \ {w} : scan'[v] = scan[v]
More == faults' \in Nat /\ faults <= faults'
\* The scan's record keeps its fields and has these statements left.
Left(w, ops) == /\ {"stage", "ops"} \subseteq DOMAIN scan'[w]
                /\ scan'[w].stage # "idle" /\ scan'[w].ops = ops

Still == /\ Same /\ More
         /\ UNCHANGED <<scan, dedup, pending, owed>>
         /\ baseline' = baseline \/ IsFiniteSet(baseline')
         /\ events' = events \/ events' = Put(events, Burst, 1)

Marked(ops) ==
    /\ DOMAIN pending' = DOMAIN pending
    /\ \A k \in DOMAIN pending :
          \/ pending'[k] = pending[k]
          \/ /\ pending'[k] = [pending[k] EXCEPT !.seen = 2]
             /\ "kept" \notin Raw => Has(ops, <<"unpark", k>>)

Plans(w, ops) ==
    /\ Same /\ UNCHANGED <<baseline, dedup, events, faults>>
    /\ Others(w) /\ Left(w, ops) /\ IsPlan(ops)
    /\ \/ scan[w] = Idle
       \/ scan[w].stage # "idle" /\ scan[w].ops = <<>>
    /\ owed' = owed \cup Reports(ops)
    /\ pending' = pending \/ Marked(ops)

Ends(w) ==
    /\ Same /\ UNCHANGED <<baseline, dedup, events, pending, owed>> /\ More
    /\ Others(w)
    /\ \/ scan'[w] = Idle
       \/ /\ scan[w].stage # "idle" /\ scan[w].ops # <<>>
          /\ Left(w, Tail(scan[w].ops))
    /\ \/ faults' # 0
       \/ scan[w].stage # "idle" /\ scan[w].ops = <<>>

Runs(w) == /\ Others(w) /\ UNCHANGED <<world, day, baseline, owed, faults>>
           /\ scan[w].stage # "idle" /\ scan[w].ops # <<>>
Stores(w) ==
    /\ Runs(w) /\ Left(w, Tail(scan[w].ops))
    /\ StoreWrite(w)
Streams(w) ==
    /\ Runs(w) /\ UNCHANGED <<pending, latest, sticky>>
    /\ LET o == Head(scan[w].ops)
           e == <<Fp(o[2].change), o[2].day>>
           rest == Left(w, Tail(scan[w].ops))
           Then(name) == \E ev :
               /\ ev.change = o[2].change
               /\ ev.day = IF name = "gate" THEN day ELSE o[2].day
               /\ DOMAIN ev = DOMAIN o[2]
               /\ Left(w, <<<<name, ev>>>> \o Tail(scan[w].ops))
       IN  \/ /\ o[1] = "dedup" /\ events' = events
              /\ \/ Duplicate(e[1]) /\ rest /\ dedup' = dedup
                 \/ /\ ~Duplicate(e[1]) /\ dedup' = dedup \cup {e[1]}
                    /\ Then("gate")
           \/ o[1] = "gate" /\ Then("event") /\ UNCHANGED <<dedup, events>>
           \/ /\ o[1] = "event"
              /\ events' = Put(events, e, IF e \in DOMAIN events
                                          THEN events[e] + 1 ELSE 1)
              /\ rest \/ Then("outbox")
              /\ dedup' = dedup
           \/ /\ o[1] = "candidate" /\ events' = Put(events, Candidate, 1)
              /\ rest /\ dedup' = dedup
           \/ o[1] = "outbox" /\ rest /\ UNCHANGED <<dedup, events>>

Passes == /\ day' = day + 1 /\ dedup' = {}
          /\ UNCHANGED <<world, latest, sticky, pending, scan, events, owed,
                         baseline, faults>>
Stops == /\ Same /\ More /\ faults' # 0
         /\ UNCHANGED <<pending, dedup, events, owed, baseline>>
         /\ scan' = [w \in Worker |-> Idle]

ScanShape == Shape /\ faults \in Nat

\* Every action is of one of these kinds.
LEMMA StillSteps ==
  ASSUME ScanShape,
         \/ SyncWatchSet \/ (\E j \in Job : PublishDueJob(j))
         \/ Refresh \/ RefreshDenied \/ RefreshTooLate \/ TokenExpires
         \/ FlushBursts \/ (\E j \in Job : AckWait(j)) \/ Relay
         \/ NarrowScope \/ Mute \/ BaselineSet \/ UNCHANGED vars
  PROVE  Still
<1> USE DEF ScanShape, Shape, RulesOk, Still, Same, More, storeVars, streamVars,
            coordVars, envVars
<1>1. ASSUME SyncWatchSet PROVE Still
  BY <1>1 DEF SyncWatchSet
<1>2. ASSUME NEW j \in Job, PublishDueJob(j) PROVE Still
  BY <1>2 DEF PublishDueJob
<1>3. ASSUME Refresh \/ RefreshDenied \/ RefreshTooLate \/ TokenExpires PROVE Still
  BY <1>3 DEF Refresh, RefreshDenied, RefreshTooLate, TokenExpires
<1>4. ASSUME FlushBursts PROVE Still
  <2>1. events' = Put(events, Burst, 1)
    BY <1>4 DEF FlushBursts, Burst
  <2>2. /\ Same /\ faults' = faults /\ baseline' = baseline
        /\ UNCHANGED <<scan, dedup, pending, owed>>
    BY <1>4 DEF FlushBursts
  <2> HIDE DEF Burst, Same
  <2> QED BY <2>1, <2>2
<1>5. ASSUME NEW j \in Job, AckWait(j) PROVE Still
  BY <1>5 DEF AckWait, Fault
<1>6. ASSUME Relay \/ NarrowScope \/ Mute \/ UNCHANGED vars PROVE Still
  BY <1>6 DEF Relay, NarrowScope, Mute, vars
<1>7. ASSUME BaselineSet PROVE Still
  <2>1. {b \in baseline : b.type # "captured"} \in SUBSET baseline
    OBVIOUS
  <2>2. IsFiniteSet({b \in baseline : b.type # "captured"})
    BY <2>1, FS_Subset
  <2>3. IsFiniteSet(baseline')
    BY <1>7, <2>2, FS_Singleton, FS_Union DEF BaselineSet
  <2> QED BY <1>7, <2>3 DEF BaselineSet
<1> QED BY <1>1, <1>2, <1>3, <1>4, <1>5, <1>6, <1>7

LEMMA ReportsNothing == Reports(<<>>) = {}
BY DEF Reports

LEMMA BeginSteps ==
  ASSUME ScanShape, NEW w \in Worker,
         \/ Rescan(w) \/ PassiveSweep(w) \/ PollFeed(w)
         \/ \E j \in Job : Handle(w, j)
  PROVE  (\E ops : Plans(w, ops)) \/ Still
<1> USE DEF ScanShape, Shape, Same, Others, Free, storeVars, streamVars,
            coordVars, envVars
<1>1. ASSUME NEW j, NEW probes, NEW token, NEW react, NEW report,
             Begin(w, j, probes, token, react, report), scan[w] = Idle
      PROVE  Others(w) /\ Left(w, <<>>)
  BY <1>1 DEF Begin, Left
<1>2. ASSUME Others(w), Left(w, <<>>), scan[w] = Idle, Same,
             UNCHANGED <<pending, baseline, dedup, events, faults, owed>>
      PROVE  \E ops : Plans(w, ops)
  <2>1. PICK ops : ops = <<>>
    OBVIOUS
  <2>2. IsPlan(ops) /\ Left(w, ops) /\ owed' = owed \cup Reports(ops)
    BY <1>2, <2>1, EmptyPlan, ReportsNothing
  <2> HIDE DEF Others, ScanShape, Shape
  <2>3. Plans(w, ops)
    BY <1>2, <2>2 DEF Plans
  <2> QED BY <2>3
<1>3. ASSUME Rescan(w) PROVE \E ops : Plans(w, ops)
  BY <1>1, <1>2, <1>3 DEF Rescan
<1>4. ASSUME PassiveSweep(w) PROVE \E ops : Plans(w, ops)
  BY <1>1, <1>2, <1>4 DEF PassiveSweep
<1>5. ASSUME PollFeed(w) PROVE \E ops : Plans(w, ops)
  <2> DEFINE new == SubmitOps(Change("asset.new", "new", SevInfo))
             ops == Op("known", "") \o Op("candidate", "")
                    \o (IF inScope THEN Op("upsert", "") \o new ELSE <<>>)
  <2>1. /\ scan[w] = Idle
        /\ scan' = [scan EXCEPT ![w] =
              [stage |-> "finish", job |-> 0, report |-> TRUE, ops |-> ops]]
        /\ owed' = owed \cup Reports(ops)
        /\ Same /\ UNCHANGED <<pending, baseline, dedup, events, faults>>
    BY <1>5 DEF PollFeed
  <2>2. \A c : Event(c) = [change |-> c, day |-> day, gate |-> "emitted"]
    BY DEF Event
  <2>3. OfAsset(Change("asset.new", "new", SevInfo))
    BY ChangeIs
  <2>4. PICK c : c = Change("asset.new", "new", SevInfo)
    OBVIOUS
  <2>5. PICK ev : ev = Event(c)
    OBVIOUS
  <2>6. Submitted(ev)
    BY <2>2, <2>3, <2>4, <2>5 DEF Submitted
  <2>7. IsPlan(Op("dedup", ev))
    BY <2>6, OpPlan DEF Item, Phases
  <2>8. IsPlan(new)
    BY <2>4, <2>5, <2>7 DEF SubmitOps
  <2>9. IsPlan(Op("known", "")) /\ IsPlan(Op("candidate", "")) /\ IsPlan(Op("upsert", ""))
    BY PlainOp DEF Special, Phases
  <2>10. IsPlan(ops)
    <3> HIDE DEF new
    <3> DEFINE tail == IF inScope THEN Op("upsert", "") \o new ELSE <<>>
    <3>1. IsPlan(tail)
      BY <2>8, <2>9, EmptyPlan, ConcatPlan
    <3> HIDE DEF tail
    <3>2. IsPlan(Op("known", "") \o Op("candidate", "") \o tail)
      BY <2>9, <3>1, ConcatPlan
    <3> QED BY <3>2 DEF tail
  <2> HIDE DEF ops, new
  <2>11. Others(w) /\ Left(w, ops)
    BY <2>1 DEF Left
  <2>12. PICK p : p = ops
    OBVIOUS
  <2>13. /\ Others(w) /\ Left(w, p) /\ IsPlan(p) /\ owed' = owed \cup Reports(p)
         /\ Same /\ UNCHANGED <<pending, baseline, dedup, events, faults>>
         /\ scan[w] = Idle
    BY <2>1, <2>10, <2>11, <2>12
  <2> HIDE DEF Others, ScanShape, Shape, Same
  <2>14. Plans(w, p)
    BY <2>13 DEF Plans
  <2> QED BY <2>14
<1>6. ASSUME NEW j \in Job, Handle(w, j) PROVE (\E ops : Plans(w, ops)) \/ Still
  <2>1. \/ UNCHANGED <<scan, faults>> \/ (Fault("budget") /\ UNCHANGED scan)
        \/ /\ faults' = faults
           /\ \E probes, token, react : Begin(w, j, probes, token, react, TRUE)
    BY <1>6 DEF Handle
  <2>2. scan[w] = Idle /\ Same /\ UNCHANGED <<pending, baseline, dedup, events, owed>>
    BY <1>6 DEF Handle
  <2>3. CASE UNCHANGED <<scan, faults>> \/ (Fault("budget") /\ UNCHANGED scan)
    BY <2>2, <2>3 DEF Still, More, Fault
  <2>4. CASE /\ faults' = faults
             /\ \E probes, token, react : Begin(w, j, probes, token, react, TRUE)
    BY <1>1, <1>2, <2>2, <2>4
  <2> QED BY <2>1, <2>3, <2>4
<1> QED BY <1>3, <1>4, <1>5, <1>6

LEMMA ProbeSteps ==
  ASSUME ScanShape, NEW w \in Worker, Probe(w)
  PROVE  (\E ops : Plans(w, ops)) \/ Ends(w)
<1> DEFINE pt == Head(scan[w].todo)
           rest == Tail(scan[w].todo)
           due == scan[w].react \/ pt \notin fresh
           ok == scan[w].token \in alive /\ Covers(scan[w].token)
<1>1. /\ scan[w].stage = "probe" /\ scan[w].ops = <<>>
      /\ Same /\ UNCHANGED <<baseline, dedup, events, faults>>
  BY DEF Probe, Same, storeVars, streamVars, envVars
<1>2. scan[w] # Idle /\ {"stage", "ops"} \subseteq DOMAIN scan[w] /\ DOMAIN scan = Worker
  BY <1>1 DEF ScanShape, Shape, ScanOk, Idle
<1>3. \/ /\ scan' = [scan EXCEPT ![w].todo = rest]
         /\ UNCHANGED <<owed, pending>>
      \/ /\ Settle(w, "dead")
         /\ UNCHANGED <<owed, pending>>
      \/ \E doc \in Observed(pt), raw \in Raw :
            LET obs == [doc |-> doc, raw |-> IF pt = "http" THEN raw ELSE "none"]
                ops == IF doc.outcome = "ok" THEN SuccessPlan(w, obs)
                                             ELSE FailurePlan(w, doc)
            IN  /\ scan' = [scan EXCEPT
                      ![w].todo = rest, ![w].ops = ops,
                      ![w].row = RowAfter(@, doc)]
                /\ owed' = owed \cup Reports(ops)
                /\ pending' = [k \in DOMAIN pending |->
                      IF doc = pending[k].after.doc
                         /\ doc = latest[pt].doc
                      THEN [pending[k] EXCEPT !.seen = 2]
                      ELSE pending[k]]
  BY DEF Probe
<1> HIDE DEF rest
<1>4. CASE scan' = [scan EXCEPT ![w].todo = rest] /\ UNCHANGED <<owed, pending>>
  <2>1. PICK ops : ops = <<>>
    OBVIOUS
  <2>2. Others(w) /\ Left(w, ops)
    BY <1>1, <1>2, <1>4, <2>1 DEF Others, Left
  <2>3. IsPlan(ops) /\ owed' = owed \cup Reports(ops)
    BY <1>4, <2>1, EmptyPlan, ReportsNothing
  <2>4. Plans(w, ops)
    BY <1>1, <1>4, <2>2, <2>3 DEF Plans
  <2> QED BY <2>4
<1>5. CASE Settle(w, "dead") /\ UNCHANGED <<owed, pending>>
  <2>1. Others(w) /\ scan'[w] = Idle
    BY <1>2, <1>5 DEF Others, Settle
  <2>2. More
    BY <1>1 DEF More, ScanShape
  <2>3. scan[w].stage # "idle" /\ scan[w].ops = <<>>
    BY <1>1
  <2> QED BY <1>1, <1>5, <2>1, <2>2, <2>3 DEF Ends
<1>6. ASSUME NEW doc \in Observed(pt), NEW raw \in Raw, NEW obs, NEW ops,
             obs = [doc |-> doc, raw |-> IF pt = "http" THEN raw ELSE "none"],
             ops = IF doc.outcome = "ok" THEN SuccessPlan(w, obs)
                                         ELSE FailurePlan(w, doc),
             scan' = [scan EXCEPT
                      ![w].todo = rest, ![w].ops = ops,
                      ![w].row = RowAfter(@, doc)],
             owed' = owed \cup Reports(ops),
             pending' = [k \in DOMAIN pending |->
                      IF doc = pending[k].after.doc
                         /\ doc = latest[pt].doc
                      THEN [pending[k] EXCEPT !.seen = 2]
                      ELSE pending[k]]
      PROVE  Plans(w, ops)
  <2>1. doc \in world.observation /\ doc.probe = pt /\ world \in Scenario
    BY <1>6 DEF Observed, ScanShape, Shape
  <2>2. pt \in AllProbes /\ raw \in {"none", "kept"}
    BY <1>6, <2>1, ScenariosAreSound DEF Raw
  <2>3. obs.doc = doc /\ RawOk(obs.raw)
    BY <1>6, <2>2 DEF RawOk
  <2>4. doc.outcome = "ok" => Observed1(obs)
    BY <2>1, <2>2, <2>3 DEF Observed1
  <2>5. IsPlan(ops)
    BY <1>6, <2>1, <2>3, <2>4, SuccessIsPlan, FailureIsPlan DEF ScanShape
  <2>6. Others(w) /\ Left(w, ops)
    BY <1>1, <1>2, <1>6 DEF Others, Left
  <2>7. Marked(ops)
    <3>1. DOMAIN pending' = DOMAIN pending
      BY <1>6
    <3>2. ASSUME NEW k \in DOMAIN pending, doc = pending[k].after.doc,
                 doc = latest[pt].doc, "kept" \notin Raw
          PROVE  Has(ops, <<"unpark", k>>)
      <4>1. Parked(pending[k]) /\ k[1] = pending[k].after.doc.probe
        BY DEF ScanShape, Shape, PendingOk
      <4>2. doc.outcome = "ok" /\ k[1] = obs.doc.probe
        BY <2>3, <3>2, <4>1 DEF Parked, Observed1
      <4>3. RawOk(latest[pt].raw)
        BY <2>2 DEF ScanShape, Shape, LatestOk
      <4>4. obs.raw = "none" /\ latest[pt].raw = "none"
        BY <2>3, <3>2, <4>3 DEF RawOk
      <4>5. SameHash(latest[pt], obs)
        BY <2>3, <3>2, <4>4 DEF SameHash
      <4>6. latest[pt] # NoSnapshot
        BY <2>1, <2>2, <3>2 DEF NoSnapshot, NoDoc, AllProbes
      <4>7. obs.doc.probe = pt
        BY <2>1, <2>3
      <4>8. ops = SuccessPlan(w, obs)
        BY <1>6, <4>2
      <4> QED BY <2>1, <2>3, <2>4, <4>2, <4>5, <4>6, <4>7, <4>8, SuccessIsPlan DEF ScanShape
    <3>3. \A k \in DOMAIN pending :
             \/ pending'[k] = pending[k]
             \/ /\ pending'[k] = [pending[k] EXCEPT !.seen = 2]
                /\ doc = pending[k].after.doc /\ doc = latest[pt].doc
      BY <1>6
    <3> QED BY <3>1, <3>2, <3>3 DEF Marked
  <2> QED BY <1>1, <1>6, <2>5, <2>6, <2>7 DEF Plans
<1>7. CASE \E doc \in Observed(pt), raw \in Raw :
              LET obs == [doc |-> doc, raw |-> IF pt = "http" THEN raw ELSE "none"]
                  ops == IF doc.outcome = "ok" THEN SuccessPlan(w, obs)
                                               ELSE FailurePlan(w, doc)
              IN  /\ scan' = [scan EXCEPT
                        ![w].todo = rest, ![w].ops = ops,
                        ![w].row = RowAfter(@, doc)]
                  /\ owed' = owed \cup Reports(ops)
                  /\ pending' = [k \in DOMAIN pending |->
                        IF doc = pending[k].after.doc
                           /\ doc = latest[pt].doc
                        THEN [pending[k] EXCEPT !.seen = 2]
                        ELSE pending[k]]
  <2> HIDE DEF pt
  <2> DEFINE Obs(doc, raw) == [doc |-> doc, raw |-> IF pt = "http" THEN raw ELSE "none"]
             Ops(doc, raw) == IF doc.outcome = "ok" THEN SuccessPlan(w, Obs(doc, raw))
                                                    ELSE FailurePlan(w, doc)
  <2>1. PICK doc \in Observed(pt), raw \in Raw :
              /\ scan' = [scan EXCEPT
                    ![w].todo = rest, ![w].ops = Ops(doc, raw),
                    ![w].row = RowAfter(@, doc)]
              /\ owed' = owed \cup Reports(Ops(doc, raw))
              /\ pending' = [k \in DOMAIN pending |->
                    IF doc = pending[k].after.doc
                       /\ doc = latest[pt].doc
                    THEN [pending[k] EXCEPT !.seen = 2]
                    ELSE pending[k]]
    BY <1>7
  <2>2. PICK obs : obs = Obs(doc, raw)
    OBVIOUS
  <2>3. PICK ops : ops = Ops(doc, raw)
    OBVIOUS
  <2>4. ops = IF doc.outcome = "ok" THEN SuccessPlan(w, obs) ELSE FailurePlan(w, doc)
    BY <2>2, <2>3
  <2>5. obs = [doc |-> doc, raw |-> IF pt = "http" THEN raw ELSE "none"]
    BY <2>2
  <2> HIDE DEF Obs, Ops
  <2>6. Plans(w, ops)
    BY <1>6, <2>1, <2>3, <2>4, <2>5
  <2> QED BY <2>6
<1> QED BY <1>3, <1>4, <1>5, <1>7

LEMMA RuleSteps ==
  ASSUME ScanShape, NEW w \in Worker, EvaluateRules(w)
  PROVE  \E ops : Plans(w, ops)
<1>1. PICK ops : /\ IsPlan(ops)
                 /\ scan' = [scan EXCEPT ![w].stage = "finish", ![w].ops = ops]
                 /\ owed' = owed \cup Reports(ops)
  BY RulesPlan DEF ScanShape
<1>2. /\ scan[w].stage = "probe" /\ scan[w].ops = <<>>
      /\ Same /\ UNCHANGED <<pending, baseline, dedup, events, faults>>
  BY DEF EvaluateRules, Same, storeVars, streamVars, envVars
<1>3. scan[w] # Idle /\ {"stage", "ops"} \subseteq DOMAIN scan[w] /\ DOMAIN scan = Worker
  BY <1>2 DEF ScanShape, Shape, ScanOk, Idle
<1>4. Others(w) /\ Left(w, ops)
  BY <1>1, <1>2, <1>3 DEF Others, Left
<1>5. Plans(w, ops)
  BY <1>1, <1>2, <1>4 DEF Plans
<1> QED BY <1>5

LEMMA EndSteps ==
  ASSUME ScanShape, NEW w \in Worker, Finish(w) \/ StoreFails(w)
  PROVE  Ends(w)
<1>0. DOMAIN scan = Worker
  BY DEF ScanShape, Shape
<1>1. \A status : Settle(w, status) => Others(w) /\ scan'[w] = Idle
  BY <1>0 DEF Settle, Others
<1>2. CASE Finish(w)
  <2>1. Others(w) /\ scan'[w] = Idle
    BY <1>1, <1>2 DEF Finish
  <2> QED BY <1>2, <2>1
          DEF Finish, Ends, Same, More, ScanShape, storeVars, streamVars, envVars
<1>3. CASE StoreFails(w)
  <2>1. /\ Same /\ UNCHANGED <<baseline, dedup, events, pending, owed>>
        /\ faults' = faults + 1 /\ scan[w].stage # "idle" /\ scan[w].ops # <<>>
        /\ (Rest(w) \/ Retry(w))
    BY <1>3 DEF StoreFails, Fault, Same, storeVars, streamVars, envVars
  <2>2. More /\ faults' # 0
    BY <2>1 DEF More, ScanShape
  <2>3. {"stage", "ops"} \subseteq DOMAIN scan[w]
    BY <2>1 DEF ScanShape, Shape, ScanOk, Idle
  <2>4. Rest(w) => Others(w) /\ Left(w, Tail(scan[w].ops))
    BY <1>0, <2>1, <2>3 DEF Rest, Others, Left
  <2>5. Retry(w) => Others(w) /\ scan'[w] = Idle
    BY <1>1 DEF Retry
  <2> QED BY <2>1, <2>2, <2>4, <2>5 DEF Ends
<1> QED BY <1>2, <1>3

LEMMA OpSteps ==
  ASSUME ScanShape, NEW w \in Worker, DoOp(w)
  PROVE  Stores(w) \/ Streams(w)
<1>1. /\ DOMAIN scan = Worker /\ scan[w].stage # "idle" /\ scan[w].ops # <<>>
      /\ {"stage", "ops"} \subseteq DOMAIN scan[w]
  BY DEF DoOp, ScanShape, Shape, ScanOk, Idle
<1>2. UNCHANGED <<world, day, baseline, owed, faults>>
  BY DEF DoOp, envVars
<1>3. Rest(w) => Others(w) /\ Left(w, Tail(scan[w].ops))
  BY <1>1 DEF Rest, Others, Left
<1>4. CASE StoreWrite(w) /\ Rest(w)
  BY <1>1, <1>2, <1>3, <1>4 DEF Stores, Runs
<1>5. CASE StreamWrite(w) /\ UNCHANGED storeVars
  <2> DEFINE o == Head(scan[w].ops)
             e == <<Fp(o[2].change), o[2].day>>
             Then(name, ev) ==
                scan' = [scan EXCEPT ![w].ops = <<<<name, ev>>>> \o Tail(@)]
             Next1(name) == \E ev :
               /\ ev.change = o[2].change
               /\ ev.day = IF name = "gate" THEN day ELSE o[2].day
               /\ DOMAIN ev = DOMAIN o[2]
               /\ Left(w, <<<<name, ev>>>> \o Tail(scan[w].ops))
  <2>1. UNCHANGED <<pending, latest, sticky>>
    BY <1>5 DEF storeVars
  <2>2. \A name, ev : Then(name, ev) =>
           Others(w) /\ Left(w, <<<<name, ev>>>> \o Tail(scan[w].ops))
    BY <1>1 DEF Others, Left
  <2>3. ASSUME o[1] \in {"dedup", "gate", "event"} PROVE DOMAIN o[2] = {"change", "day", "gate"}
    <3>1. Todo(scan[w].ops)
      BY <1>1 DEF ScanShape, Shape, ScanOk, Idle
    <3> QED BY <1>1, <2>3, <3>1 DEF Todo, First, Item, Phases, Submitted
  <2>4. \/ /\ o[1] = "dedup" /\ events' = events
           /\ \/ Duplicate(e[1]) /\ Rest(w) /\ dedup' = dedup
              \/ /\ ~Duplicate(e[1]) /\ dedup' = dedup \cup {e[1]}
                 /\ Then("gate", [o[2] EXCEPT !.day = day])
        \/ /\ o[1] = "gate" /\ Then("event", [o[2] EXCEPT !.gate = Gate])
           /\ UNCHANGED <<dedup, events>>
        \/ /\ o[1] = "event"
           /\ events' = Put(events, e, IF e \in DOMAIN events
                                       THEN events[e] + 1 ELSE 1)
           /\ Rest(w) \/ Then("outbox", o[2])
           /\ dedup' = dedup
        \/ /\ o[1] = "candidate" /\ events' = Put(events, Candidate, 1)
           /\ Rest(w) /\ dedup' = dedup
        \/ o[1] = "outbox" /\ Rest(w) /\ UNCHANGED <<dedup, events>>
    <3> HIDE DEF Then
    <3> QED BY <1>5 DEF StreamWrite, Then
  <2> HIDE DEF Then
  <2>5. ASSUME o[1] = "dedup", Then("gate", [o[2] EXCEPT !.day = day])
        PROVE  Others(w) /\ Next1("gate")
    <3>1. PICK ev : ev = [o[2] EXCEPT !.day = day]
      OBVIOUS
    <3>2. ev.change = o[2].change /\ ev.day = day /\ DOMAIN ev = DOMAIN o[2]
      BY <2>3, <2>5, <3>1
    <3> QED BY <2>2, <2>5, <3>1, <3>2
  <2>6. ASSUME o[1] = "gate", Then("event", [o[2] EXCEPT !.gate = Gate])
        PROVE  Others(w) /\ Next1("event")
    <3>1. PICK ev : ev = [o[2] EXCEPT !.gate = Gate]
      OBVIOUS
    <3>2. ev.change = o[2].change /\ ev.day = o[2].day /\ DOMAIN ev = DOMAIN o[2]
      BY <2>3, <2>6, <3>1
    <3> QED BY <2>2, <2>6, <3>1, <3>2
  <2>7. ASSUME Then("outbox", o[2]) PROVE Others(w) /\ Next1("outbox")
    BY <2>2, <2>7
  <2>8. Others(w)
    BY <1>3, <2>4, <2>5, <2>6, <2>7
  <2>9. Runs(w)
    BY <1>1, <1>2, <2>8 DEF Runs
  <2> DEFINE rest == Left(w, Tail(scan[w].ops))
  <2>10. \/ /\ o[1] = "dedup" /\ events' = events
            /\ \/ Duplicate(e[1]) /\ rest /\ dedup' = dedup
               \/ /\ ~Duplicate(e[1]) /\ dedup' = dedup \cup {e[1]}
                  /\ Next1("gate")
         \/ o[1] = "gate" /\ Next1("event") /\ UNCHANGED <<dedup, events>>
         \/ /\ o[1] = "event"
            /\ events' = Put(events, e, IF e \in DOMAIN events
                                        THEN events[e] + 1 ELSE 1)
            /\ rest \/ Next1("outbox")
            /\ dedup' = dedup
         \/ /\ o[1] = "candidate" /\ events' = Put(events, Candidate, 1)
            /\ rest /\ dedup' = dedup
         \/ o[1] = "outbox" /\ rest /\ UNCHANGED <<dedup, events>>
    <3> HIDE DEF Next1, rest
    <3>1. Rest(w) => rest
      BY <1>3 DEF rest
    <3> QED BY <2>4, <2>5, <2>6, <2>7, <3>1
  <2> QED BY <2>1, <2>9, <2>10 DEF Streams
<1> QED BY <1>4, <1>5 DEF DoOp

LEMMA Steps ==
  ASSUME ScanShape, [Next]_vars
  PROVE  \/ Still \/ Passes \/ Stops
         \/ \E w \in Worker :
               (\E ops : Plans(w, ops)) \/ Ends(w) \/ Stores(w) \/ Streams(w)
<1>1. CASE NextDay
  BY <1>1 DEF NextDay, Passes
<1>2. CASE Crash
  BY <1>2 DEF Crash, Fault, Stops, Same, More, ScanShape, storeVars, envVars
<1> QED BY <1>1, <1>2, StillSteps, BeginSteps, ProbeSteps, RuleSteps, EndSteps,
           OpSteps DEF Next

-----------------------------------------------------------------------------
(* The shape of the state.                                                 *)

LEMMA RawLater == ASSUME world' = world
                  PROVE  /\ \A raw : RawOk(raw)' <=> RawOk(raw)
                         /\ \A o : Observed1(o)' <=> Observed1(o)
                         /\ \A p : Parked(p)' <=> Parked(p)
BY DEF RawOk, Raw, Observed1, Parked

LEMMA ShapeNext ==
  ASSUME ScanShape, world' = world, day' \in Nat, day <= day', faults' \in Nat,
         PendingOk', LatestOk', RulesOk', DOMAIN scan' = Worker,
         \A v \in Worker :
            \/ scan'[v] = scan[v]
            \/ scan'[v] = Idle
            \/ \E ops : Todo(ops) /\ Left(v, ops)
  PROVE  ScanShape'
<1>1. ASSUME NEW v \in Worker PROVE ScanOk(scan[v])'
  <2>1. CASE scan'[v] = scan[v]
    <3>1. CASE scan[v] = Idle
      BY <2>1, <3>1 DEF ScanOk, Idle
    <3>2. CASE scan[v] # Idle
      <4>1. PICK ops : ops = scan[v].ops
        OBVIOUS
      <4>2. Todo(ops)
        BY <3>2, <4>1 DEF ScanShape, Shape, ScanOk
      <4>3. Todo(ops)'
        BY <4>2, TodoLater DEF ScanShape, Shape
      <4>4. Todo(scan[v].ops)'
        BY <2>1, <4>1, <4>3
      <4> QED BY <2>1, <3>2, <4>4 DEF ScanShape, Shape, ScanOk
    <3> QED BY <3>1, <3>2
  <2>2. CASE scan'[v] = Idle
    BY <2>2 DEF ScanOk, Idle
  <2>3. CASE \E ops : Todo(ops) /\ Left(v, ops)
    <3>1. PICK ops : Todo(ops) /\ Left(v, ops)
      BY <2>3
    <3>2. Todo(ops)'
      BY <3>1, TodoLater DEF ScanShape, Shape
    <3>3. Todo(scan[v].ops)'
      BY <3>1, <3>2 DEF Left
    <3> QED BY <3>1, <3>3 DEF ScanOk, Left
  <2> QED BY <2>1, <2>2, <2>3
<1>2. world' \in Scenario
  BY DEF ScanShape, Shape
<1> QED BY <1>1, <1>2 DEF ScanShape, Shape

LEMMA TailTodo == ASSUME NEW s, Todo(s), s # <<>> PROVE Todo(Tail(s)) /\ IsPlan(Tail(s))
BY PlanTodo DEF Todo

LEMMA KeptOk == ASSUME ScanShape, world' = world, latest' = latest, sticky' = sticky
                PROVE  /\ LatestOk'
                       /\ baseline' = baseline => RulesOk'
                       /\ pending' = pending => PendingOk'
<1>1. LatestOk'
  BY RawLater DEF ScanShape, Shape, LatestOk
<1>2. ASSUME pending' = pending PROVE PendingOk'
  BY <1>2, RawLater DEF ScanShape, Shape, PendingOk
<1> QED BY <1>1, <1>2 DEF ScanShape, Shape, RulesOk

LEMMA TodoOf == ASSUME ScanShape, NEW w \in Worker, scan[w].stage # "idle"
                PROVE  Todo(scan[w].ops)
BY DEF ScanShape, Shape, ScanOk, Idle

LEMMA PutIs ==
  ASSUME NEW f, NEW k, NEW v, NEW p, p = Put(f, k, v)
  PROVE  /\ DOMAIN p = DOMAIN f \cup {k}
         /\ p[k] = v /\ \A x \in DOMAIN f : x # k => p[x] = f[x]
BY DEF Put

LEMMA StoreShape ==
  ASSUME ScanShape, NEW w \in Worker, Stores(w)
  PROVE  PendingOk' /\ LatestOk' /\ RulesOk'
<1> DEFINE o == Head(scan[w].ops)
<1>1. Todo(scan[w].ops) /\ scan[w].ops # <<>> /\ world' = world /\ day' = day /\ baseline' = baseline
  BY TodoOf DEF Stores, Runs
<1>2. o[1] \notin StreamOps
  BY DEF Stores, StoreWrite
<1>3. Item(o)
  BY <1>1, <1>2 DEF Todo, Phases, StreamOps
<1>4. LatestOk'
  <2>1. latest' = LatestAfter(w, o)
    BY DEF Stores, StoreWrite
  <2>2. CASE o[1] = "latest"
    <3>1. Observed1(o[2])
      BY <1>3, <2>2 DEF Item
    <3>2. latest' = [latest EXCEPT ![o[2].doc.probe] =
                [doc |-> o[2].doc, raw |-> o[2].raw, by |-> w, stored |-> FALSE]]
      BY <2>1, <2>2 DEF LatestAfter
    <3>3. PICK r : r = [doc |-> o[2].doc, raw |-> o[2].raw, by |-> w, stored |-> FALSE]
      OBVIOUS
    <3>4. RawOk(r.raw)
      BY <3>1, <3>3 DEF Observed1
    <3>5. DOMAIN latest' = AllProbes
          /\ \A pt \in AllProbes : "raw" \in DOMAIN latest'[pt] /\ RawOk(latest'[pt].raw)
      BY <3>2, <3>3, <3>4 DEF ScanShape, Shape, LatestOk
    <3> QED BY <1>1, <3>5, RawLater DEF LatestOk
  <2>3. CASE o[1] # "latest"
    <3>1. latest' = latest \/ latest' = [latest EXCEPT ![o[2]].stored = TRUE]
      BY <2>1, <2>3 DEF LatestAfter
    <3>2. DOMAIN latest' = AllProbes
          /\ \A pt \in AllProbes : "raw" \in DOMAIN latest'[pt] /\ RawOk(latest'[pt].raw)
      <4>1. \A pt \in AllProbes : /\ latest'[pt].raw = latest[pt].raw
                                   /\ DOMAIN latest'[pt] = DOMAIN latest[pt]
        BY <3>1 DEF ScanShape, Shape, LatestOk
      <4> QED BY <3>1, <4>1 DEF ScanShape, Shape, LatestOk
    <3> QED BY <1>1, <3>2, RawLater DEF LatestOk
  <2> QED BY <2>2, <2>3
<1>5. RulesOk'
  <2>1. sticky' = sticky \cup {o[2]} \/ sticky' = sticky \ {o[2]} \/ sticky' = sticky
    BY DEF Stores, StoreWrite
  <2>2. IsFiniteSet(sticky')
    BY <2>1, FS_AddElement, FS_RemoveElement DEF ScanShape, Shape, RulesOk
  <2> QED BY <1>1, <2>2 DEF ScanShape, Shape, RulesOk
<1>6. PendingOk'
  <2>1. CASE o[1] = "park"
    <3>1. PICK k : k = <<o[2].after.doc.probe, o[2].change.key>>
      OBVIOUS
    <3>2. pending' = Put(pending, k, o[2])
      BY <2>1, <3>1 DEF Stores, StoreWrite
    <3>3. Parked(o[2]) /\ k[1] = o[2].after.doc.probe
      BY <1>3, <2>1, <3>1 DEF Item
    <3>4. PICK v : v = o[2]
      OBVIOUS
    <3>5. /\ IsFiniteSet(DOMAIN pending') /\ DOMAIN pending' = DOMAIN pending \cup {k}
          /\ pending'[k] = v /\ \A x \in DOMAIN pending : x # k => pending'[x] = pending[x]
      <4>1. IsFiniteSet(DOMAIN pending) /\ pending' = Put(pending, k, v)
        BY <3>2, <3>4 DEF ScanShape, Shape, PendingOk
      <4>2. PICK p : p = Put(pending, k, v)
        OBVIOUS
      <4>3. /\ IsFiniteSet(DOMAIN p) /\ DOMAIN p = DOMAIN pending \cup {k}
            /\ p[k] = v /\ \A x \in DOMAIN pending : x # k => p[x] = pending[x]
        <5>1. IsFiniteSet(DOMAIN pending \cup {k})
          BY <4>1, FS_AddElement
        <5> QED BY <4>2, <5>1 DEF Put
      <4> QED BY <4>1, <4>2, <4>3
    <3>6. \A x \in DOMAIN pending' :
             Parked(pending'[x]) /\ x[1] = pending'[x].after.doc.probe
      BY <3>3, <3>4, <3>5 DEF ScanShape, Shape, PendingOk
    <3> QED BY <1>1, <3>5, <3>6, RawLater DEF PendingOk
  <2>2. CASE o[1] = "unpark"
    <3>1. pending' = Restrict(pending, DOMAIN pending \ {o[2]})
      BY <2>2 DEF Stores, StoreWrite
    <3>2. DOMAIN pending' = DOMAIN pending \ {o[2]}
          /\ \A x \in DOMAIN pending \ {o[2]} : pending'[x] = pending[x]
      BY <3>1 DEF Restrict
    <3>3. IsFiniteSet(DOMAIN pending')
      <4>1. IsFiniteSet(DOMAIN pending)
        BY DEF ScanShape, Shape, PendingOk
      <4>2. \A x : IsFiniteSet(DOMAIN pending \ {x})
        BY <4>1, FS_RemoveElement
      <4> QED BY <3>2, <4>2
    <3>4. \A x \in DOMAIN pending' :
             Parked(pending'[x]) /\ x[1] = pending'[x].after.doc.probe
      BY <3>2 DEF ScanShape, Shape, PendingOk
    <3> QED BY <1>1, <3>3, <3>4, RawLater DEF PendingOk
  <2>3. CASE o[1] \notin {"park", "unpark"}
    <3>1. pending' = pending
      BY <2>3 DEF Stores, StoreWrite
    <3> QED BY <1>1, <3>1, RawLater DEF ScanShape, Shape, PendingOk
  <2> QED BY <2>1, <2>2, <2>3
<1> QED BY <1>4, <1>5, <1>6

LEMMA ShapeStep ==
  ASSUME ScanShape, [Next]_vars PROVE ScanShape'
<1>0. DOMAIN scan = Worker /\ day \in Nat /\ faults \in Nat
  BY DEF ScanShape, Shape
<1>1. CASE Still
  <2>1. RulesOk'
    BY <1>1 DEF Still, Same, ScanShape, Shape, RulesOk
  <2> QED BY <1>0, <1>1, <2>1, KeptOk, ShapeNext DEF Still, Same, More
<1>2. CASE Passes
  BY <1>0, <1>2, KeptOk, ShapeNext DEF Passes
<1>3. CASE Stops
  <2>1. \A v \in Worker : scan'[v] = Idle
    BY <1>3 DEF Stops
  <2>2. DOMAIN scan' = Worker
    BY <1>3 DEF Stops
  <2> QED BY <1>0, <1>3, <2>1, <2>2, KeptOk, ShapeNext DEF Stops, Same, More
<1>4. ASSUME NEW w \in Worker, NEW ops, Plans(w, ops) PROVE ScanShape'
  <2>1. Todo(ops) /\ Left(w, ops)
    BY <1>4, PlanTodo DEF Plans
  <2>2. PendingOk'
    <3>1. CASE pending' = pending
      BY <1>4, <3>1, KeptOk DEF Plans, Same
    <3>2. CASE Marked(ops)
      <4>1. \A k \in DOMAIN pending : Parked(pending'[k]) /\ pending'[k].after = pending[k].after
        <5> TAKE k \in DOMAIN pending
        <5>1. Parked(pending[k])
          BY DEF ScanShape, Shape, PendingOk
        <5>2. DOMAIN pending[k] = {"change", "after", "seen"}
          BY <5>1 DEF Parked
        <5>3. /\ DOMAIN pending'[k] = DOMAIN pending[k]
              /\ pending'[k].change = pending[k].change
              /\ pending'[k].after = pending[k].after
          BY <3>2, <5>2 DEF Marked
        <5> QED BY <5>1, <5>3 DEF Parked
      <4>2. \A k \in DOMAIN pending : k[1] = pending[k].after.doc.probe
        BY DEF ScanShape, Shape, PendingOk
      <4>3. IsFiniteSet(DOMAIN pending') /\ \A k \in DOMAIN pending' :
               Parked(pending'[k]) /\ k[1] = pending'[k].after.doc.probe
        BY <3>2, <4>1, <4>2 DEF Marked, ScanShape, Shape, PendingOk
      <4> QED BY <1>4, <4>3, RawLater DEF Plans, Same, PendingOk
    <3> QED BY <1>4, <3>1, <3>2 DEF Plans
  <2>3. \A v \in Worker : scan'[v] = scan[v] \/ \E r : Todo(r) /\ Left(v, r)
    BY <1>4, <2>1 DEF Plans, Others
  <2>4. LatestOk' /\ RulesOk'
    BY <1>4, KeptOk DEF Plans, Same
  <2>5. DOMAIN scan' = Worker /\ world' = world /\ day' = day /\ faults' = faults
    BY <1>4 DEF Plans, Others, Same
  <2> QED BY <1>0, <2>2, <2>3, <2>4, <2>5, ShapeNext
<1>5. ASSUME NEW w \in Worker, Ends(w) PROVE ScanShape'
  <2>1. \A v \in Worker : \/ scan'[v] = scan[v] \/ scan'[v] = Idle
                          \/ \E r : Todo(r) /\ Left(v, r)
    BY <1>5, TodoOf, TailTodo DEF Ends, Others
  <2>2. PendingOk' /\ LatestOk' /\ RulesOk'
    BY <1>5, KeptOk DEF Ends, Same
  <2>3. DOMAIN scan' = Worker /\ world' = world /\ day' = day /\ faults' \in Nat
    BY <1>5 DEF Ends, Others, Same, More
  <2> QED BY <1>0, <2>1, <2>2, <2>3, ShapeNext
<1>6. ASSUME NEW w \in Worker, Stores(w) PROVE ScanShape'
  <2>1. \A v \in Worker : scan'[v] = scan[v] \/ \E r : Todo(r) /\ Left(v, r)
    BY <1>6, TodoOf, TailTodo DEF Stores, Runs, Others
  <2>2. PendingOk' /\ LatestOk' /\ RulesOk'
    BY <1>6, StoreShape
  <2>3. DOMAIN scan' = Worker /\ world' = world /\ day' = day /\ faults' = faults
    BY <1>6 DEF Stores, Runs, Others
  <2> QED BY <1>0, <2>1, <2>2, <2>3, ShapeNext
<1>7. ASSUME NEW w \in Worker, Streams(w) PROVE ScanShape'
  <2> DEFINE s == scan[w].ops
             o == Head(s)
  <2>1. Todo(s) /\ s # <<>>
    BY <1>7, TodoOf DEF Streams, Runs
  <2>2. ASSUME NEW name \in Phases, NEW ev, o[1] \in {"dedup", "gate", "event"},
               ev.change = o[2].change, ev.day = day \/ ev.day = o[2].day,
               DOMAIN ev = DOMAIN o[2]
        PROVE  Todo(<<<<name, ev>>>> \o Tail(s))
    <3>1. Submitted(o[2])
      BY <2>1, <2>2 DEF Todo, First, Item, Phases
    <3>2. Submitted(ev)
      BY <1>0, <2>2, <3>1 DEF Submitted
    <3>3. PICK x : x = <<name, ev>>
      OBVIOUS
    <3>4. x[1] \in Phases /\ Submitted(x[2])
      BY <2>2, <3>2, <3>3
    <3>5. Todo(<<x>> \o Tail(s))
      BY <2>1, <3>4, NextTodo
    <3> QED BY <3>3, <3>5
  <2>3. Todo(Tail(s))
    BY <2>1, TailTodo
  <2>4. \E r : Todo(r) /\ Left(w, r)
    <3>1. CASE Left(w, Tail(s))
      BY <2>3, <3>1
    <3>2. CASE ~Left(w, Tail(s))
      <4>1. PICK name \in Phases :
              \E ev : /\ ev.change = o[2].change
                      /\ ev.day = day \/ ev.day = o[2].day
                      /\ DOMAIN ev = DOMAIN o[2]
                      /\ o[1] \in {"dedup", "gate", "event"}
                      /\ Left(w, <<<<name, ev>>>> \o Tail(s))
        BY <1>7, <3>2 DEF Streams, Phases
      <4> QED BY <2>2, <4>1
    <3> QED BY <3>1, <3>2
  <2>5. \A v \in Worker : scan'[v] = scan[v] \/ \E r : Todo(r) /\ Left(v, r)
    BY <1>7, <2>4 DEF Streams, Runs, Others
  <2>6. PendingOk' /\ LatestOk' /\ RulesOk'
    BY <1>7, KeptOk DEF Streams, Runs
  <2>7. DOMAIN scan' = Worker /\ world' = world /\ day' = day /\ faults' = faults
    BY <1>7 DEF Streams, Runs, Others
  <2> QED BY <1>0, <2>5, <2>6, <2>7, ShapeNext
<1> QED BY <1>1, <1>2, <1>3, <1>4, <1>5, <1>6, <1>7, Steps

-----------------------------------------------------------------------------
(* Windows: a claimed window is one worker's.                              *)

FpOfAsset(f) == f[1] \notin {"monitor.change_burst", "candidate"}
Armed(r) == /\ r.stage # "idle" /\ r.ops # <<>>
            /\ Head(r.ops)[1] \in {"gate", "event"}
Aim(r) == <<Fp(Head(r.ops)[2].change), Head(r.ops)[2].day>>

AimsOk == \A w \in Worker : Armed(scan[w]) =>
             /\ Aim(scan[w])[2] = day => Aim(scan[w])[1] \in dedup
             /\ Aim(scan[w]) \notin DOMAIN events
AimsApart == \A v, w \in Worker :
                Armed(scan[v]) /\ Armed(scan[w]) /\ Aim(scan[v]) = Aim(scan[w]) => v = w
EventsOk == \A e \in DOMAIN events :
               /\ events[e] = 1
               /\ FpOfAsset(e[1]) => /\ e[2] \in Nat /\ e[2] <= day
                                     /\ e[2] = day => e[1] \in dedup
WindowInv == AimsOk /\ AimsApart /\ EventsOk

Rested(w) == Left(w, Tail(scan[w].ops))
Moved(w, name, a) ==
    /\ scan'[w].stage # "idle" /\ scan'[w].ops # <<>> /\ Todo(scan'[w].ops)
    /\ Head(scan'[w].ops)[1] = name /\ Aim(scan'[w]) = a
    /\ Tail(scan'[w].ops) = Tail(scan[w].ops)
HeadOp(w) == Head(scan[w].ops)
HeadAim(w) == <<Fp(HeadOp(w)[2].change), HeadOp(w)[2].day>>

\* A statement of a submission rests the worker or moves it to the next phase.
LEMMA StreamIs ==
  ASSUME ScanShape, NEW w \in Worker, Streams(w)
  PROVE  /\ HeadOp(w)[1] \in {"dedup", "gate", "event"} => Submitted(HeadOp(w)[2])
         /\ \/ /\ HeadOp(w)[1] = "dedup" /\ events' = events
               /\ Duplicate(HeadAim(w)[1]) /\ dedup' = dedup /\ Rested(w)
            \/ /\ HeadOp(w)[1] = "dedup" /\ events' = events
               /\ ~Duplicate(HeadAim(w)[1]) /\ dedup' = dedup \cup {HeadAim(w)[1]}
               /\ Moved(w, "gate", <<HeadAim(w)[1], day>>)
            \/ /\ HeadOp(w)[1] = "gate" /\ UNCHANGED <<dedup, events>>
               /\ Moved(w, "event", HeadAim(w))
            \/ /\ HeadOp(w)[1] = "event" /\ dedup' = dedup
               /\ events' = Put(events, HeadAim(w),
                                IF HeadAim(w) \in DOMAIN events
                                THEN events[HeadAim(w)] + 1 ELSE 1)
               /\ Rested(w) \/ Moved(w, "outbox", HeadAim(w))
            \/ /\ HeadOp(w)[1] = "candidate" /\ dedup' = dedup /\ Rested(w)
               /\ events' = Put(events, Candidate, 1)
            \/ HeadOp(w)[1] = "outbox" /\ Rested(w) /\ UNCHANGED <<dedup, events>>
<1> DEFINE s == scan[w].ops
           o == Head(s)
<1>1. Todo(s) /\ s # <<>>
  BY TodoOf DEF Streams, Runs
<1>2. o[1] \in {"dedup", "gate", "event"} => Submitted(o[2])
  BY <1>1 DEF Todo, First, Item, Phases
<1>3. ASSUME NEW name \in Phases, NEW ev, o[1] \in {"dedup", "gate", "event"},
             ev.change = o[2].change, ev.day = day \/ ev.day = o[2].day,
             DOMAIN ev = DOMAIN o[2], Left(w, <<<<name, ev>>>> \o Tail(s))
      PROVE  Moved(w, name, <<Fp(o[2].change), ev.day>>)
  <2>1. Submitted(ev)
    BY <1>2, <1>3 DEF Submitted, ScanShape, Shape
  <2>2. PICK x : x = <<name, ev>>
    OBVIOUS
  <2>3. PICK r : r = <<x>> \o Tail(s)
    OBVIOUS
  <2>4. x[1] \in Phases /\ Submitted(x[2])
    BY <1>3, <2>1, <2>2
  <2>5. Todo(r) /\ r # <<>> /\ Head(r) = x /\ Tail(r) = Tail(s)
    BY <1>1, <2>3, <2>4, NextTodo
  <2>6. scan'[w].ops = r /\ scan'[w].stage # "idle"
    BY <1>3, <2>2, <2>3 DEF Left
  <2>7. Aim(scan'[w]) = <<Fp(o[2].change), ev.day>>
    BY <1>3, <2>2, <2>5, <2>6 DEF Aim, Fp
  <2> QED BY <2>2, <2>5, <2>6, <2>7 DEF Moved
<1> DEFINE Then(name) == \E ev :
               /\ ev.change = o[2].change
               /\ ev.day = IF name = "gate" THEN day ELSE o[2].day
               /\ DOMAIN ev = DOMAIN o[2]
               /\ Left(w, <<<<name, ev>>>> \o Tail(s))
<1>4. ASSUME o[1] \in {"dedup", "gate", "event"}
      PROVE  /\ Then("gate") => Moved(w, "gate", <<Fp(o[2].change), day>>)
             /\ Then("event") => Moved(w, "event", <<Fp(o[2].change), o[2].day>>)
             /\ Then("outbox") => Moved(w, "outbox", <<Fp(o[2].change), o[2].day>>)
  <2>1. ASSUME NEW name \in Phases, Then(name), NEW d, d = IF name = "gate" THEN day ELSE o[2].day
        PROVE  Moved(w, name, <<Fp(o[2].change), d>>)
    <3>1. PICK ev : /\ ev.change = o[2].change /\ ev.day = d
                    /\ DOMAIN ev = DOMAIN o[2]
                    /\ Left(w, <<<<name, ev>>>> \o Tail(s))
      BY <2>1
    <3>2. ev.day = day \/ ev.day = o[2].day
      BY <2>1, <3>1
    <3>3. Moved(w, name, <<Fp(o[2].change), ev.day>>)
      BY <1>3, <1>4, <3>1, <3>2
    <3> QED BY <3>1, <3>3
  <2> HIDE DEF Then
  <2> QED BY <2>1 DEF Phases
<1>5. o = HeadOp(w) /\ HeadAim(w) = <<Fp(o[2].change), o[2].day>>
      /\ HeadAim(w)[1] = Fp(o[2].change)
  BY DEF HeadOp, HeadAim
<1> DEFINE e == <<Fp(o[2].change), o[2].day>>
           rest == Left(w, Tail(s))
<1>6. \/ /\ o[1] = "dedup" /\ events' = events
         /\ \/ Duplicate(e[1]) /\ rest /\ dedup' = dedup
            \/ /\ ~Duplicate(e[1]) /\ dedup' = dedup \cup {e[1]}
               /\ Then("gate")
      \/ o[1] = "gate" /\ Then("event") /\ UNCHANGED <<dedup, events>>
      \/ /\ o[1] = "event"
         /\ events' = Put(events, e, IF e \in DOMAIN events
                                     THEN events[e] + 1 ELSE 1)
         /\ rest \/ Then("outbox")
         /\ dedup' = dedup
      \/ /\ o[1] = "candidate" /\ events' = Put(events, Candidate, 1)
         /\ rest /\ dedup' = dedup
      \/ o[1] = "outbox" /\ rest /\ UNCHANGED <<dedup, events>>
  <2> HIDE DEF Then, rest
  <2> QED BY DEF Streams, Then, rest
<1>7. e = HeadAim(w) /\ e[1] = HeadAim(w)[1] /\ rest = Rested(w)
  BY <1>5 DEF Rested
<1>8. o[1] = HeadOp(w)[1] /\ o[2] = HeadOp(w)[2]
  BY <1>5
<1> HIDE DEF Then, rest, e, o
<1> QED BY <1>2, <1>4, <1>5, <1>6, <1>7, <1>8 DEF e

LEMMA Unarmed ==
  ASSUME NEW w, NEW ops, IsPlan(ops), scan'[w] = Idle \/ Left(w, ops)
  PROVE  ~Armed(scan'[w])
<1>1. CASE scan'[w] = Idle
  BY <1>1 DEF Armed, Idle
<1>2. CASE Left(w, ops)
  BY <1>2, PlanTodo DEF Armed, Left, Item, Phases
<1> QED BY <1>1, <1>2

LEMMA UnarmedRest ==
  ASSUME ScanShape, NEW w \in Worker, scan[w].stage # "idle", scan[w].ops # <<>>, Rested(w)
  PROVE  ~Armed(scan'[w])
BY TodoOf, TailTodo, Unarmed DEF Rested

LEMMA AimIs ==
  ASSUME ScanShape, NEW w \in Worker, Armed(scan[w])
  PROVE  /\ Aim(scan[w])[2] \in Nat /\ Aim(scan[w])[2] <= day
         /\ FpOfAsset(Aim(scan[w])[1])
<1> DEFINE o == Head(scan[w].ops)
<1>1. Todo(scan[w].ops) /\ scan[w].ops # <<>> /\ o[1] \in Phases
  BY TodoOf DEF Armed, Phases
<1>2. Submitted(o[2])
  BY <1>1 DEF Todo, First
<1>3. Aim(scan[w])[2] = o[2].day /\ Aim(scan[w])[1] = <<o[2].change.type, o[2].change.key>>
  BY DEF Aim, Fp
<1> QED BY <1>2, <1>3 DEF Submitted, OfAsset, FpOfAsset

\* What keeps the aims, the windows and the rows keeps the invariant.
LEMMA SameAims ==
  ASSUME WindowInv, day' = day, dedup' = dedup, events' = events,
         \A v \in Worker : Armed(scan'[v]) => Armed(scan[v]) /\ Aim(scan'[v]) = Aim(scan[v])
  PROVE  WindowInv'
BY DEF WindowInv, AimsOk, AimsApart, EventsOk

\* A burst or candidate row has no window.
LEMMA PutOther ==
  ASSUME ScanShape, WindowInv, day' = day, dedup' = dedup, NEW e, ~FpOfAsset(e[1]),
         events' = Put(events, e, 1),
         \A v \in Worker : Armed(scan'[v]) => Armed(scan[v]) /\ Aim(scan'[v]) = Aim(scan[v])
  PROVE  WindowInv'
<1>1. /\ DOMAIN events' = DOMAIN events \cup {e} /\ events'[e] = 1
      /\ \A x \in DOMAIN events : x # e => events'[x] = events[x]
  BY DEF Put
<1>2. AimsOk'
  BY <1>1, AimIs DEF WindowInv, AimsOk
<1>3. AimsApart'
  BY DEF WindowInv, AimsApart
<1>4. EventsOk'
  BY <1>1 DEF WindowInv, EventsOk
<1> QED BY <1>2, <1>3, <1>4 DEF WindowInv

LEMMA WindowStream ==
  ASSUME ScanShape, WindowInv, NEW w \in Worker, Streams(w)
  PROVE  WindowInv'
<1> DEFINE o == HeadOp(w)
           e == HeadAim(w)
<1>1. /\ day' = day /\ \A v \in Worker \ {w} : scan'[v] = scan[v]
      /\ scan[w].stage # "idle" /\ scan[w].ops # <<>> /\ day \in Nat
  BY DEF Streams, Runs, Others, ScanShape, Shape
<1>2. Rested(w) => ~Armed(scan'[w])
  BY <1>1, UnarmedRest
<1>3. \A a : Moved(w, "outbox", a) => ~Armed(scan'[w])
  BY DEF Moved, Armed
<1>4. o[1] \in {"gate", "event"} => Armed(scan[w]) /\ Aim(scan[w]) = e
  BY <1>1 DEF Armed, Aim, HeadOp, HeadAim
<1>5. CASE events' = events /\ dedup' = dedup /\ Rested(w)
  BY <1>1, <1>2, <1>5, SameAims
<1>6. CASE /\ o[1] = "dedup" /\ events' = events
           /\ ~Duplicate(e[1]) /\ dedup' = dedup \cup {e[1]}
           /\ Moved(w, "gate", <<e[1], day>>)
  <2>1. Submitted(o[2]) /\ FpOfAsset(e[1])
    BY <1>6, StreamIs DEF Submitted, OfAsset, FpOfAsset, HeadAim, Fp
  <2>2. Aim(scan'[w]) = <<e[1], day>> /\ e[1] \notin dedup
    BY <1>6 DEF Moved, Duplicate
  <2>3. <<e[1], day>> \notin DOMAIN events
    BY <2>1, <2>2 DEF WindowInv, EventsOk
  <2>4. \A v \in Worker : Armed(scan[v]) => Aim(scan[v]) # <<e[1], day>>
    BY <2>2 DEF WindowInv, AimsOk
  <2>5. AimsOk'
    <3> HIDE DEF e, o
    <3>1. ASSUME NEW v \in Worker, Armed(scan'[v])
          PROVE  /\ Aim(scan'[v])[2] = day => Aim(scan'[v])[1] \in dedup'
                 /\ Aim(scan'[v]) \notin DOMAIN events
      <4>1. CASE v = w
        BY <1>6, <2>2, <2>3, <4>1
      <4>2. CASE v # w
        BY <1>1, <1>6, <3>1, <4>2 DEF WindowInv, AimsOk
      <4> QED BY <4>1, <4>2
    <3> QED BY <1>1, <1>6, <3>1 DEF AimsOk
  <2>6. AimsApart'
    <3> HIDE DEF e, o
    <3> QED BY <1>1, <2>2, <2>4 DEF WindowInv, AimsApart
  <2>7. EventsOk'
    <3> HIDE DEF e, o
    <3> QED BY <1>1, <1>6 DEF WindowInv, EventsOk
  <2> QED BY <2>5, <2>6, <2>7 DEF WindowInv
<1>7. CASE /\ o[1] = "gate" /\ UNCHANGED <<dedup, events>>
           /\ Moved(w, "event", e)
  <2>1. \A v \in Worker : Armed(scan'[v]) => Armed(scan[v]) /\ Aim(scan'[v]) = Aim(scan[v])
    BY <1>1, <1>4, <1>7 DEF Moved
  <2> QED BY <1>1, <1>7, <2>1, SameAims
<1>8. CASE /\ o[1] = "event" /\ dedup' = dedup
           /\ events' = Put(events, e, IF e \in DOMAIN events THEN events[e] + 1 ELSE 1)
           /\ Rested(w) \/ Moved(w, "outbox", e)
  <2>1. Armed(scan[w]) /\ Aim(scan[w]) = e /\ ~Armed(scan'[w])
    BY <1>2, <1>3, <1>4, <1>8
  <2>2. e \notin DOMAIN events /\ (e[2] = day => e[1] \in dedup)
    BY <2>1 DEF WindowInv, AimsOk
  <2>3. e[2] \in Nat /\ e[2] <= day
    BY <2>1, AimIs
  <2> HIDE DEF e, o
  <2>4. events' = Put(events, e, 1)
    BY <1>8, <2>2
  <2>5. /\ DOMAIN events' = DOMAIN events \cup {e} /\ events'[e] = 1
        /\ \A x \in DOMAIN events : x # e => events'[x] = events[x]
    BY <2>4 DEF Put
  <2>6. AimsOk'
    <3>1. ASSUME NEW v \in Worker, Armed(scan'[v])
          PROVE  /\ Aim(scan'[v])[2] = day => Aim(scan'[v])[1] \in dedup
                 /\ Aim(scan'[v]) \notin DOMAIN events'
      <4>1. v # w /\ scan'[v] = scan[v]
        BY <1>1, <2>1, <3>1
      <4>2. Aim(scan[v]) # e
        BY <2>1, <3>1, <4>1 DEF WindowInv, AimsApart
      <4> QED BY <2>5, <3>1, <4>1, <4>2 DEF WindowInv, AimsOk
    <3> QED BY <1>1, <1>8, <3>1 DEF AimsOk
  <2>7. AimsApart'
    BY <1>1, <2>1 DEF WindowInv, AimsApart
  <2>8. EventsOk'
    BY <1>1, <1>8, <2>2, <2>3, <2>5 DEF WindowInv, EventsOk
  <2> QED BY <2>6, <2>7, <2>8 DEF WindowInv
<1>9. CASE /\ o[1] = "candidate" /\ dedup' = dedup /\ Rested(w)
           /\ events' = Put(events, Candidate, 1)
  <2>1. ~FpOfAsset(Candidate[1])
    BY DEF FpOfAsset, Candidate
  <2> QED BY <1>1, <1>2, <1>9, <2>1, PutOther
<1> HIDE DEF e, o
<1>10. \/ events' = events /\ dedup' = dedup /\ Rested(w)
       \/ /\ o[1] = "dedup" /\ events' = events
          /\ ~Duplicate(e[1]) /\ dedup' = dedup \cup {e[1]}
          /\ Moved(w, "gate", <<e[1], day>>)
       \/ /\ o[1] = "gate" /\ UNCHANGED <<dedup, events>>
          /\ Moved(w, "event", e)
       \/ /\ o[1] = "event" /\ dedup' = dedup
          /\ events' = Put(events, e, IF e \in DOMAIN events THEN events[e] + 1 ELSE 1)
          /\ Rested(w) \/ Moved(w, "outbox", e)
       \/ /\ o[1] = "candidate" /\ dedup' = dedup /\ Rested(w)
          /\ events' = Put(events, Candidate, 1)
  BY StreamIs DEF e, o
<1> QED BY <1>5, <1>6, <1>7, <1>8, <1>9, <1>10

LEMMA WindowStep ==
  ASSUME ScanShape, WindowInv, [Next]_vars PROVE WindowInv'
<1>1. CASE Still
  <2>1. ~FpOfAsset(Burst[1])
    BY DEF FpOfAsset, Burst
  <2> QED BY <1>1, <2>1, SameAims, PutOther DEF Still, Same
<1>2. CASE Passes
  <2>1. AimsOk'
    <3>1. ASSUME NEW v \in Worker, Armed(scan[v])
          PROVE  Aim(scan[v])[2] # day + 1
      BY <3>1, AimIs DEF ScanShape, Shape
    <3> QED BY <1>2, <3>1 DEF WindowInv, AimsOk, Passes
  <2>2. AimsApart'
    BY <1>2 DEF WindowInv, AimsApart, Passes
  <2>3. EventsOk'
    <3>1. \A e \in DOMAIN events : FpOfAsset(e[1]) =>
             e[2] \in Nat /\ e[2] <= day + 1 /\ e[2] # day + 1
      BY DEF WindowInv, EventsOk, ScanShape, Shape
    <3> QED BY <1>2, <3>1 DEF WindowInv, EventsOk, Passes
  <2> QED BY <2>1, <2>2, <2>3 DEF WindowInv
<1>3. CASE Stops
  <2>1. \A v \in Worker : scan'[v] = Idle
    BY <1>3 DEF Stops
  <2>2. \A v \in Worker : ~Armed(scan'[v])
    BY <2>1 DEF Armed, Idle
  <2> QED BY <1>3, <2>2, SameAims DEF Stops, Same
<1>4. ASSUME NEW w \in Worker, NEW ops, Plans(w, ops) PROVE WindowInv'
  <2>1. ~Armed(scan'[w])
    BY <1>4, Unarmed DEF Plans
  <2> QED BY <1>4, <2>1, SameAims DEF Plans, Same, Others
<1>5. ASSUME NEW w \in Worker, Ends(w) PROVE WindowInv'
  <2>1. ~Armed(scan'[w])
    BY <1>5, Unarmed, EmptyPlan, UnarmedRest DEF Ends, Rested
  <2> QED BY <1>5, <2>1, SameAims DEF Ends, Same, Others
<1>6. ASSUME NEW w \in Worker, Stores(w) PROVE WindowInv'
  <2>1. ~Armed(scan'[w])
    BY <1>6, UnarmedRest DEF Stores, Runs, Rested
  <2> QED BY <1>6, <2>1, SameAims DEF Stores, Runs, Others, StoreWrite, streamVars
<1> QED BY <1>1, <1>2, <1>3, <1>4, <1>5, <1>6, WindowStream, Steps

-----------------------------------------------------------------------------
(* What is owed is stored or still promised.                               *)

Promise(x, o) == /\ x[1] \in {"dedup", "gate", "event"}
                 /\ Fp(x[2].change) = o[1] /\ x[2].day >= o[2]
Promises(r, o) == r.stage # "idle" /\ \E x : Has(r.ops, x) /\ Promise(x, o)
Stored(o) == \E e \in DOMAIN events : e[1] = o[1] /\ e[2] >= o[2]
OwedOk == \A o \in owed : /\ o[2] \in Nat
                          /\ Stored(o) \/ \E w \in Worker : Promises(scan[w], o)
ClaimedOk == \A f \in dedup :
                \/ <<f, day>> \in DOMAIN events
                \/ \E w \in Worker : Armed(scan[w]) /\ Aim(scan[w]) = <<f, day>>
LostInv == faults = 0 => OwedOk /\ ClaimedOk

LEMMA HasHead == ASSUME NEW s, Todo(s), s # <<>> PROVE Has(s, Head(s))
BY TodoHas

LEMMA ArmedPromises ==
  ASSUME NEW r, NEW o, Armed(r), Todo(r.ops), Aim(r)[1] = o[1], Aim(r)[2] >= o[2]
  PROVE  Promises(r, o)
<1>1. Has(r.ops, Head(r.ops))
  BY HasHead DEF Armed
<1>2. Promise(Head(r.ops), o)
  BY DEF Promise, Armed, Aim
<1> QED BY <1>1, <1>2 DEF Promises, Armed

LEMMA NoPromise ==
  ASSUME NEW r, NEW o, r = Idle \/ r.ops = <<>> PROVE ~Promises(r, o) /\ ~Armed(r)
<1>1. CASE r = Idle
  BY <1>1 DEF Idle, Promises, Armed
<1>2. CASE r.ops = <<>>
  BY <1>2 DEF Promises, Armed, Has
<1> QED BY <1>1, <1>2

LEMMA ReportsAre ==
  ASSUME NEW ops, IsPlan(ops), NEW o \in Reports(ops), day \in Nat
  PROVE  /\ o[2] \in Nat
         /\ \E x : Has(ops, x) /\ Promise(x, o)
<1>1. PICK i \in DOMAIN ops : ops[i][1] = "dedup" /\ o = <<Fp(ops[i][2].change), ops[i][2].day>>
  BY DEF Reports
<1>2. Submitted(ops[i][2])
  BY <1>1, PlanMembers DEF Item
<1>3. ops[i][2].day \in Nat
  BY <1>2 DEF Submitted
<1>4. Promise(ops[i], o)
  BY <1>1, <1>3 DEF Promise
<1> QED BY <1>1, <1>3, <1>4 DEF Has

\* The workers but w, and what is stored, are as they were.
LEMMA OwedKept ==
  ASSUME OwedOk, owed' = owed, DOMAIN events \subseteq DOMAIN events', NEW W \in SUBSET Worker,
         \A v \in W : scan'[v] = scan[v],
         \A v \in Worker \ W : \A o \in owed :
            Promises(scan[v], o) => Stored(o)' \/ \E u \in Worker : Promises(scan'[u], o)
  PROVE  OwedOk'
BY DEF OwedOk, Stored

LEMMA ClaimedKept ==
  ASSUME ClaimedOk, day' = day, DOMAIN events \subseteq DOMAIN events', dedup' = dedup,
         \A v \in Worker : Armed(scan[v]) => \/ Aim(scan[v]) \in DOMAIN events'
                                             \/ Armed(scan'[v]) /\ Aim(scan'[v]) = Aim(scan[v])
  PROVE  ClaimedOk'
<1> SUFFICES ASSUME NEW f \in dedup
             PROVE  \/ <<f, day>> \in DOMAIN events'
                    \/ \E w \in Worker : Armed(scan'[w]) /\ Aim(scan'[w]) = <<f, day>>
  BY DEF ClaimedOk
<1>1. CASE <<f, day>> \in DOMAIN events
  BY <1>1
<1>2. CASE \E w \in Worker : Armed(scan[w]) /\ Aim(scan[w]) = <<f, day>>
  BY <1>2
<1> QED BY <1>1, <1>2 DEF ClaimedOk

LEMMA LostStream ==
  ASSUME ScanShape, ScanShape', OwedOk, ClaimedOk, NEW w \in Worker, Streams(w)
  PROVE  OwedOk' /\ ClaimedOk'
<1> DEFINE o == HeadOp(w)
           e == HeadAim(w)
           s == scan[w].ops
<1>1. /\ day' = day /\ \A v \in Worker \ {w} : scan'[v] = scan[v]
      /\ scan[w].stage # "idle" /\ s # <<>> /\ day \in Nat /\ owed' = owed
  BY DEF Streams, Runs, Others, ScanShape, Shape
<1>2. Todo(s) /\ o = Head(s)
  BY <1>1, TodoOf DEF HeadOp
<1>3. o[1] \in {"dedup", "gate", "event"} => Submitted(o[2])
  BY StreamIs
<1>4. DOMAIN events \subseteq DOMAIN events'
      /\ (o[1] = "event" => e \in DOMAIN events')
  <2>1. \A k, v : DOMAIN Put(events, k, v) = DOMAIN events \cup {k}
    BY DEF Put
  <2> HIDE DEF e, o
  <2>2. \/ events' = events /\ o[1] # "event"
        \/ o[1] = "event" /\ \E v : events' = Put(events, e, v)
        \/ o[1] = "candidate" /\ events' = Put(events, Candidate, 1)
    BY StreamIs DEF e, o
  <2>3. CASE o[1] = "event" /\ \E v : events' = Put(events, e, v)
    <3>1. PICK v : events' = Put(events, e, v)
      BY <2>3
    <3>2. DOMAIN events' = DOMAIN events \cup {e}
      BY <2>1, <3>1
    <3> QED BY <3>2
  <2>4. CASE o[1] = "candidate" /\ events' = Put(events, Candidate, 1)
    <3>1. DOMAIN events' = DOMAIN events \cup {Candidate}
      BY <2>1, <2>4
    <3> QED BY <2>4, <3>1
  <2> QED BY <2>2, <2>3, <2>4
<1>5. Rested(w) \/ \E name, a : Moved(w, name, a)
  BY StreamIs
<1>6. \A x : Has(Tail(s), x) => scan'[w].stage # "idle" /\ Has(scan'[w].ops, x)
  <2>1. CASE Rested(w)
    BY <2>1 DEF Rested, Left
  <2>2. CASE \E name, a : Moved(w, name, a)
    BY <2>2, TodoHas DEF Moved
  <2> QED BY <1>5, <2>1, <2>2
<1>7. ASSUME NEW r \in owed, Promise(o, r)
      PROVE  Stored(r)' \/ \E u \in Worker : Promises(scan'[u], r)
  <2>1. o[1] \in {"dedup", "gate", "event"} /\ e[1] = r[1] /\ e[2] >= r[2] /\ e[2] = o[2].day
    BY <1>7 DEF Promise, HeadAim
  <2>2. e[2] \in Nat /\ e[2] <= day /\ r[2] \in Nat
    BY <1>3, <2>1 DEF Submitted, OwedOk
  <2>3. day >= r[2]
    BY <1>1, <2>1, <2>2
  <2>4. ASSUME NEW name \in {"gate", "event"}, NEW a, Moved(w, name, a), a[1] = r[1], a[2] >= r[2]
        PROVE  Promises(scan'[w], r)
    <3>1. Armed(scan'[w]) /\ Todo(scan'[w].ops) /\ Aim(scan'[w]) = a
      BY <2>4 DEF Moved, Armed
    <3> QED BY <2>4, <3>1, ArmedPromises
  <2>5. CASE o[1] = "gate"
    <3>1. Moved(w, "event", e)
      BY <2>5, StreamIs
    <3> QED BY <2>1, <2>4, <3>1
  <2>6. CASE o[1] = "event"
    <3>1. e \in DOMAIN events'
      BY <1>4, <2>6
    <3> HIDE DEF e
    <3> QED BY <2>1, <3>1 DEF Stored
  <2>7. CASE o[1] = "dedup"
    <3>1. \/ e[1] \in dedup
          \/ Moved(w, "gate", <<e[1], day>>)
      BY <2>7, StreamIs DEF Duplicate
    <3>2. CASE Moved(w, "gate", <<e[1], day>>)
      <4>1. PICK a : a = <<e[1], day>>
        OBVIOUS
      <4>2. a[1] = r[1] /\ a[2] >= r[2]
        BY <2>1, <2>3, <4>1
      <4> QED BY <2>4, <3>2, <4>1, <4>2
    <3>3. CASE e[1] \in dedup
      <4> HIDE DEF e
      <4>1. CASE <<e[1], day>> \in DOMAIN events
        <5>1. PICK a : a = <<e[1], day>>
          OBVIOUS
        <5>2. a \in DOMAIN events' /\ a[1] = r[1] /\ a[2] >= r[2]
          BY <1>4, <2>1, <2>3, <4>1, <5>1
        <5> QED BY <5>2 DEF Stored
      <4>2. CASE \E v \in Worker : Armed(scan[v]) /\ Aim(scan[v]) = <<e[1], day>>
        <5>1. PICK v \in Worker : Armed(scan[v]) /\ Aim(scan[v]) = <<e[1], day>>
          BY <4>2
        <5>2. v # w
          BY <1>2, <2>7, <5>1 DEF Armed
        <5>3. scan'[v] = scan[v]
          BY <1>1, <5>2
        <5>4. Todo(scan[v].ops)
          BY <5>1, TodoOf DEF Armed
        <5>5. Aim(scan[v])[1] = r[1] /\ Aim(scan[v])[2] >= r[2]
          BY <2>1, <2>3, <5>1
        <5>6. Promises(scan[v], r)
          BY <5>1, <5>4, <5>5, ArmedPromises
        <5> QED BY <5>3, <5>6
      <4> QED BY <3>3, <4>1, <4>2 DEF ClaimedOk
    <3> QED BY <3>1, <3>2, <3>3
  <2> QED BY <2>1, <2>5, <2>6, <2>7
<1>8. OwedOk'
  <2>1. ASSUME NEW r \in owed, Promises(scan[w], r)
        PROVE  Stored(r)' \/ \E u \in Worker : Promises(scan'[u], r)
    <3>1. PICK x : Has(s, x) /\ Promise(x, r)
      BY <2>1 DEF Promises
    <3>2. CASE x = o
      BY <1>7, <3>1, <3>2
    <3>3. CASE Has(Tail(s), x)
      BY <1>6, <3>1, <3>3 DEF Promises
    <3> QED BY <1>1, <1>2, <3>1, <3>2, <3>3, TodoHas
  <2>2. Worker \ {w} \in SUBSET Worker
    OBVIOUS
  <2> QED BY <1>1, <1>4, <2>1, <2>2, OwedKept
<1>9. ClaimedOk'
  <2>1. ASSUME Armed(scan[w])
        PROVE  \/ Aim(scan[w]) \in DOMAIN events'
               \/ Armed(scan'[w]) /\ Aim(scan'[w]) = Aim(scan[w])
    <3>1. o[1] \in {"gate", "event"} /\ Aim(scan[w]) = e
      BY <2>1 DEF Armed, Aim, HeadOp, HeadAim
    <3>2. CASE o[1] = "gate"
      <4>1. Moved(w, "event", e)
        BY <3>2, StreamIs
      <4> QED BY <3>1, <4>1 DEF Moved, Armed
    <3>3. CASE o[1] = "event"
      BY <1>4, <3>1, <3>3
    <3> QED BY <3>1, <3>2, <3>3
  <2>2. \A v \in Worker : Armed(scan[v]) => \/ Aim(scan[v]) \in DOMAIN events'
                                            \/ Armed(scan'[v]) /\ Aim(scan'[v]) = Aim(scan[v])
    BY <1>1, <2>1
  <2>3. CASE dedup' = dedup
    BY <1>1, <1>4, <2>2, <2>3, ClaimedKept
  <2>4. CASE dedup' # dedup
    <3>1. o[1] = "dedup" /\ dedup' = dedup \cup {e[1]} /\ Moved(w, "gate", <<e[1], day>>)
          /\ events' = events
      BY <2>4, StreamIs
    <3>2. Armed(scan'[w]) /\ Aim(scan'[w]) = <<e[1], day>>
      BY <3>1 DEF Moved, Armed
    <3>3. ~Armed(scan[w])
      BY <1>2, <3>1 DEF Armed
    <3> HIDE DEF e, o
    <3>4. ASSUME NEW f \in dedup'
          PROVE  \/ <<f, day>> \in DOMAIN events
                 \/ \E v \in Worker : Armed(scan'[v]) /\ Aim(scan'[v]) = <<f, day>>
      <4>1. CASE f = e[1]
        BY <3>2, <4>1
      <4>2. CASE f \in dedup
        BY <1>1, <3>3, <4>2 DEF ClaimedOk
      <4> QED BY <3>1, <4>1, <4>2
    <3> QED BY <1>1, <3>1, <3>4 DEF ClaimedOk
  <2> QED BY <2>3, <2>4
<1> QED BY <1>8, <1>9

LEMMA LostStep ==
  ASSUME ScanShape, ScanShape', LostInv, [Next]_vars PROVE LostInv'
<1>1. CASE Still
  <2>1. DOMAIN events \subseteq DOMAIN events'
    BY <1>1 DEF Still, Put
  <2>2. faults' = 0 => faults = 0
    BY <1>1 DEF Still, More, ScanShape
  <2>3. ASSUME OwedOk PROVE OwedOk'
    BY <1>1, <2>1, <2>3 DEF Still, OwedOk, Stored
  <2>4. ASSUME ClaimedOk PROVE ClaimedOk'
    BY <1>1, <2>1, <2>4, ClaimedKept DEF Still, Same
  <2> QED BY <2>2, <2>3, <2>4 DEF LostInv
<1>2. CASE Passes
  <2>1. ASSUME OwedOk PROVE OwedOk'
    BY <1>2, <2>1 DEF Passes, OwedOk, Stored
  <2>2. ClaimedOk'
    BY <1>2 DEF Passes, ClaimedOk
  <2> QED BY <1>2, <2>1, <2>2 DEF LostInv, Passes
<1>3. CASE Stops
  BY <1>3 DEF Stops, LostInv
<1>4. ASSUME NEW w \in Worker, NEW ops, Plans(w, ops) PROVE LostInv'
  <2> SUFFICES ASSUME OwedOk, ClaimedOk PROVE OwedOk' /\ ClaimedOk'
    BY <1>4 DEF LostInv, Plans
  <2>1. /\ \A v \in Worker \ {w} : scan'[v] = scan[v]
        /\ Left(w, ops) /\ IsPlan(ops) /\ owed' = owed \cup Reports(ops)
        /\ UNCHANGED <<day, events, dedup>> /\ day \in Nat
    BY <1>4 DEF Plans, Others, Same, ScanShape, Shape
  <2>2. ~Armed(scan[w]) /\ \A o : ~Promises(scan[w], o)
    BY <1>4, NoPromise DEF Plans
  <2>3. ASSUME NEW o \in owed'
        PROVE  o[2] \in Nat /\ (Stored(o)' \/ \E u \in Worker : Promises(scan'[u], o))
    <3>1. CASE o \in owed
      BY <2>1, <2>2, <3>1 DEF OwedOk, Stored
    <3>2. CASE o \in Reports(ops)
      BY <2>1, <3>2, ReportsAre DEF Left, Promises
    <3> QED BY <2>1, <2>3, <3>1, <3>2
  <2>4. OwedOk'
    BY <2>3 DEF OwedOk
  <2>5. ClaimedOk'
    BY <2>1, <2>2, ClaimedKept
  <2> QED BY <2>4, <2>5
<1>5. ASSUME NEW w \in Worker, Ends(w) PROVE LostInv'
  <2> SUFFICES ASSUME OwedOk, ClaimedOk, faults' = 0 PROVE OwedOk' /\ ClaimedOk'
    BY <1>5 DEF LostInv, Ends, More, ScanShape
  <2>1. /\ \A v \in Worker \ {w} : scan'[v] = scan[v] /\ scan[w].ops = <<>>
        /\ UNCHANGED <<day, events, dedup, owed>>
    BY <1>5 DEF Ends, Others, Same
  <2>2. scan[w].ops = <<>>
    BY <1>5 DEF Ends
  <2>3. ~Armed(scan[w]) /\ \A o : ~Promises(scan[w], o)
    BY <2>2, NoPromise
  <2>4. OwedOk'
    BY <2>1, <2>3 DEF OwedOk, Stored
  <2>5. ClaimedOk'
    BY <2>1, <2>3, ClaimedKept
  <2> QED BY <2>4, <2>5
<1>6. ASSUME NEW w \in Worker, Stores(w) PROVE LostInv'
  <2> SUFFICES ASSUME OwedOk, ClaimedOk PROVE OwedOk' /\ ClaimedOk'
    BY <1>6 DEF LostInv, Stores, Runs
  <2> DEFINE s == scan[w].ops
  <2>1. /\ \A v \in Worker \ {w} : scan'[v] = scan[v]
        /\ s # <<>> /\ scan[w].stage # "idle" /\ Todo(s) /\ Left(w, Tail(s))
        /\ UNCHANGED <<day, events, dedup, owed>>
    BY <1>6, TodoOf DEF Stores, Runs, Others, StoreWrite, streamVars
  <2>2. Head(s)[1] \notin {"dedup", "gate", "event"}
    BY <1>6 DEF Stores, StoreWrite, StreamOps
  <2>3. \A o : Promises(scan[w], o) => Promises(scan'[w], o)
    BY <2>1, <2>2, TodoHas DEF Promises, Promise, Left
  <2>4. OwedOk'
    <3>1. \A v \in Worker : \A o : Promises(scan[v], o) => Promises(scan'[v], o)
      BY <2>1, <2>3
    <3> QED BY <2>1, <3>1 DEF OwedOk, Stored
  <2>5. ~Armed(scan[w])
    BY <2>2 DEF Armed
  <2>6. ClaimedOk'
    BY <2>1, <2>5, ClaimedKept
  <2> QED BY <2>4, <2>6
<1>7. ASSUME NEW w \in Worker, Streams(w) PROVE LostInv'
  BY <1>7, LostStream DEF LostInv, Streams, Runs
<1> QED BY <1>1, <1>2, <1>3, <1>4, <1>5, <1>6, <1>7, Steps

-----------------------------------------------------------------------------
(* A parked change that was seen twice is about to be unparked.            *)

Unparks(r, k) == r.stage # "idle" /\ Has(r.ops, <<"unpark", k>>)
ConfirmOk == \A k \in DOMAIN pending :
                pending[k].seen = 2 => \E w \in Worker : Unparks(scan[w], k)
ConfirmInv == faults = 0 /\ "kept" \notin Raw => ConfirmOk

LEMMA NoUnpark ==
  ASSUME NEW r, NEW k, r = Idle \/ r.ops = <<>> PROVE ~Unparks(r, k)
<1>1. CASE r = Idle
  BY <1>1 DEF Idle, Unparks
<1>2. CASE r.ops = <<>>
  BY <1>2 DEF Unparks, Has
<1> QED BY <1>1, <1>2

LEMMA ConfirmStep ==
  ASSUME ScanShape, ConfirmInv, [Next]_vars PROVE ConfirmInv'
<1>1. CASE Still
  BY <1>1 DEF Still, Same, More, ScanShape, ConfirmInv, ConfirmOk, Raw
<1>2. CASE Passes
  BY <1>2 DEF Passes, ConfirmInv, ConfirmOk, Raw
<1>3. CASE Stops
  BY <1>3 DEF Stops, ConfirmInv
<1>4. ASSUME NEW w \in Worker, NEW ops, Plans(w, ops) PROVE ConfirmInv'
  <2> SUFFICES ASSUME ConfirmOk, "kept" \notin Raw PROVE ConfirmOk'
    BY <1>4 DEF Plans, Same, ConfirmInv, Raw
  <2>1. /\ \A v \in Worker \ {w} : scan'[v] = scan[v]
        /\ Left(w, ops)
    BY <1>4 DEF Plans, Others
  <2>2. \A k : ~Unparks(scan[w], k)
    BY <1>4, NoUnpark DEF Plans
  <2>3. CASE pending' = pending
    BY <2>1, <2>2, <2>3 DEF ConfirmOk
  <2>4. CASE Marked(ops)
    <3>1. ASSUME NEW k \in DOMAIN pending, pending'[k].seen = 2
          PROVE  \E v \in Worker : Unparks(scan'[v], k)
      <4>1. CASE pending'[k] = pending[k]
        BY <2>1, <2>2, <3>1, <4>1 DEF ConfirmOk
      <4>2. CASE Has(ops, <<"unpark", k>>)
        BY <2>1, <4>2 DEF Left, Unparks
      <4> QED BY <2>4, <4>1, <4>2 DEF Marked
    <3> QED BY <2>4, <3>1 DEF Marked, ConfirmOk
  <2> QED BY <1>4, <2>3, <2>4 DEF Plans
<1>5. ASSUME NEW w \in Worker, Ends(w) PROVE ConfirmInv'
  <2> SUFFICES ASSUME ConfirmOk, faults' = 0 PROVE ConfirmOk'
    BY <1>5 DEF Ends, Same, More, ScanShape, ConfirmInv, Raw
  <2>1. /\ \A v \in Worker \ {w} : scan'[v] = scan[v]
        /\ scan[w].ops = <<>> /\ pending' = pending
    BY <1>5 DEF Ends, Others
  <2>2. \A k : ~Unparks(scan[w], k)
    BY <2>1, NoUnpark
  <2> QED BY <2>1, <2>2 DEF ConfirmOk
<1>6. ASSUME NEW w \in Worker, Stores(w) PROVE ConfirmInv'
  <2> SUFFICES ASSUME ConfirmOk PROVE ConfirmOk'
    BY <1>6 DEF Stores, Runs, ConfirmInv, Raw
  <2> DEFINE s == scan[w].ops
             o == Head(s)
  <2>1. /\ \A v \in Worker \ {w} : scan'[v] = scan[v]
        /\ s # <<>> /\ scan[w].stage # "idle" /\ Todo(s) /\ Left(w, Tail(s))
    BY <1>6, TodoOf DEF Stores, Runs, Others
  <2>2. \A k : Unparks(scan[w], k) => o = <<"unpark", k>> \/ Unparks(scan'[w], k)
    BY <2>1, TodoHas DEF Unparks, Left
  <2>3. Item(o)
    BY <1>6, <2>1 DEF Todo, Phases, Stores, StoreWrite, StreamOps
  <2>4. ASSUME NEW k \in DOMAIN pending', pending'[k].seen = 2
        PROVE  /\ k \in DOMAIN pending /\ pending[k].seen = 2
               /\ o # <<"unpark", k>>
    <3>1. CASE o[1] = "park"
      <4>1. PICK p : p = o[2]
        OBVIOUS
      <4>2. PICK q : q = <<p.after.doc.probe, p.change.key>>
        OBVIOUS
      <4>3. pending' = Put(pending, q, p)
        BY <1>6, <3>1, <4>1, <4>2 DEF Stores, StoreWrite
      <4>4. /\ DOMAIN pending' = DOMAIN pending \cup {q} /\ pending'[q] = p
            /\ \A x \in DOMAIN pending : x # q => pending'[x] = pending[x]
        BY <4>3 DEF Put
      <4>5. p.seen = 1
        BY <2>3, <3>1, <4>1 DEF Item
      <4> QED BY <2>4, <3>1, <4>4, <4>5
    <3>2. CASE o[1] = "unpark"
      <4>1. pending' = Restrict(pending, DOMAIN pending \ {o[2]})
        BY <1>6, <3>2 DEF Stores, StoreWrite
      <4>2. /\ DOMAIN pending' = DOMAIN pending \ {o[2]}
            /\ \A x \in DOMAIN pending \ {o[2]} : pending'[x] = pending[x]
        BY <4>1 DEF Restrict
      <4> QED BY <2>4, <4>2
    <3>3. CASE o[1] \notin {"park", "unpark"}
      <4>1. pending' = pending
        BY <1>6, <3>3 DEF Stores, StoreWrite
      <4> QED BY <2>4, <3>3, <4>1
    <3> QED BY <3>1, <3>2, <3>3
  <2> HIDE DEF o
  <2> QED BY <2>1, <2>2, <2>4 DEF ConfirmOk
<1>7. ASSUME NEW w \in Worker, Streams(w) PROVE ConfirmInv'
  <2> SUFFICES ASSUME ConfirmOk PROVE ConfirmOk'
    BY <1>7 DEF Streams, Runs, ConfirmInv, Raw
  <2> DEFINE s == scan[w].ops
  <2>1. /\ \A v \in Worker \ {w} : scan'[v] = scan[v]
        /\ s # <<>> /\ scan[w].stage # "idle" /\ Todo(s) /\ pending' = pending
    BY <1>7, TodoOf DEF Streams, Runs, Others
  <2>2. Head(s)[1] # "unpark" /\ (Rested(w) \/ \E name, a : Moved(w, name, a))
    BY <1>7, StreamIs DEF HeadOp
  <2>3. \A k : Has(s, <<"unpark", k>>) => Has(Tail(s), <<"unpark", k>>)
    BY <2>1, <2>2, TodoHas
  <2>4. \A x : Has(Tail(s), x) => scan'[w].stage # "idle" /\ Has(scan'[w].ops, x)
    <3>1. CASE Rested(w)
      BY <3>1 DEF Rested, Left
    <3>2. CASE \E name, a : Moved(w, name, a)
      BY <3>2, TodoHas DEF Moved
    <3> QED BY <2>2, <3>1, <3>2
  <2>5. \A k : Unparks(scan[w], k) => Unparks(scan'[w], k)
    BY <2>3, <2>4 DEF Unparks
  <2> QED BY <2>1, <2>5 DEF ConfirmOk
<1> QED BY <1>1, <1>2, <1>3, <1>4, <1>5, <1>6, <1>7, Steps

-----------------------------------------------------------------------------
(* The inductive invariant.                                                *)

MonitorInv == ScanShape /\ WindowInv /\ LostInv /\ ConfirmInv

LEMMA InitInv == Init => MonitorInv
<1> SUFFICES ASSUME Init PROVE MonitorInv
  OBVIOUS
<1>1. ScanShape
  <2>1. PendingOk
    BY FS_EmptySet DEF Init, PendingOk, Empty
  <2>2. LatestOk
    <3>1. \A pt \in AllProbes : latest[pt] = NoSnapshot
      BY DEF Init
    <3>2. "raw" \in DOMAIN NoSnapshot /\ RawOk(NoSnapshot.raw)
      BY DEF NoSnapshot, RawOk
    <3> QED BY <3>1, <3>2 DEF Init, LatestOk
  <2>3. RulesOk
    BY ScenariosAreSound, FS_EmptySet DEF Init, RulesOk
  <2>4. DOMAIN scan = Worker /\ \A w \in Worker : ScanOk(scan[w])
    BY DEF Init, ScanOk
  <2> QED BY <2>1, <2>2, <2>3, <2>4 DEF Init, ScanShape, Shape
<1>2. \A w \in Worker : ~Armed(scan[w])
  BY DEF Init, Armed, Idle
<1>3. DOMAIN events = {} /\ DOMAIN pending = {}
  BY DEF Init, Empty
<1> QED BY <1>1, <1>2, <1>3 DEF MonitorInv, WindowInv, AimsOk, AimsApart,
           EventsOk, LostInv, OwedOk, ClaimedOk, ConfirmInv, ConfirmOk, Init

LEMMA StepInv == MonitorInv /\ [Next]_vars => MonitorInv'
BY ShapeStep, WindowStep, LostStep, ConfirmStep DEF MonitorInv

\* The inductive invariant holds in every state.
THEOREM InvariantHolds == Spec => []MonitorInv
BY InitInv, StepInv, PTL DEF Spec

LEMMA QuietIs ==
  ASSUME Quiet, NEW w \in Worker
  PROVE  (\A o : ~Promises(scan[w], o)) /\ \A k : ~Unparks(scan[w], k)
BY NoPromise, NoUnpark DEF Quiet

\* However many scans and rescans of the asset overlap, stop half way or come
\* back, change_events gets one row per fingerprint and dedup window
\* (DedupCheckInsert claims the window before the row is written).
THEOREM OneEvent == Spec => []OneEventPerWindow
<1>1. MonitorInv => OneEventPerWindow
  BY DEF MonitorInv, WindowInv, EventsOk, OneEventPerWindow
<1> QED BY <1>1, InvariantHolds, PTL

\* While nothing fails, what a scan decided to report is in change_events once
\* the workers rest, under its day or, claimed later, under a later one.
THEOREM OwedIsStored == Spec => []NothingLost
<1>1. MonitorInv => NothingLost
  BY QuietIs DEF MonitorInv, LostInv, OwedOk, Stored, NothingLost
<1> QED BY <1>1, InvariantHolds, PTL

\* While nothing fails and no bodies are kept, a parked change whose new state
\* was seen twice in a row does not stay parked once the workers rest
\* (confirmPending).
THEOREM ConfirmedEmitted == Spec => []ConfirmedIsEmitted
<1>1. MonitorInv => ConfirmedIsEmitted
  BY QuietIs DEF MonitorInv, ConfirmInv, ConfirmOk, ConfirmedIsEmitted
<1> QED BY <1>1, InvariantHolds, PTL
=============================================================================
