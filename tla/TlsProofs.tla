------------------------------ MODULE TlsProofs ------------------------------
(***************************************************************************)
(* The TLS service for any sizes of the key store and the pool, any key    *)
(* material, plaintexts and limits, and any number of handshakes and       *)
(* records.                                                                *)
(***************************************************************************)
EXTENDS TlsService, TLAPS, WellFoundedInduction

(* The store: an identifier is in one provisioned slot at most, and there  *)
(* is key material in it.                                                  *)
StoreOK(s) ==
  /\ s = [i \in PskIndex |-> s[i]]
  /\ \A i \in PskIndex :
       /\ s[i].state \in {"Empty", "Provisioned", "Wiped"}
       /\ s[i].state = "Wiped" => s[i].id = ZERO
       /\ s[i].state = "Provisioned" => s[i].material # <<>>
  /\ \A i, j \in PskIndex :
       /\ s[i].state = "Provisioned" /\ s[j].state = "Provisioned"
       /\ s[i].id = s[j].id
       => i = j

KeysOK(d) == d = [key |-> d.key, seq |-> d.seq] /\ d.seq \in Nat
ConnOK(c) ==
  /\ c = [state |-> c.state, side |-> c.side, policy |-> c.policy, suite |-> c.suite,
          psk_id |-> c.psk_id, transcript |-> c.transcript,
          app_write |-> c.app_write, app_read |-> c.app_read]
  /\ c.state \in {"Free", "Connected"}
  /\ KeysOK(c.app_write) /\ KeysOK(c.app_read)

PoolOK ==
  /\ pool = [h \in Conns |-> pool[h]]
  /\ \A h \in Conns : pool[h] = None \/ ConnOK(pool[h])

(* The handshake whose draws a traffic key comes from.                     *)
Draws(k) == k[2][3][1][5]

Connected(h) == pool[h].state = "Connected"
WKey(h) == pool[h].app_write.key
RKey(h) == pool[h].app_read.key
Paired(g, h) == <<g, h>> \in pairs \/ <<h, g>> \in pairs

(* An open connection: its counters are the lengths of what was written    *)
(* and delivered under its keys, which come from a finished handshake.     *)
EndInv ==
  \A h \in Conns : Connected(h) =>
    /\ Draws(WKey(h)) \in 1 .. n /\ Draws(RKey(h)) \in 1 .. n
    /\ WKey(h) # RKey(h)
    /\ pool[h].app_write.seq = Len(Written(WKey(h)))
    /\ pool[h].app_read.seq = Len(Delivered(RKey(h)))
    /\ pool[h].app_write.seq <= SEQ_MAX

(* A key has one writer and one reader, and these are a pair.              *)
KeyInv ==
  \A g, h \in Conns : Connected(g) /\ Connected(h) =>
    /\ WKey(g) = WKey(h) => g = h
    /\ RKey(g) = RKey(h) => g = h
    /\ WKey(g) = RKey(h) => Paired(g, h)

PairInv ==
  /\ pairs \subseteq Conns \X Conns
  /\ \A pr \in pairs :
       /\ Connected(pr[1]) /\ Connected(pr[2])
       /\ WKey(pr[1]) = RKey(pr[2]) /\ WKey(pr[2]) = RKey(pr[1])

Entry == Nat \X Plaintexts

(* The counters under a key are 0, 1, 2 and so on; what was delivered is a *)
(* prefix of what was written.                                             *)
LogInv ==
  /\ \A k \in DOMAIN sealed :
       /\ Draws(k) \in 1 .. n
       /\ sealed[k] \in Seq(Entry)
       /\ \A i \in 1 .. Len(sealed[k]) : sealed[k][i][1] = i - 1
  /\ \A k \in DOMAIN got :
       /\ k \in DOMAIN sealed
       /\ got[k] \in Seq(Entry)
       /\ Len(got[k]) <= Len(sealed[k])
       /\ \A i \in 1 .. Len(got[k]) : got[k][i] = sealed[k][i]

IInv ==
  /\ n \in Nat
  /\ StoreOK(slots)
  /\ PoolOK
  /\ EndInv
  /\ KeyInv
  /\ PairInv
  /\ LogInv
-----------------------------------------------------------------------------
(* The lowest index, which find_provisioned, Fill and alloc_slot look for. *)
LEMMA Least ==
  ASSUME NEW S, S \subseteq Nat, S # {}
  PROVE  \E i \in S : \A j \in S : i <= j
<1>1. \A i, j \in Nat : j < i => <<j, i>> \in OpToRel(<, Nat)
  BY DEF OpToRel
<1>2. \E i \in S : \A j \in S : ~(<<j, i>> \in OpToRel(<, Nat))
  BY NatLessThanWellFounded, WFMin, Zenon
<1>3. \E i \in S : \A j \in S : ~(j < i)
  BY <1>1, <1>2, Zenon
<1> QED
  BY <1>3

LEMMA FirstOf ==
  ASSUME NEW S, S \subseteq Nat
  PROVE  /\ First(S) \subseteq S
         /\ First(S) = {} <=> S = {}
         /\ \A i, j \in First(S) : i = j
<1>1. First(S) \subseteq S
  BY DEF First
<1>2. S # {} => First(S) # {}
  BY Least, Zenon DEF First
<1>3. \A i, j \in First(S) : i = j
  <2> SUFFICES ASSUME NEW i \in First(S), NEW j \in First(S) PROVE i = j
    OBVIOUS
  <2>1. i \in Nat /\ j \in Nat /\ i <= j /\ j <= i
    BY DEF First
  <2> QED
    BY <2>1
<1> QED
  BY <1>1, <1>2, <1>3, Zenon

-----------------------------------------------------------------------------
(* The key store.                                                          *)
LEMMA IndexNat == PskIndex \subseteq Nat
  BY KeystoreAssumption DEF PskIndex

(* An identifier is provisioned iff find_provisioned finds its slot.       *)
LEMMA Found ==
  ASSUME NEW s, StoreOK(s), NEW id, psk_exists(s, id)
  PROVE  psk_hkdf_extract(s, id).res = "Ok"
<1> DEFINE S == {i \in PskIndex : s[i].state = "Provisioned" /\ s[i].id = id}
<1>1. S \subseteq Nat /\ S # {}
  BY IndexNat, Zenon DEF psk_exists
<1>2. find_provisioned(s, id) \subseteq S /\ find_provisioned(s, id) # {}
  BY <1>1, FirstOf, Zenon DEF find_provisioned
<1> DEFINE i == CHOOSE i \in find_provisioned(s, id) : TRUE
<1>3. i \in S
  BY <1>2
<1>4. s[i].material # <<>>
  BY <1>3 DEF StoreOK
<1> QED
  BY <1>2, <1>4 DEF psk_hkdf_extract

LEMMA ProvisionOK ==
  ASSUME NEW s, StoreOK(s), NEW id, NEW material
  PROVE  StoreOK(provision(s, id, material).slots)
<1> DEFINE free == First({i \in PskIndex : s[i].state = "Empty"})
           any == {i \in PskIndex : s[i].state # "Empty" /\ s[i].id = id}
           slot == [state |-> "Provisioned", id |-> id, material |-> material]
           t == [i \in PskIndex |-> IF i \in free THEN slot ELSE s[i]]
<1>1. CASE provision(s, id, material).slots = s
  BY <1>1
<1>2. CASE material # <<>> /\ find_any_with_id(s, id) = {} /\ free # {}
           /\ provision(s, id, material).slots = t
  <2>1. any = {}
    BY <1>2, IndexNat, FirstOf, Zenon DEF find_any_with_id
  <2>2. \A i, j \in free : i = j
    BY IndexNat, FirstOf, Zenon
  <2>3. \A i \in PskIndex : s[i].state = "Provisioned" => s[i].id # id
    BY <2>1
  <2> HIDE DEF free
  <2>4. \A i \in PskIndex : t[i] = slot \/ t[i] = s[i]
    OBVIOUS
  <2>5. \A i, j \in PskIndex : t[i].state = "Provisioned" /\ t[j].state = "Provisioned"
                               /\ t[i].id = t[j].id => i = j
    <3> SUFFICES ASSUME NEW i \in PskIndex, NEW j \in PskIndex,
                        t[i].state = "Provisioned", t[j].state = "Provisioned",
                        t[i].id = t[j].id
                 PROVE  i = j
      OBVIOUS
    <3>1. CASE i \in free /\ j \in free
      BY <3>1, <2>2
    <3>2. CASE i \in free /\ j \notin free
      BY <3>2, <2>3
    <3>3. CASE i \notin free /\ j \in free
      BY <3>3, <2>3
    <3>4. CASE i \notin free /\ j \notin free
      BY <3>4 DEF StoreOK
    <3> QED
      BY <3>1, <3>2, <3>3, <3>4
  <2>6. \A i \in PskIndex :
          /\ t[i].state \in {"Empty", "Provisioned", "Wiped"}
          /\ t[i].state = "Wiped" => t[i].id = ZERO
          /\ t[i].state = "Provisioned" => t[i].material # <<>>
    BY <1>2, <2>4 DEF StoreOK
  <2>7. StoreOK(t)
    BY <2>5, <2>6 DEF StoreOK
  <2> QED
    BY <1>2, <2>7
<1> QED
  BY <1>1, <1>2, Zenon DEF provision, Fill

LEMMA DestroyOK ==
  ASSUME NEW s, StoreOK(s), NEW id
  PROVE  /\ StoreOK(psk_destroy(s, id))
         /\ id # ZERO => ~psk_exists(psk_destroy(s, id), id)
<1> DEFINE any == {i \in PskIndex : s[i].state # "Empty" /\ s[i].id = id}
           t == psk_destroy(s, id)
<1>1. /\ find_any_with_id(s, id) \subseteq any
      /\ find_any_with_id(s, id) = {} <=> any = {}
  BY IndexNat, FirstOf, Zenon DEF find_any_with_id
<1>2. /\ t = [i \in PskIndex |-> t[i]]
      /\ \A i \in PskIndex : t[i] = IF i \in find_any_with_id(s, id) THEN PskSlotWiped ELSE s[i]
  BY DEF psk_destroy
<1>3. StoreOK(t)
  BY <1>2 DEF StoreOK, PskSlotWiped
<1>4. ASSUME id # ZERO, NEW i \in PskIndex, t[i].state = "Provisioned", t[i].id = id
      PROVE  FALSE
  <2>1. i \in any /\ i \notin find_any_with_id(s, id) /\ s[i].state = "Provisioned"
    BY <1>2, <1>4 DEF PskSlotWiped
  <2>2. PICK j \in any : j \in find_any_with_id(s, id)
    BY <1>1, <2>1
  <2>3. s[j].state = "Provisioned"
    BY <2>2, <1>4 DEF StoreOK
  <2>4. i = j
    BY <2>1, <2>2, <2>3 DEF StoreOK
  <2> QED
    BY <2>1, <2>2, <2>4
<1> QED
  BY <1>3, <1>4 DEF psk_exists

LEMMA WipeOK ==
  ASSUME NEW s
  PROVE  StoreOK(wipe_all(s))
  BY DEF StoreOK, wipe_all, PskSlotWiped
-----------------------------------------------------------------------------
(* The handshake.                                                          *)
Conn(state, side, policy, suite, id, transcript, write, read) ==
  [state |-> state, side |-> side, policy |-> policy, suite |-> suite,
   psk_id |-> id, transcript |-> transcript, app_write |-> write, app_read |-> read]

(* Setting a field of a connection, one at a time.                         *)
LEMMA Set_state ==
  ASSUME NEW a, NEW b, NEW c, NEW d, NEW e, NEW f, NEW g, NEW h, NEW x,
         NEW r, r = Conn(a, b, c, d, e, f, g, h)
  PROVE  [r EXCEPT !.state = x] = Conn(x, b, c, d, e, f, g, h)
  BY DEF Conn

LEMMA Set_side ==
  ASSUME NEW a, NEW b, NEW c, NEW d, NEW e, NEW f, NEW g, NEW h, NEW x,
         NEW r, r = Conn(a, b, c, d, e, f, g, h)
  PROVE  [r EXCEPT !.side = x] = Conn(a, x, c, d, e, f, g, h)
  BY DEF Conn

LEMMA Set_policy ==
  ASSUME NEW a, NEW b, NEW c, NEW d, NEW e, NEW f, NEW g, NEW h, NEW x,
         NEW r, r = Conn(a, b, c, d, e, f, g, h)
  PROVE  [r EXCEPT !.policy = x] = Conn(a, b, x, d, e, f, g, h)
  BY DEF Conn

LEMMA Set_suite ==
  ASSUME NEW a, NEW b, NEW c, NEW d, NEW e, NEW f, NEW g, NEW h, NEW x,
         NEW r, r = Conn(a, b, c, d, e, f, g, h)
  PROVE  [r EXCEPT !.suite = x] = Conn(a, b, c, x, e, f, g, h)
  BY DEF Conn

LEMMA Set_psk_id ==
  ASSUME NEW a, NEW b, NEW c, NEW d, NEW e, NEW f, NEW g, NEW h, NEW x,
         NEW r, r = Conn(a, b, c, d, e, f, g, h)
  PROVE  [r EXCEPT !.psk_id = x] = Conn(a, b, c, d, x, f, g, h)
  BY DEF Conn

LEMMA Set_transcript ==
  ASSUME NEW a, NEW b, NEW c, NEW d, NEW e, NEW f, NEW g, NEW h, NEW x,
         NEW r, r = Conn(a, b, c, d, e, f, g, h)
  PROVE  [r EXCEPT !.transcript = x] = Conn(a, b, c, d, e, x, g, h)
  BY DEF Conn

LEMMA Set_app_write ==
  ASSUME NEW a, NEW b, NEW c, NEW d, NEW e, NEW f, NEW g, NEW h, NEW x,
         NEW r, r = Conn(a, b, c, d, e, f, g, h)
  PROVE  [r EXCEPT !.app_write = x] = Conn(a, b, c, d, e, f, x, h)
  BY DEF Conn

LEMMA Set_app_read ==
  ASSUME NEW a, NEW b, NEW c, NEW d, NEW e, NEW f, NEW g, NEW h, NEW x,
         NEW r, r = Conn(a, b, c, d, e, f, g, h)
  PROVE  [r EXCEPT !.app_read = x] = Conn(a, b, c, d, e, f, g, x)
  BY DEF Conn

LEMMA HandshakingIs ==
  ASSUME NEW side, NEW policy, NEW suite, NEW id
  PROVE  Handshaking(side, policy, suite, id)
           = Conn("Handshaking", side, policy, suite, id, 0,
                  DirectionalKeysEmpty, DirectionalKeysEmpty)
<1> DEFINE none == DirectionalKeysEmpty
           r1 == [TlsConnectionEmpty EXCEPT !.state = "Handshaking"]
           r2 == [r1 EXCEPT !.side = side]
           r3 == [r2 EXCEPT !.policy = policy]
           r4 == [r3 EXCEPT !.suite = suite]
           r5 == [r4 EXCEPT !.psk_id = id]
<1> HIDE DEF r1, r2, r3, r4, r5, none
<1>1. r1 = Conn("Handshaking", "Client", "Hybrid", "Aes256GcmSha256", ZERO, 0, none, none)
  <2>1. TlsConnectionEmpty
          = Conn("Free", "Client", "Hybrid", "Aes256GcmSha256", ZERO, 0, none, none)
    BY DEF TlsConnectionEmpty, Conn, none
  <2> QED
    BY <2>1, Set_state DEF r1
<1>2. r2 = Conn("Handshaking", side, "Hybrid", "Aes256GcmSha256", ZERO, 0, none, none)
  BY <1>1, Set_side DEF r2
<1>3. r3 = Conn("Handshaking", side, policy, "Aes256GcmSha256", ZERO, 0, none, none)
  BY <1>2, Set_policy DEF r3
<1>4. r4 = Conn("Handshaking", side, policy, suite, ZERO, 0, none, none)
  BY <1>3, Set_suite DEF r4
<1>5. r5 = Conn("Handshaking", side, policy, suite, id, 0, none, none)
  BY <1>4, Set_psk_id DEF r5
<1> QED
  BY <1>5, Zenon DEF Handshaking, r1, r2, r3, r4, r5, none

(* What an end of a finished handshake is.                                 *)
Installed(c, t, w, r) ==
  [c EXCEPT !.state = "Connected", !.transcript = t, !.app_write = w, !.app_read = r]

LEMMA InstalledIs ==
  ASSUME NEW side, NEW policy, NEW suite, NEW id, NEW t, NEW w, NEW r
  PROVE  Installed(Handshaking(side, policy, suite, id), t, w, r)
           = Conn("Connected", side, policy, suite, id, t, w, r)
<1> DEFINE c == Handshaking(side, policy, suite, id)
           none == DirectionalKeysEmpty
           r1 == [c EXCEPT !.state = "Connected"]
           r2 == [r1 EXCEPT !.transcript = t]
           r3 == [r2 EXCEPT !.app_write = w]
           r4 == [r3 EXCEPT !.app_read = r]
<1> HIDE DEF c, r1, r2, r3, r4, none
<1>1. c = Conn("Handshaking", side, policy, suite, id, 0, none, none)
  BY HandshakingIs DEF c, none
<1>2. r1 = Conn("Connected", side, policy, suite, id, 0, none, none)
  BY <1>1, Set_state DEF r1
<1>3. r2 = Conn("Connected", side, policy, suite, id, t, none, none)
  BY <1>2, Set_transcript DEF r2
<1>4. r3 = Conn("Connected", side, policy, suite, id, t, w, none)
  BY <1>3, Set_app_write DEF r3
<1>5. r4 = Conn("Connected", side, policy, suite, id, t, w, r)
  BY <1>4, Set_app_read DEF r4
<1> QED
  BY <1>5, Zenon DEF Installed, c, r1, r2, r3, r4

(* The transcript: two hellos and the two Finished messages.               *)
LEMMA Transcript ==
  ASSUME NEW a, NEW b, NEW x, NEW y
  PROVE  /\ Append(Append(<<a, b>>, x), y)[1] = a
         /\ Len(Append(Append(<<a, b>>, x), y)) = 4
<1> DEFINE S == {a, b, x, y}
<1>1. <<a, b>> \in Seq(S) /\ x \in S /\ y \in S
  OBVIOUS
<1>2. Append(<<a, b>>, x) \in Seq(S) /\ Len(Append(<<a, b>>, x)) = 3
      /\ Append(<<a, b>>, x)[1] = a
  BY <1>1
<1> HIDE DEF S
<1> QED
  BY <1>1, <1>2

AppKey(label, handshake, transcript) == <<"key", <<label, handshake, transcript>>>>

(* The two ends of an Exchange hold the same two keys, crossed.            *)
Ends(r, policy, suite, id, g) ==
  \E k, l :
    /\ r.c = Conn("Connected", "Client", policy, suite, id, 4,
                  [key |-> k, seq |-> 0], [key |-> l, seq |-> 0])
    /\ r.s = Conn("Connected", "Server", policy, suite, id, 4,
                  [key |-> l, seq |-> 0], [key |-> k, seq |-> 0])
    /\ k # l /\ Draws(k) = g /\ Draws(l) = g

LEMMA ExchangeEnds ==
  ASSUME NEW policy, NEW suite, NEW id, NEW early, NEW g
  PROVE  LET r == Exchange(Handshaking("Client", policy, suite, id),
                           Handshaking("Server", policy, suite, id), early, early, g)
         IN  r.res = "Ok" /\ Ends(r, policy, suite, id, g)
<1> DEFINE c == Handshaking("Client", policy, suite, id)
           s == Handshaking("Server", policy, suite, id)
           CH == ClientHello(policy, suite, id, g)
           h2 == <<CH, ServerHello(suite, g)>>
           t == Append(Append(h2, <<"SF">>), <<"CF">>)
           hs == <<"hs", early, SharedSecret(policy, g)>>
           k == AppKey("c ap traffic", hs, t)
           l == AppKey("s ap traffic", hs, t)
           app == derive_master_and_app_secrets(hs, t)
           ends == Install(c, s, app, app, t)
           r == Exchange(c, s, early, early, g)
<1>1. c.policy = policy /\ c.suite = suite /\ c.psk_id = id
  BY HandshakingIs DEF Conn
<1>2. r = [res |-> "Ok", c |-> ends.c, s |-> ends.s]
  <2> HIDE DEF ends, c, s
  <2> QED
    BY <1>1 DEF Exchange, derive_handshake_secrets, ends
<1>3. t[1] = CH /\ Len(t) = 4
  BY Transcript
<1>4. derive_traffic_keys(app.client) = [key |-> k, seq |-> 0]
      /\ derive_traffic_keys(app.server) = [key |-> l, seq |-> 0]
  BY DEF derive_traffic_keys, derive_master_and_app_secrets, AppKey
<1> HIDE DEF t, hs
<1>5. ends.c = Conn("Connected", "Client", policy, suite, id, 4,
                    [key |-> k, seq |-> 0], [key |-> l, seq |-> 0])
      /\ ends.s = Conn("Connected", "Server", policy, suite, id, 4,
                       [key |-> l, seq |-> 0], [key |-> k, seq |-> 0])
  <2>1. ends = [c |-> Installed(c, Len(t), derive_traffic_keys(app.client),
                                derive_traffic_keys(app.server)),
                s |-> Installed(s, Len(t), derive_traffic_keys(app.server),
                                derive_traffic_keys(app.client))]
    BY Zenon DEF Install, Installed
  <2> HIDE DEF ends, app, k, l
  <2> QED
    BY <1>3, <1>4, <2>1, InstalledIs
<1>6. k # l
  BY DEF AppKey
<1>7. Draws(k) = g /\ Draws(l) = g
  BY <1>3 DEF AppKey, Draws, ClientHello
<1> HIDE DEF k, l, ends, r, c, s
<1>8. Ends(r, policy, suite, id, g)
  BY <1>2, <1>5, <1>6, <1>7 DEF Ends
<1> QED
  BY <1>2, <1>8 DEF r, c, s

(* run_loopback's handshake succeeds iff the PSK is provisioned and no     *)
(* draw fails.                                                             *)
LEMMA HandshakeResult ==
  ASSUME NEW st, StoreOK(st), NEW id, NEW policy, NEW suite, NEW g,
         NEW draws \in {"ok", "early", "late"}
  PROVE  LET r == do_handshake(st, Handshaking("Client", policy, suite, id),
                               Handshaking("Server", policy, suite, id), draws, g)
         IN  /\ r.res # "PoolFull"
             /\ r.res = "Ok" <=> psk_exists(st, id) /\ draws = "ok"
             /\ r.res = "Ok" => Ends(r, policy, suite, id, g)
<1> DEFINE c == Handshaking("Client", policy, suite, id)
           s == Handshaking("Server", policy, suite, id)
           prk == psk_hkdf_extract(st, id)
           x == Exchange(c, s, prk.prk, prk.prk, g)
           r == do_handshake(st, c, s, draws, g)
<1>1. c.psk_id = id
  BY HandshakingIs DEF Conn
<1>2. x.res = "Ok" /\ Ends(x, policy, suite, id, g)
  BY ExchangeEnds
<1>3. psk_exists(st, id) => prk.res = "Ok"
  BY Found
<1>4. psk_exists(st, id) /\ draws = "ok" => r = x
  <2> HIDE DEF c, s
  <2> QED
    BY <1>1, <1>3 DEF do_handshake
<1>5. ~(psk_exists(st, id) /\ draws = "ok") => r.res \in {"HsmFailure", "UnknownPsk"}
  <2> HIDE DEF c, s
  <2> QED
    BY <1>1, <1>3 DEF do_handshake
<1> HIDE DEF r, x, c, s
<1>6. /\ r.res # "PoolFull"
      /\ r.res = "Ok" <=> psk_exists(st, id) /\ draws = "ok"
      /\ r.res = "Ok" => Ends(r, policy, suite, id, g)
  BY <1>2, <1>4, <1>5
<1> QED
  BY <1>6 DEF r, c, s
-----------------------------------------------------------------------------
(* The slots run_loopback takes.                                           *)
LEMMA NotNone == \A c : ConnOK(c) => c # None
  BY DEF ConnOK, None

LEMMA EmptyNotNone == TlsConnectionEmpty # None
<1>1. TlsConnectionEmpty.state # None.state
  BY DEF TlsConnectionEmpty, None
<1> QED
  BY <1>1

LEMMA ConnsNat == Conns \subseteq Nat
  BY TlsServiceAssumption DEF Conns

LEMMA FirstSlot ==
  ASSUME NEW p
  PROVE  /\ alloc_slot(p) \subseteq {h \in Conns : p[h] = None}
         /\ alloc_slot(p) = {} <=> ~\E h \in Conns : p[h] = None
<1> DEFINE S == {h \in Conns : p[h] = None}
<1>1. S \subseteq Nat
  BY ConnsNat, Zenon
<1>2. S = {} <=> ~\E h \in Conns : p[h] = None
  OBVIOUS
<1> HIDE DEF S
<1>3. First(S) \subseteq S /\ (First(S) = {} <=> S = {})
  BY <1>1, FirstOf, Zenon
<1> QED
  BY <1>2, <1>3 DEF alloc_slot, S

LEMMA SecondSlot ==
  ASSUME PoolOK, NEW c \in alloc_slot(pool)
  PROVE  LET q == alloc_slot([pool EXCEPT ![c] = TlsConnectionEmpty]) IN
         /\ c \in Conns /\ pool[c] = None
         /\ \A s \in q : s \in Conns /\ s # c /\ pool[s] = None
         /\ q = {} <=> \A h \in Conns : pool[h] = None => h = c
<1> DEFINE p == [pool EXCEPT ![c] = TlsConnectionEmpty]
           q == alloc_slot(p)
<1>1. c \in Conns /\ pool[c] = None
  BY FirstSlot
<1>2. \A h \in Conns : p[h] = IF h = c THEN TlsConnectionEmpty ELSE pool[h]
  BY <1>1 DEF PoolOK
<1>3. q \subseteq {h \in Conns : p[h] = None} /\ (q = {} <=> ~\E h \in Conns : p[h] = None)
  BY FirstSlot, Zenon
<1> HIDE DEF q, p
<1>4. /\ \A s \in q : s \in Conns /\ s # c /\ pool[s] = None
      /\ q = {} <=> \A h \in Conns : pool[h] = None => h = c
  BY <1>2, <1>3, EmptyNotNone
<1> QED
  BY <1>1, <1>4, Zenon DEF q, p
-----------------------------------------------------------------------------
(* Steps of the key store.                                                 *)
LEMMA StoreStep ==
  ASSUME IInv, StoreOK(slots'), UNCHANGED <<pool, n, pairs, sealed, got>>
  PROVE  IInv'
<1>1. PoolOK' /\ EndInv'
  BY DEF IInv, PoolOK, EndInv, Connected, WKey, RKey, Written, Delivered
<1>2. KeyInv' /\ PairInv'
  BY DEF IInv, KeyInv, PairInv, Connected, WKey, RKey, Paired
<1>3. LogInv'
  BY DEF IInv, LogInv
<1> QED
  BY <1>1, <1>2, <1>3 DEF IInv

(* Steps of the pool that open no connection: those that stay open are     *)
(* untouched, and a pair goes when an end of it does.                      *)
LEMMA ClosingStep ==
  ASSUME IInv, PoolOK', UNCHANGED <<slots, n, sealed, got>>,
         \A h \in Conns : Connected(h)' => pool'[h] = pool[h],
         pairs' \subseteq pairs,
         \A pr \in pairs' : Connected(pr[1])' /\ Connected(pr[2])',
         \A pr \in pairs : Connected(pr[1])' /\ Connected(pr[2])' => pr \in pairs'
  PROVE  IInv'
<1>1. \A h \in Conns : Connected(h)' =>
        /\ Connected(h) /\ WKey(h)' = WKey(h) /\ RKey(h)' = RKey(h)
        /\ pool'[h] = pool[h]
  BY DEF Connected, WKey, RKey
<1>2. EndInv'
  BY <1>1 DEF IInv, EndInv, Written, Delivered
<1>3. KeyInv'
  <2> SUFFICES ASSUME NEW g \in Conns, NEW h \in Conns, Connected(g)', Connected(h)'
               PROVE  /\ WKey(g)' = WKey(h)' => g = h
                      /\ RKey(g)' = RKey(h)' => g = h
                      /\ WKey(g)' = RKey(h)' => Paired(g, h)'
    BY DEF KeyInv
  <2>1. /\ WKey(g) = WKey(h) => g = h
        /\ RKey(g) = RKey(h) => g = h
        /\ WKey(g) = RKey(h) => Paired(g, h)
    BY <1>1 DEF IInv, KeyInv
  <2>2. Paired(g, h) => Paired(g, h)'
    BY DEF Paired
  <2> QED
    BY <1>1, <2>1, <2>2
<1>4. PairInv'
  <2> SUFFICES ASSUME NEW pr \in pairs'
               PROVE  /\ pr \in Conns \X Conns
                      /\ Connected(pr[1])' /\ Connected(pr[2])'
                      /\ WKey(pr[1])' = RKey(pr[2])' /\ WKey(pr[2])' = RKey(pr[1])'
    BY DEF PairInv
  <2>1. /\ pr \in Conns \X Conns
        /\ WKey(pr[1]) = RKey(pr[2]) /\ WKey(pr[2]) = RKey(pr[1])
    BY DEF IInv, PairInv
  <2> QED
    BY <1>1, <2>1
<1>5. LogInv'
  BY DEF IInv, LogInv
<1> QED
  BY <1>2, <1>3, <1>4, <1>5 DEF IInv

(* The two ends a handshake leaves, with the keys k and l of the two       *)
(* directions.                                                             *)
IsEnd(c, suite, k, l) ==
  /\ ConnOK(c)
  /\ c.state = "Connected" /\ c.transcript = 4 /\ c.suite = suite
  /\ c.app_write = [key |-> k, seq |-> 0] /\ c.app_read = [key |-> l, seq |-> 0]
  /\ c.app_write.key = k /\ c.app_write.seq = 0
  /\ c.app_read.key = l /\ c.app_read.seq = 0

EndsOf(r, suite, g, k, l) ==
  /\ IsEnd(r.c, suite, k, l) /\ IsEnd(r.s, suite, l, k)
  /\ k # l /\ Draws(k) = g /\ Draws(l) = g

LEMMA EndIs ==
  ASSUME NEW c, NEW side, NEW policy, NEW suite, NEW id, NEW k, NEW l,
         c = Conn("Connected", side, policy, suite, id, 4,
                  [key |-> k, seq |-> 0], [key |-> l, seq |-> 0])
  PROVE  IsEnd(c, suite, k, l)
<1>1. ConnOK(c)
  BY DEF ConnOK, Conn, KeysOK
<1> QED
  BY <1>1 DEF IsEnd, Conn

LEMMA EndsAre ==
  ASSUME NEW r, NEW policy, NEW suite, NEW id, NEW g, Ends(r, policy, suite, id, g)
  PROVE  \E k, l : EndsOf(r, suite, g, k, l)
<1>1. PICK k, l :
        /\ r.c = Conn("Connected", "Client", policy, suite, id, 4,
                      [key |-> k, seq |-> 0], [key |-> l, seq |-> 0])
        /\ r.s = Conn("Connected", "Server", policy, suite, id, 4,
                      [key |-> l, seq |-> 0], [key |-> k, seq |-> 0])
        /\ k # l /\ Draws(k) = g /\ Draws(l) = g
  BY Zenon DEF Ends
<1>2. IsEnd(r.c, suite, k, l) /\ IsEnd(r.s, suite, l, k)
  BY <1>1, EndIs, Zenon
<1> QED
  BY <1>1, <1>2, Zenon DEF EndsOf

(* Two connections put into the pool.                                      *)
TwoSet(c, x, s, y) ==
  /\ PoolOK'
  /\ pool'[s] = y
  /\ c # s => pool'[c] = x
  /\ \A h \in Conns : h # c /\ h # s => pool'[h] = pool[h]

LEMMA TwoSlots ==
  ASSUME IInv, NEW c \in Conns, NEW s \in Conns,
         NEW x, x = None \/ ConnOK(x), NEW y, y = None \/ ConnOK(y),
         pool' = [pool EXCEPT ![c] = x, ![s] = y]
  PROVE  TwoSet(c, x, s, y)
<1>1. pool = [h \in Conns |-> pool[h]] /\ \A h \in Conns : pool[h] = None \/ ConnOK(pool[h])
  BY Zenon DEF IInv, PoolOK
<1>2. /\ pool' = [h \in Conns |-> pool'[h]]
      /\ \A h \in Conns : pool'[h] = IF h = s THEN y ELSE IF h = c THEN x ELSE pool[h]
  BY <1>1, Zenon
<1>3. PoolOK'
  BY <1>1, <1>2, Zenon DEF PoolOK
<1> QED
  BY <1>2, <1>3, Zenon DEF TwoSet

(* A key of the next handshake is in no connection and in no history.      *)
NewKey(k) ==
  /\ k \notin DOMAIN sealed /\ k \notin DOMAIN got
  /\ \A h \in Conns : Connected(h) => WKey(h) # k /\ RKey(h) # k

LEMMA KeyIsNew ==
  ASSUME IInv, NEW k, Draws(k) = n + 1
  PROVE  NewKey(k)
<1>1. /\ n \in Nat
      /\ \A x \in DOMAIN sealed : Draws(x) \in 1 .. n
      /\ \A x \in DOMAIN got : x \in DOMAIN sealed
      /\ \A h \in Conns : Connected(h) =>
           Draws(WKey(h)) \in 1 .. n /\ Draws(RKey(h)) \in 1 .. n
  BY Zenon DEF IInv, EndInv, LogInv
<1>2. Draws(k) \notin 1 .. n
  BY <1>1
<1> QED
  BY <1>1, <1>2, Zenon DEF NewKey

(* A handshake that succeeds: its keys are new, so nothing was written or  *)
(* delivered under them and no other connection has them.                  *)
LEMMA OpeningStep ==
  ASSUME IInv, NEW c \in Conns, NEW s \in Conns, c # s, pool[c] = None, pool[s] = None,
         NEW r, NEW policy, NEW suite, NEW id, Ends(r, policy, suite, id, n + 1),
         pool' = [pool EXCEPT ![c] = r.c, ![s] = r.s], n' = n + 1,
         pairs' = pairs \cup {<<c, s>>}, UNCHANGED <<slots, sealed, got>>
  PROVE  IInv'
<1>1. PICK k, l : EndsOf(r, suite, n + 1, k, l)
  BY EndsAre, Zenon
<1>2. IsEnd(r.c, suite, k, l) /\ IsEnd(r.s, suite, l, k)
  BY <1>1, Zenon DEF EndsOf
<1>3. TwoSet(c, r.c, s, r.s)
  <2>1. ConnOK(r.c) /\ ConnOK(r.s)
    BY <1>2, Zenon DEF IsEnd
  <2> QED
    BY <2>1, TwoSlots, Zenon
<1>4. PoolOK'
  BY <1>3, Zenon DEF TwoSet
<1>5. /\ Connected(c)' /\ WKey(c)' = k /\ RKey(c)' = l
      /\ Connected(s)' /\ WKey(s)' = l /\ RKey(s)' = k
      /\ pool'[c].app_write.seq = 0 /\ pool'[c].app_read.seq = 0
      /\ pool'[s].app_write.seq = 0 /\ pool'[s].app_read.seq = 0
  <2>1. pool'[c] = r.c /\ pool'[s] = r.s
    BY <1>3, Zenon DEF TwoSet
  <2> QED
    BY <1>2, <2>1, Zenon DEF IsEnd, Connected, WKey, RKey
<1>6. \A h \in Conns : h # c /\ h # s =>
        /\ Connected(h)' <=> Connected(h)
        /\ WKey(h)' = WKey(h) /\ RKey(h)' = RKey(h) /\ pool'[h] = pool[h]
  BY <1>3, Zenon DEF TwoSet, Connected, WKey, RKey
<1>7. ~Connected(c) /\ ~Connected(s)
  BY DEF Connected, None
<1>8. NewKey(k) /\ NewKey(l)
  BY <1>1, KeyIsNew, Zenon DEF EndsOf
<1>9. \A h \in Conns : Connected(h) => WKey(h) \notin {k, l} /\ RKey(h) \notin {k, l}
  BY <1>8, Zenon DEF NewKey
<1>10. EndInv'
  <2> SUFFICES ASSUME NEW h \in Conns, Connected(h)'
               PROVE  /\ Draws(WKey(h))' \in 1 .. n' /\ Draws(RKey(h))' \in 1 .. n'
                      /\ WKey(h)' # RKey(h)'
                      /\ pool'[h].app_write.seq = Len(Written(WKey(h)))'
                      /\ pool'[h].app_read.seq = Len(Delivered(RKey(h)))'
                      /\ pool'[h].app_write.seq <= SEQ_MAX
    BY Zenon DEF EndInv
  <2>0. n \in Nat
    BY Zenon DEF IInv
  <2>1. CASE h \in {c, s}
    <3>1. PICK a, b : a = WKey(h)' /\ b = RKey(h)'
      BY Zenon
    <3>2. {a, b} = {k, l} /\ a # b /\ NewKey(a) /\ NewKey(b)
          /\ Draws(a) = n + 1 /\ Draws(b) = n + 1
      BY <1>1, <1>5, <1>8, <2>1, <3>1, Zenon DEF EndsOf
    <3>3. Written(WKey(h))' = <<>> /\ Delivered(RKey(h))' = <<>>
      BY <3>1, <3>2, Zenon DEF NewKey, Written, Delivered
    <3>4. pool'[h].app_write.seq = 0 /\ pool'[h].app_read.seq = 0
      BY <1>5, <2>1, Zenon
    <3>5. Len(<<>>) = 0 /\ 0 <= SEQ_MAX
      BY TlsConnAssumption
    <3>6. Draws(a) \in 1 .. n' /\ Draws(b) \in 1 .. n'
      BY <2>0, <3>2
    <3>7. Draws(WKey(h))' = Draws(a) /\ Draws(RKey(h))' = Draws(b)
      BY <3>1, Zenon DEF Draws
    <3> QED
      BY <3>1, <3>2, <3>3, <3>4, <3>5, <3>6, <3>7, Zenon
  <2>2. CASE h # c /\ h # s
    <3>1. /\ Draws(WKey(h)) \in 1 .. n /\ Draws(RKey(h)) \in 1 .. n
          /\ WKey(h) # RKey(h)
          /\ pool[h].app_write.seq = Len(Written(WKey(h)))
          /\ pool[h].app_read.seq = Len(Delivered(RKey(h)))
          /\ pool[h].app_write.seq <= SEQ_MAX
      BY <1>6, <2>2, Zenon DEF IInv, EndInv
    <3>2. WKey(h)' = WKey(h) /\ RKey(h)' = RKey(h) /\ pool'[h] = pool[h]
      BY <1>6, <2>2, Zenon
    <3>3. Written(WKey(h))' = Written(WKey(h)) /\ Delivered(RKey(h))' = Delivered(RKey(h))
      BY <3>2, Zenon DEF Written, Delivered
    <3>4. Draws(WKey(h))' = Draws(WKey(h)) /\ Draws(RKey(h))' = Draws(RKey(h))
      BY <3>2, Zenon DEF Draws
    <3>5. 1 .. n \subseteq 1 .. n'
      BY <2>0
    <3> QED
      BY <3>1, <3>2, <3>3, <3>4, <3>5, Zenon
  <2> QED
    BY <2>1, <2>2, Zenon
<1>11. KeyInv'
  <2> SUFFICES ASSUME NEW g \in Conns, NEW h \in Conns, Connected(g)', Connected(h)'
               PROVE  /\ WKey(g)' = WKey(h)' => g = h
                      /\ RKey(g)' = RKey(h)' => g = h
                      /\ WKey(g)' = RKey(h)' => Paired(g, h)'
    BY DEF KeyInv
  <2>1. Paired(c, s)' /\ Paired(s, c)'
    BY DEF Paired
  <2>2. CASE g \in {c, s} /\ h \in {c, s}
    BY <1>1, <1>5, <2>1, <2>2, Zenon DEF EndsOf
  <2>3. CASE g \in {c, s} /\ h \notin {c, s}
    BY <1>5, <1>6, <1>9, <2>3
  <2>4. CASE g \notin {c, s} /\ h \in {c, s}
    BY <1>5, <1>6, <1>9, <2>4
  <2>5. CASE g \notin {c, s} /\ h \notin {c, s}
    <3>1. Paired(g, h) => Paired(g, h)'
      BY DEF Paired
    <3> QED
      BY <1>6, <2>5, <3>1 DEF IInv, KeyInv
  <2> QED
    BY <2>2, <2>3, <2>4, <2>5
<1>12. PairInv'
  <2> SUFFICES ASSUME NEW pr \in pairs'
               PROVE  /\ pr \in Conns \X Conns
                      /\ Connected(pr[1])' /\ Connected(pr[2])'
                      /\ WKey(pr[1])' = RKey(pr[2])' /\ WKey(pr[2])' = RKey(pr[1])'
    BY DEF PairInv
  <2>1. CASE pr = <<c, s>>
    BY <1>5, <2>1
  <2>2. CASE pr \in pairs
    <3>1. /\ pr \in Conns \X Conns
          /\ Connected(pr[1]) /\ Connected(pr[2])
          /\ WKey(pr[1]) = RKey(pr[2]) /\ WKey(pr[2]) = RKey(pr[1])
      BY <2>2 DEF IInv, PairInv
    <3> QED
      BY <1>6, <1>7, <3>1
  <2> QED
    BY <2>1, <2>2
<1>13. LogInv'
  BY DEF IInv, LogInv
<1> QED
  BY <1>4, <1>10, <1>11, <1>12, <1>13 DEF IInv
-----------------------------------------------------------------------------
(* Records.                                                                *)
At(f, k) == IF k \in DOMAIN f THEN f[k] ELSE <<>>

(* N is f with e appended to the sequence of k.                            *)
Noted(S, f, k, e, N) ==
  /\ DOMAIN N = DOMAIN f \cup {k}
  /\ \A x : x # k => At(N, x) = At(f, x)
  /\ At(f, k) \in Seq(S)
  /\ N[k] \in Seq(S)
  /\ At(N, k) = N[k]
  /\ Len(N[k]) = Len(At(f, k)) + 1
  /\ \A i \in 1 .. Len(At(f, k)) : N[k][i] = At(f, k)[i]
  /\ N[k][Len(At(f, k)) + 1] = e

LEMMA NoteIs ==
  ASSUME NEW S, NEW f, NEW k, NEW e \in S, \A x \in DOMAIN f : f[x] \in Seq(S),
         NEW N, N = Note(f, k, e)
  PROVE  Noted(S, f, k, e, N)
<1>1. At(f, k) \in Seq(S)
  BY DEF At
<1>2. /\ DOMAIN N = DOMAIN f \cup {k}
      /\ N[k] = Append(At(f, k), e)
  BY DEF Note, At
<1>3. \A x : x # k => At(N, x) = At(f, x)
  BY DEF Note, At
<1>4. At(N, k) = N[k]
  BY <1>2 DEF At
<1> DEFINE q == At(f, k)
<1> HIDE DEF q
<1>5. /\ Append(q, e) \in Seq(S)
      /\ Len(Append(q, e)) = Len(q) + 1
      /\ \A i \in 1 .. Len(q) : Append(q, e)[i] = q[i]
      /\ Append(q, e)[Len(q) + 1] = e
  BY <1>1 DEF q
<1> QED
  BY <1>1, <1>2, <1>3, <1>4, <1>5 DEF q, Noted

(* Whether a record encrypted by `from` is delivered to `to`.              *)
Delivers(from, to, plaintext, out_len) ==
  /\ to \in Conns /\ Connected(to)
  /\ RKey(to) = WKey(from)
  /\ pool[to].app_read.seq = pool[from].app_write.seq
  /\ pool[to].app_read.seq # SEQ_MAX
  /\ Len(plaintext) <= out_len

LEMMA SetWrite ==
  ASSUME NEW c, ConnOK(c), NEW d, KeysOK(d)
  PROVE  /\ ConnOK([c EXCEPT !.app_write = d])
         /\ [c EXCEPT !.app_write = d].app_write = d
         /\ [c EXCEPT !.app_write = d].app_read = c.app_read
         /\ [c EXCEPT !.app_write = d].state = c.state
         /\ [c EXCEPT !.app_write = d].suite = c.suite
<1>1. [c EXCEPT !.app_write = d]
        = Conn(c.state, c.side, c.policy, c.suite, c.psk_id, c.transcript, d, c.app_read)
  <2>1. c = Conn(c.state, c.side, c.policy, c.suite, c.psk_id, c.transcript,
                 c.app_write, c.app_read)
    BY DEF ConnOK, Conn
  <2> QED
    BY <2>1, Set_app_write
<1> QED
  BY <1>1 DEF Conn, ConnOK

LEMMA SetRead ==
  ASSUME NEW c, ConnOK(c), NEW d, KeysOK(d)
  PROVE  /\ ConnOK([c EXCEPT !.app_read = d])
         /\ [c EXCEPT !.app_read = d].app_read = d
         /\ [c EXCEPT !.app_read = d].app_write = c.app_write
         /\ [c EXCEPT !.app_read = d].state = c.state
<1>1. [c EXCEPT !.app_read = d]
        = Conn(c.state, c.side, c.policy, c.suite, c.psk_id, c.transcript, c.app_write, d)
  <2>1. c = Conn(c.state, c.side, c.policy, c.suite, c.psk_id, c.transcript,
                 c.app_write, c.app_read)
    BY DEF ConnOK, Conn
  <2> QED
    BY <2>1, Set_app_read
<1> QED
  BY <1>1 DEF Conn, ConnOK

LEMMA Counted ==
  ASSUME NEW d, KeysOK(d)
  PROVE  [d EXCEPT !.seq = @ + 1] = [key |-> d.key, seq |-> d.seq + 1]
  BY DEF KeysOK

(* What encrypt_record and decrypt_record return.                          *)
LEMMA Encrypted ==
  ASSUME NEW d, KeysOK(d), NEW suite, NEW plaintext
  PROVE  LET e == encrypt_record(d, suite, plaintext) IN
         /\ e.res = "Ok" <=> ~(Len(plaintext) > MAX_PLAINTEXT_LEN) /\ d.seq # SEQ_MAX
         /\ e.res = "Ok" => /\ e.keys = [key |-> d.key, seq |-> d.seq + 1]
                            /\ e.record = <<d.key, suite, d.seq, plaintext>>
  BY Counted DEF encrypt_record

LEMMA Decrypted ==
  ASSUME NEW d, KeysOK(d), NEW suite, NEW k, NEW seq, NEW plaintext \in Seq(Nat),
         NEW out_len \in Nat
  PROVE  LET x == decrypt_record(d, suite, <<k, suite, seq, plaintext>>, out_len) IN
         /\ x.res = "Ok" <=> /\ d.seq # SEQ_MAX /\ d.key = k /\ d.seq = seq
                             /\ Len(plaintext) <= out_len
         /\ x.keys = IF x.res = "Ok" THEN [key |-> d.key, seq |-> d.seq + 1] ELSE d
<1> DEFINE r == <<k, suite, seq, plaintext>>
<1>1. r[1] = k /\ r[2] = suite /\ r[3] = seq /\ r[4] = plaintext
  OBVIOUS
<1>2. Len(plaintext) \in Nat
  OBVIOUS
<1> HIDE DEF r
<1>3. Opens(d, suite, r) <=> d.key = k /\ d.seq = seq
  BY <1>1 DEF Opens
<1> QED
  BY <1>1, <1>2, <1>3, Counted DEF decrypt_record, r

(* What a record does to a connection: the writer counts one up, and the   *)
(* reader counts one up if the record was delivered.                       *)
Advanced(h, from, to, dl) ==
  /\ Connected(h)' <=> Connected(h)
  /\ Connected(h) =>
       /\ WKey(h)' = WKey(h) /\ RKey(h)' = RKey(h)
       /\ pool'[h].app_write.seq = pool[h].app_write.seq + IF h = from THEN 1 ELSE 0
       /\ pool'[h].app_read.seq = pool[h].app_read.seq + IF h = to /\ dl THEN 1 ELSE 0

(* Between the two halves, with p the pool after the encryption: only the  *)
(* reader's key state changes, and only its count.                         *)
Kept(p, h, to, dl) ==
  /\ pool'[h].state = p[h].state /\ pool'[h].app_write = p[h].app_write
  /\ pool'[h].app_read.key = p[h].app_read.key
  /\ pool'[h].app_read.seq = p[h].app_read.seq + IF h = to /\ dl THEN 1 ELSE 0

(* The encryption: only the writer's connection changes.                   *)
Wrote(p, from, keys) ==
  /\ p = [h \in Conns |-> p[h]]
  /\ p[from].app_write = keys /\ p[from].app_read = pool[from].app_read
  /\ p[from].state = "Connected" /\ p[from].suite = pool[from].suite
  /\ \A h \in Conns : h # from => p[h] = pool[h]
  /\ \A h \in Conns : p[h] = None \/ ConnOK(p[h])

LEMMA Encryption ==
  ASSUME IInv, NEW from \in Conns, pool[from] # None, pool[from].state = "Connected",
         NEW keys, KeysOK(keys), NEW p, p = [pool EXCEPT ![from].app_write = keys]
  PROVE  Wrote(p, from, keys)
<1>1. ConnOK(pool[from])
  BY DEF IInv, PoolOK
<1>2. PICK c : c = [pool[from] EXCEPT !.app_write = keys]
  BY Zenon
<1>3. /\ ConnOK(c) /\ c.app_write = keys /\ c.app_read = pool[from].app_read
      /\ c.state = "Connected" /\ c.suite = pool[from].suite
  BY <1>1, <1>2, SetWrite
<1>4. p = [pool EXCEPT ![from] = c]
  BY <1>2
<1>5. /\ p = [h \in Conns |-> p[h]]
      /\ \A h \in Conns : p[h] = IF h = from THEN c ELSE pool[h]
  BY <1>4 DEF IInv, PoolOK
<1>6. \A h \in Conns : p[h] = None \/ ConnOK(p[h])
  BY <1>3, <1>5 DEF IInv, PoolOK
<1> QED
  BY <1>3, <1>5, <1>6, Zenon DEF Wrote

(* The decryption: only the reader's connection changes.                   *)
LEMMA Decryption ==
  ASSUME NEW p, p = [h \in Conns |-> p[h]], \A h \in Conns : p[h] = None \/ ConnOK(p[h]),
         NEW to \in Conns, ConnOK(p[to]), NEW keys, KeysOK(keys), NEW dl \in BOOLEAN,
         keys.key = p[to].app_read.key,
         keys.seq = p[to].app_read.seq + IF dl THEN 1 ELSE 0,
         pool' = [p EXCEPT ![to].app_read = keys]
  PROVE  PoolOK' /\ \A h \in Conns : p[h] # None => Kept(p, h, to, dl)
<1>1. PICK t : t = [p[to] EXCEPT !.app_read = keys]
  OBVIOUS
<1>2. /\ ConnOK(t) /\ t.app_read = keys /\ t.app_write = p[to].app_write
      /\ t.state = p[to].state
  BY <1>1, SetRead
<1>3. pool' = [p EXCEPT ![to] = t]
  BY <1>1
<1>4. /\ pool' = [h \in Conns |-> pool'[h]]
      /\ \A h \in Conns : pool'[h] = IF h = to THEN t ELSE p[h]
  BY <1>3
<1>5. PoolOK'
  BY <1>2, <1>4 DEF PoolOK
<1>6. ASSUME NEW h \in Conns, p[h] # None
      PROVE  Kept(p, h, to, dl)
  <2>1. p[h].app_read.seq \in Nat
    BY <1>6, Zenon DEF ConnOK, KeysOK
  <2>2. CASE h = to
    BY <1>2, <1>4, <2>2 DEF Kept
  <2>3. CASE h # to
    BY <1>4, <2>1, <2>3 DEF Kept
  <2> QED
    BY <2>2, <2>3
<1> QED
  BY <1>5, <1>6, Zenon

(* The two halves together.                                                *)
LEMMA Advancing ==
  ASSUME IInv, NEW from \in Conns, pool[from] # None, pool[from].state = "Connected",
         NEW to, NEW dl \in BOOLEAN, NEW p,
         p[from] # None, p[from].state = "Connected",
         p[from].app_write.key = WKey(from),
         p[from].app_write.seq = pool[from].app_write.seq + 1,
         p[from].app_read = pool[from].app_read,
         \A h \in Conns : h # from => p[h] = pool[h],
         \A h \in Conns : p[h] # None => Kept(p, h, to, dl),
         \A h \in Conns : p[h] = None => pool'[h] = None
  PROVE  \A h \in Conns : Advanced(h, from, to, dl)
<1> SUFFICES ASSUME NEW h \in Conns PROVE Advanced(h, from, to, dl)
  OBVIOUS
<1>1. CASE p[h] = None
  <2>1. h # from /\ pool[h] = None /\ pool'[h] = None
    BY <1>1
  <2>2. ~Connected(h) /\ ~Connected(h)'
    BY <2>1 DEF Connected, None
  <2> QED
    BY <2>2, Zenon DEF Advanced
<1>2. CASE p[h] # None
  <2>1. Kept(p, h, to, dl)
    BY <1>2
  <2>2. CASE h = from
    BY <2>1, <2>2 DEF Kept, Advanced, Connected, WKey, RKey
  <2>3. CASE h # from
    <3>1. pool[h] # None /\ p[h] = pool[h]
      BY <1>2, <2>3
    <3>2. pool[h].app_write.seq \in Nat
      BY <3>1, Zenon DEF IInv, PoolOK, ConnOK, KeysOK
    <3> QED
      BY <2>1, <2>3, <3>1, <3>2 DEF Kept, Advanced, Connected, WKey, RKey
  <2> QED
    BY <2>2, <2>3
<1> QED
  BY <1>1, <1>2

(* The effect of a record on the pool and on the two histories.            *)
RecordDone(from, to, plaintext, out_len) ==
  LET dl == Delivers(from, to, plaintext, out_len)
      entry == <<pool[from].app_write.seq, plaintext>>
  IN  /\ from \in Conns /\ Connected(from)
      /\ Len(plaintext) <= MAX_PLAINTEXT_LEN
      /\ pool[from].app_write.seq # SEQ_MAX
      /\ PoolOK'
      /\ \A h \in Conns : Advanced(h, from, to, dl)
      /\ sealed' = Note(sealed, WKey(from), entry)
      /\ got' = IF dl THEN Note(got, WKey(from), entry) ELSE got
      /\ \E res : call' = SendCall(res, from, to, plaintext, out_len) /\ (res = "Ok" <=> dl)

(* The values loopback_send_recv goes through: e from the encryption, p    *)
(* the pool after it, d from the decryption if the reader can read.        *)
Unfolds(from, to, plaintext, out_len, e, p, d) ==
  LET open == HasSlot(p, to) /\ p[to].state = "Connected"
  IN  /\ e = encrypt_record(pool[from].app_write, pool[from].suite, plaintext)
      /\ p = [pool EXCEPT ![from].app_write = e.keys]
      /\ open => d = decrypt_record(p[to].app_read, p[from].suite, e.record, out_len)
      /\ ~open => d.res # "Ok"
      /\ HasSlot(pool, from) /\ pool[from].state = "Connected"
      /\ e.res = "Ok"
      /\ pool' = IF open THEN [p EXCEPT ![to].app_read = d.keys] ELSE p
      /\ sealed' = Note(sealed, e.record[1], <<e.record[3], plaintext>>)
      /\ got' = IF d.res # "Ok" THEN got ELSE Note(got, e.record[1], <<e.record[3], plaintext>>)
      /\ call' = SendCall(d.res, from, to, plaintext, out_len)

LEMMA SendUnfolds ==
  ASSUME NEW from, NEW to, NEW plaintext, NEW out_len,
         SendRecord(from, to, plaintext, out_len)
  PROVE  \E e, p, d : Unfolds(from, to, plaintext, out_len, e, p, d)
<1> DEFINE e == encrypt_record(pool[from].app_write, pool[from].suite, plaintext)
           p == [pool EXCEPT ![from].app_write = e.keys]
           open == HasSlot(p, to) /\ p[to].state = "Connected"
           d == IF open THEN decrypt_record(p[to].app_read, p[from].suite, e.record, out_len)
                ELSE [res |-> IF HasSlot(p, to) THEN "UnexpectedState" ELSE "InvalidHandle"]
<1>1. /\ HasSlot(pool, from) /\ pool[from].state = "Connected"
      /\ e.res = "Ok"
      /\ pool' = IF open THEN [p EXCEPT ![to].app_read = d.keys] ELSE p
      /\ sealed' = Note(sealed, e.record[1], <<e.record[3], plaintext>>)
      /\ got' = IF d.res # "Ok" THEN got ELSE Note(got, e.record[1], <<e.record[3], plaintext>>)
      /\ call' = SendCall(d.res, from, to, plaintext, out_len)
  BY Zenon DEF SendRecord
<1> HIDE DEF e, p, open
<1>2. /\ open => d = decrypt_record(p[to].app_read, p[from].suite, e.record, out_len)
      /\ ~open => d.res # "Ok"
  OBVIOUS
<1> HIDE DEF d
<1>3. Unfolds(from, to, plaintext, out_len, e, p, d)
  BY <1>1, <1>2, Zenon DEF Unfolds, e, p, open
<1> QED
  BY <1>3, Zenon

LEMMA RecordEffect ==
  ASSUME IInv, NEW from \in Handles, NEW to \in Handles,
         NEW plaintext \in Plaintexts, NEW out_len \in OutLens,
         SendRecord(from, to, plaintext, out_len)
  PROVE  RecordDone(from, to, plaintext, out_len)
<1>w. PICK w, suite : w = pool[from].app_write /\ suite = pool[from].suite
  BY Zenon
<1>0. PICK e, p, d : Unfolds(from, to, plaintext, out_len, e, p, d)
  BY SendUnfolds, Zenon
<1> DEFINE open == HasSlot(p, to) /\ p[to].state = "Connected"
           dl == Delivers(from, to, plaintext, out_len)
<1>e. e = encrypt_record(w, suite, plaintext)
  BY <1>w, <1>0, Zenon DEF Unfolds
<1>p. p = [pool EXCEPT ![from].app_write = e.keys]
  BY <1>0, Zenon DEF Unfolds
<1>x. open => d = decrypt_record(p[to].app_read, p[from].suite, e.record, out_len)
  BY <1>0, Zenon DEF Unfolds
<1>d. ~open => d.res # "Ok"
  BY <1>0, Zenon DEF Unfolds
<1>1. /\ HasSlot(pool, from) /\ pool[from].state = "Connected"
      /\ e.res = "Ok"
      /\ pool' = IF open THEN [p EXCEPT ![to].app_read = d.keys] ELSE p
      /\ sealed' = Note(sealed, e.record[1], <<e.record[3], plaintext>>)
      /\ got' = IF d.res # "Ok" THEN got ELSE Note(got, e.record[1], <<e.record[3], plaintext>>)
      /\ call' = SendCall(d.res, from, to, plaintext, out_len)
  BY <1>0, Zenon DEF Unfolds
<1> HIDE DEF open, dl
<1>2. /\ plaintext \in Seq(Nat) /\ out_len \in Nat /\ Len(plaintext) \in Nat
      /\ from \in Conns /\ pool[from] # None
  BY <1>1, TlsServiceAssumption DEF HasSlot
<1>3. ConnOK(pool[from]) /\ KeysOK(w)
  BY <1>w, <1>2 DEF IInv, PoolOK, ConnOK
<1>4. /\ Len(plaintext) <= MAX_PLAINTEXT_LEN /\ w.seq # SEQ_MAX
      /\ e.keys = [key |-> w.key, seq |-> w.seq + 1]
      /\ e.record = <<w.key, suite, w.seq, plaintext>>
  BY <1>e, <1>1, <1>2, <1>3, Encrypted, TlsConnAssumption
<1>5. e.record[1] = w.key /\ e.record[3] = w.seq
  BY <1>4
<1>6. KeysOK(e.keys) /\ e.keys.key = w.key /\ e.keys.seq = w.seq + 1
  BY <1>3, <1>4 DEF KeysOK
<1>7. /\ p = [h \in Conns |-> p[h]]
      /\ p[from].app_write = e.keys /\ p[from].app_read = pool[from].app_read
      /\ p[from].state = "Connected" /\ p[from].suite = suite
      /\ \A h \in Conns : h # from => p[h] = pool[h]
      /\ \A h \in Conns : p[h] = None \/ ConnOK(p[h])
  <2>1. Wrote(p, from, e.keys)
    BY <1>p, <1>1, <1>2, <1>6, Encryption, Zenon
  <2> QED
    BY <1>w, <2>1, Zenon DEF Wrote
<1>8. p[from] # None
  BY <1>7 DEF None
<1>9. open <=> to \in Conns /\ Connected(to)
  <2>1. CASE to = from
    BY <1>1, <1>2, <1>7, <1>8, <2>1 DEF open, HasSlot, Connected
  <2>2. CASE to # from
    BY <1>7, <2>2 DEF open, HasSlot, Connected, None
  <2> QED
    BY <2>1, <2>2
<1>10. ASSUME open
       PROVE  /\ to \in Conns /\ ConnOK(p[to]) /\ KeysOK(p[to].app_read) /\ p[to] # None
              /\ d.res = "Ok" <=> dl
              /\ KeysOK(d.keys) /\ d.keys.key = p[to].app_read.key
              /\ d.keys.seq = p[to].app_read.seq + IF dl THEN 1 ELSE 0
  <2>1. /\ to \in Conns /\ Connected(to) /\ p[to] # None
        /\ ConnOK(p[to]) /\ KeysOK(p[to].app_read)
    BY <1>7, <1>9, <1>10 DEF open, HasSlot, ConnOK
  <2>2. p[to].app_read = pool[to].app_read
    BY <1>7, <2>1
  <2>3. /\ d.res = "Ok" <=> /\ p[to].app_read.seq # SEQ_MAX /\ p[to].app_read.key = w.key
                            /\ p[to].app_read.seq = w.seq /\ Len(plaintext) <= out_len
        /\ d.keys = IF d.res = "Ok" THEN [key |-> p[to].app_read.key,
                                          seq |-> p[to].app_read.seq + 1]
                    ELSE p[to].app_read
    BY <1>x, <1>2, <1>4, <1>7, <1>10, <2>1, Decrypted
  <2>4. d.res = "Ok" <=> dl
    BY <1>w, <1>4, <2>1, <2>2, <2>3 DEF Delivers, WKey, RKey, dl
  <2>5. CASE dl
    BY <2>1, <2>3, <2>4, <2>5 DEF KeysOK
  <2>6. CASE ~dl
    BY <2>1, <2>3, <2>4, <2>6 DEF KeysOK
  <2> QED
    BY <2>1, <2>4, <2>5, <2>6
<1>11. ~open => d.res # "Ok" /\ ~dl
  BY <1>d, <1>9 DEF Delivers, dl
<1>12. d.res = "Ok" <=> dl
  BY <1>10, <1>11
<1>13. dl \in BOOLEAN
  BY DEF dl, Delivers
<1>14. PoolOK' /\ \A h \in Conns : p[h] # None => Kept(p, h, to, dl)
  <2>1. CASE open
    <3>1. pool' = [p EXCEPT ![to].app_read = d.keys]
      BY <1>1, <2>1
    <3> QED
      BY <1>7, <1>10, <1>13, <2>1, <3>1, Decryption, Zenon
  <2>2. CASE ~open
    <3>1. pool' = p /\ ~dl
      BY <1>1, <1>11, <2>2
    <3>2. PoolOK'
      BY <1>7, <3>1 DEF PoolOK
    <3>3. ASSUME NEW h \in Conns, p[h] # None
          PROVE  Kept(p, h, to, dl)
      <4>1. p[h].app_read.seq \in Nat
        BY <1>7, <3>3, Zenon DEF ConnOK, KeysOK
      <4> QED
        BY <3>1, <4>1 DEF Kept
    <3> QED
      BY <3>2, <3>3, Zenon
  <2> QED
    BY <2>1, <2>2, Zenon
<1>15. \A h \in Conns : p[h] = None => pool'[h] = None
  <2>1. CASE open
    BY <1>1, <1>7, <1>10, <2>1
  <2>2. CASE ~open
    BY <1>1, <2>2
  <2> QED
    BY <2>1, <2>2, Zenon
<1>16. \A h \in Conns : Advanced(h, from, to, dl)
  <2>1. p[from].app_write.key = WKey(from)
        /\ p[from].app_write.seq = pool[from].app_write.seq + 1
    BY <1>w, <1>6, <1>7 DEF WKey
  <2> QED
    BY <1>1, <1>2, <1>7, <1>8, <1>13, <1>14, <1>15, <2>1, Advancing, Zenon
<1>17. PICK entry : entry = <<w.seq, plaintext>>
  BY Zenon
<1>18. /\ sealed' = Note(sealed, WKey(from), entry)
       /\ got' = IF dl THEN Note(got, WKey(from), entry) ELSE got
  BY <1>w, <1>1, <1>5, <1>12, <1>17 DEF WKey
<1>19. \E res : call' = SendCall(res, from, to, plaintext, out_len) /\ (res = "Ok" <=> dl)
  BY <1>1, <1>12, Zenon
<1>20. Connected(from)
  BY <1>1, Zenon DEF Connected
<1>21. entry = <<pool[from].app_write.seq, plaintext>> /\ pool[from].app_write.seq # SEQ_MAX
  BY <1>w, <1>4, <1>17
<1> QED
  BY <1>2, <1>4, <1>14, <1>16, <1>18, <1>19, <1>20, <1>21, Zenon DEF RecordDone, dl

(* A record keeps the invariant: its key has this one writer, and if it    *)
(* was delivered, its key has this one reader and everything written       *)
(* before under it was delivered too.                                      *)
LEMMA RecordStep ==
  ASSUME IInv, NEW from \in Handles, NEW to \in Handles,
         NEW plaintext \in Plaintexts, NEW out_len \in OutLens,
         SendRecord(from, to, plaintext, out_len)
  PROVE  IInv'
<1> DEFINE dl == Delivers(from, to, plaintext, out_len)
<1>s. PICK seq : seq = pool[from].app_write.seq
  BY Zenon
<1>e. PICK entry : entry = <<seq, plaintext>>
  BY Zenon
<1>0. PICK k : k = WKey(from)
  BY Zenon
<1>r. RecordDone(from, to, plaintext, out_len)
  BY RecordEffect, Zenon
<1>1. /\ from \in Conns /\ Connected(from)
      /\ PoolOK' /\ seq # SEQ_MAX
      /\ sealed' = Note(sealed, k, entry)
      /\ got' = IF dl THEN Note(got, k, entry) ELSE got
  BY <1>s, <1>e, <1>0, <1>r, Zenon DEF RecordDone
<1>2. \A h \in Conns : Advanced(h, from, to, dl)
  BY <1>r, Zenon DEF RecordDone
<1>a. \A h \in Conns :
        /\ Connected(h)' <=> Connected(h)
        /\ Connected(h) => WKey(h)' = WKey(h) /\ RKey(h)' = RKey(h)
  BY <1>2, Zenon DEF Advanced
<1>3. UNCHANGED <<slots, n, pairs>>
  BY Zenon DEF SendRecord
<1>4. /\ Draws(k) \in 1 .. n
      /\ seq = Len(Written(k)) /\ seq \in Nat
  <2>1. pool[from] # None
    BY <1>1 DEF Connected, None
  <2>2. pool[from].app_write.seq \in Nat
    BY <1>1, <2>1, Zenon DEF IInv, PoolOK, ConnOK, KeysOK
  <2> QED
    BY <1>s, <1>0, <1>1, <2>2, Zenon DEF IInv, EndInv
<1>5. entry \in Entry
  BY <1>e, <1>4 DEF Entry
<1>6. \A x : Written(x) = At(sealed, x) /\ Delivered(x) = At(got, x)
             /\ Written(x)' = At(sealed', x) /\ Delivered(x)' = At(got', x)
  BY Zenon DEF Written, Delivered, At
<1>7. dl => to \in Conns /\ Connected(to) /\ RKey(to) = k /\ pool[to].app_read.seq = seq
            /\ Len(Delivered(k)) = seq
  <2>1. dl => to \in Conns /\ Connected(to) /\ RKey(to) = k /\ pool[to].app_read.seq = seq
    BY <1>s, <1>0, Zenon DEF Delivers
  <2> HIDE DEF dl
  <2> QED
    BY <2>1, Zenon DEF IInv, EndInv
<1> HIDE DEF dl
<1>8. /\ DOMAIN sealed' = DOMAIN sealed \cup {k}
      /\ \A x : x # k => Written(x)' = Written(x)
      /\ Written(k) \in Seq(Entry) /\ sealed'[k] \in Seq(Entry)
      /\ Written(k)' = sealed'[k] /\ Len(sealed'[k]) = seq + 1
      /\ \A i \in 1 .. seq : sealed'[k][i] = Written(k)[i]
      /\ sealed'[k][seq + 1] = entry
  <2>1. \A x \in DOMAIN sealed : sealed[x] \in Seq(Entry)
    BY DEF IInv, LogInv
  <2>2. Noted(Entry, sealed, k, entry, sealed')
    BY <1>1, <1>5, <2>1, NoteIs
  <2>3. Len(At(sealed, k)) = seq
    BY <1>4, <1>6
  <2> QED
    BY <1>6, <2>2, <2>3, Zenon DEF Noted
<1>9. ASSUME dl
      PROVE  /\ DOMAIN got' = DOMAIN got \cup {k}
             /\ \A x : x # k => Delivered(x)' = Delivered(x)
             /\ Delivered(k) \in Seq(Entry) /\ got'[k] \in Seq(Entry)
             /\ Delivered(k)' = got'[k] /\ Len(got'[k]) = seq + 1
             /\ \A i \in 1 .. seq : got'[k][i] = Delivered(k)[i]
             /\ got'[k][seq + 1] = entry
  <2>1. \A x \in DOMAIN got : got[x] \in Seq(Entry)
    BY DEF IInv, LogInv
  <2>2. got' = Note(got, k, entry) /\ Len(At(got, k)) = seq
    BY <1>1, <1>6, <1>7, <1>9
  <2>3. Noted(Entry, got, k, entry, got')
    BY <1>5, <2>1, <2>2, NoteIs
  <2> QED
    BY <1>6, <2>2, <2>3, Zenon DEF Noted
<1>10. ~dl => got' = got /\ \A x : Delivered(x)' = Delivered(x)
  BY <1>1, <1>6
<1>11. EndInv'
  <2> SUFFICES ASSUME NEW h \in Conns, Connected(h)'
               PROVE  /\ Draws(WKey(h))' \in 1 .. n' /\ Draws(RKey(h))' \in 1 .. n'
                      /\ WKey(h)' # RKey(h)'
                      /\ pool'[h].app_write.seq = Len(Written(WKey(h)))'
                      /\ pool'[h].app_read.seq = Len(Delivered(RKey(h)))'
                      /\ pool'[h].app_write.seq <= SEQ_MAX
    BY Zenon DEF EndInv
  <2>0. PICK a, b : a = WKey(h) /\ b = RKey(h)
    BY Zenon
  <2>1. /\ Connected(h) /\ WKey(h)' = a /\ RKey(h)' = b
        /\ pool'[h].app_write.seq = pool[h].app_write.seq + IF h = from THEN 1 ELSE 0
        /\ pool'[h].app_read.seq = pool[h].app_read.seq + IF h = to /\ dl THEN 1 ELSE 0
    BY <1>2, <2>0, Zenon DEF Advanced
  <2>2. /\ Draws(a) \in 1 .. n /\ Draws(b) \in 1 .. n /\ a # b
        /\ pool[h].app_write.seq = Len(Written(a))
        /\ pool[h].app_read.seq = Len(Delivered(b))
        /\ pool[h].app_write.seq <= SEQ_MAX
    BY <2>0, <2>1, Zenon DEF IInv, EndInv
  <2>3. /\ h # from => a # k
        /\ h # to /\ dl => b # k
    <3>1. /\ WKey(h) = WKey(from) => h = from
          /\ dl /\ RKey(h) = RKey(to) => h = to
      BY <1>1, <1>7, <2>1, Zenon DEF IInv, KeyInv
    <3> QED
      BY <1>0, <1>7, <2>0, <3>1, Zenon
  <2>4. pool[h].app_write.seq \in Nat /\ pool[h].app_read.seq \in Nat
    <3>1. pool[h] # None
      BY <2>1 DEF Connected, None
    <3> QED
      BY <3>1, Zenon DEF IInv, PoolOK, ConnOK, KeysOK
  <2>5. Draws(WKey(h))' = Draws(a) /\ Draws(RKey(h))' = Draws(b)
        /\ Written(WKey(h))' = At(sealed', a) /\ Delivered(RKey(h))' = At(got', b)
    BY <2>1, Zenon DEF Draws, Written, Delivered, At
  <2>6. pool'[h].app_write.seq = Len(At(sealed', a))
    <3>1. CASE h = from
      <4>1. a = k /\ pool[h].app_write.seq = seq
        BY <1>s, <1>0, <2>0, <3>1, Zenon
      <4>2. At(sealed', k) = sealed'[k] /\ Len(sealed'[k]) = seq + 1
        BY <1>6, <1>8, Zenon
      <4> QED
        BY <2>1, <3>1, <4>1, <4>2
    <3>2. CASE h # from
      <4>1. At(sealed', a) = Written(a)
        BY <1>6, <1>8, <2>3, <3>2, Zenon
      <4> QED
        BY <2>1, <2>2, <2>4, <3>2, <4>1
    <3> QED
      BY <3>1, <3>2, Zenon
  <2>7. pool'[h].app_read.seq = Len(At(got', b))
    <3>1. CASE ~dl
      <4>1. At(got', b) = Delivered(b)
        BY <1>6, <1>10, <3>1, Zenon
      <4> QED
        BY <2>1, <2>2, <2>4, <3>1, <4>1
    <3>2. CASE dl /\ h # to
      <4>1. At(got', b) = Delivered(b)
        BY <1>6, <1>9, <2>3, <3>2, Zenon
      <4> QED
        BY <2>1, <2>2, <2>4, <3>2, <4>1
    <3>3. CASE dl /\ h = to
      <4>1. b = k /\ pool[h].app_read.seq = seq
        BY <1>7, <2>0, <3>3, Zenon
      <4>2. At(got', k) = got'[k] /\ Len(got'[k]) = seq + 1
        BY <1>6, <1>9, <3>3, Zenon
      <4> QED
        BY <2>1, <3>3, <4>1, <4>2
    <3> QED
      BY <3>1, <3>2, <3>3
  <2>8. pool'[h].app_write.seq <= SEQ_MAX
    <3>1. h = from => pool[h].app_write.seq # SEQ_MAX
      BY <1>s, <1>1, Zenon
    <3> QED
      BY <2>1, <2>2, <2>4, <3>1, TlsConnAssumption
  <2> QED
    BY <1>3, <2>1, <2>2, <2>5, <2>6, <2>7, <2>8, Zenon
<1>12. KeyInv'
  <2> SUFFICES ASSUME NEW g \in Conns, NEW h \in Conns, Connected(g)', Connected(h)'
               PROVE  /\ WKey(g)' = WKey(h)' => g = h
                      /\ RKey(g)' = RKey(h)' => g = h
                      /\ WKey(g)' = RKey(h)' => Paired(g, h)'
    BY Zenon DEF KeyInv
  <2>1. /\ WKey(g) = WKey(h) => g = h
        /\ RKey(g) = RKey(h) => g = h
        /\ WKey(g) = RKey(h) => Paired(g, h)
    BY <1>a, Zenon DEF IInv, KeyInv
  <2>2. Paired(g, h)' <=> Paired(g, h)
    BY <1>3, Zenon DEF Paired
  <2> QED
    BY <1>a, <2>1, <2>2, Zenon
<1>13. PairInv'
  <2> SUFFICES ASSUME NEW pr \in pairs'
               PROVE  /\ pr \in Conns \X Conns
                      /\ Connected(pr[1])' /\ Connected(pr[2])'
                      /\ WKey(pr[1])' = RKey(pr[2])' /\ WKey(pr[2])' = RKey(pr[1])'
    BY Zenon DEF PairInv
  <2>1. /\ pr \in Conns \X Conns
        /\ Connected(pr[1]) /\ Connected(pr[2])
        /\ WKey(pr[1]) = RKey(pr[2]) /\ WKey(pr[2]) = RKey(pr[1])
    BY <1>3, Zenon DEF IInv, PairInv
  <2> QED
    BY <1>a, <2>1
<1>14. LogInv'
  <2>1. ASSUME NEW x \in DOMAIN sealed'
        PROVE  /\ Draws(x) \in 1 .. n' /\ sealed'[x] \in Seq(Entry)
               /\ \A i \in 1 .. Len(sealed'[x]) : sealed'[x][i][1] = i - 1
    <3>1. CASE x # k
      <4>1. x \in DOMAIN sealed /\ sealed'[x] = sealed[x]
        BY <1>6, <1>8, <3>1 DEF At
      <4> QED
        BY <1>3, <4>1 DEF IInv, LogInv
    <3>2. CASE x = k
      <4>1. \A i \in 1 .. seq : Written(k)[i][1] = i - 1
        BY <1>4 DEF IInv, LogInv, Written
      <4>2. entry[1] = seq
        BY <1>e
      <4>3. \A i \in 1 .. seq + 1 : sealed'[k][i][1] = i - 1
        <5> SUFFICES ASSUME NEW i \in 1 .. seq + 1 PROVE sealed'[k][i][1] = i - 1
          OBVIOUS
        <5>1. CASE i = seq + 1
          BY <1>4, <1>8, <4>2, <5>1
        <5>2. CASE i # seq + 1
          <6>1. i \in 1 .. seq
            BY <1>4, <5>2
          <6> QED
            BY <1>8, <4>1, <6>1
        <5> QED
          BY <5>1, <5>2
      <4> QED
        BY <1>3, <1>4, <1>8, <3>2, <4>3
    <3> QED
      BY <3>1, <3>2
  <2>2. ASSUME NEW x \in DOMAIN got'
        PROVE  /\ x \in DOMAIN sealed' /\ got'[x] \in Seq(Entry)
               /\ Len(got'[x]) <= Len(sealed'[x])
               /\ \A i \in 1 .. Len(got'[x]) : got'[x][i] = sealed'[x][i]
    <3>1. CASE x # k
      <4>1. x \in DOMAIN got /\ got'[x] = got[x]
        BY <1>6, <1>9, <1>10, <3>1, Zenon DEF At
      <4>2. x \in DOMAIN sealed
        BY <4>1, Zenon DEF IInv, LogInv
      <4>3. x \in DOMAIN sealed' /\ sealed'[x] = sealed[x]
        BY <1>6, <1>8, <3>1, <4>2, Zenon DEF At
      <4> QED
        BY <4>1, <4>3, Zenon DEF IInv, LogInv
    <3>2. CASE x = k /\ dl
      <4>0. PICK g, z : g = got'[k] /\ z = sealed'[k]
        BY Zenon
      <4>1. \A i \in 1 .. seq : Delivered(k)[i] = Written(k)[i]
        BY <1>4, <1>7, <3>2 DEF IInv, LogInv, Delivered, Written
      <4>2. /\ g \in Seq(Entry) /\ Len(g) = seq + 1 /\ Len(z) = seq + 1
            /\ \A i \in 1 .. seq : g[i] = z[i]
            /\ g[seq + 1] = z[seq + 1]
        BY <1>8, <1>9, <3>2, <4>0, <4>1, Zenon
      <4>3. \A i \in 1 .. seq + 1 : g[i] = z[i]
        BY <1>4, <4>2
      <4>4. x \in DOMAIN sealed'
        BY <1>8, <3>2, Zenon
      <4>5. Len(g) <= Len(z) /\ \A i \in 1 .. Len(g) : g[i] = z[i]
        BY <1>4, <4>2, <4>3
      <4> QED
        BY <3>2, <4>0, <4>2, <4>4, <4>5, Zenon
    <3>3. CASE x = k /\ ~dl
      <4>0. PICK g, z : g = got[k] /\ z = sealed'[k]
        BY Zenon
      <4>1. k \in DOMAIN got /\ got' = got /\ k \in DOMAIN sealed
        BY <1>10, <3>3, Zenon DEF IInv, LogInv
      <4>2. sealed[k] = Written(k)
        BY <4>1, Zenon DEF Written
      <4>3. /\ g \in Seq(Entry) /\ Len(g) <= seq
            /\ \A i \in 1 .. Len(g) : g[i] = Written(k)[i]
        BY <1>4, <4>0, <4>1, <4>2, Zenon DEF IInv, LogInv
      <4>4. Len(g) \in Nat
        BY <4>3
      <4>5. \A i \in 1 .. seq : z[i] = Written(k)[i]
        BY <1>8, <4>0, Zenon
      <4>6. Len(z) = seq + 1
        BY <1>8, <4>0, Zenon
      <4>7. Len(g) <= Len(z) /\ \A i \in 1 .. Len(g) : g[i] = z[i]
        BY <1>4, <4>3, <4>4, <4>5, <4>6
      <4>8. k \in DOMAIN sealed'
        BY <1>8, Zenon
      <4> QED
        BY <3>3, <4>0, <4>1, <4>3, <4>7, <4>8, Zenon
    <3> QED
      BY <3>1, <3>2, <3>3, Zenon
  <2> QED
    BY <2>1, <2>2 DEF LogInv
<1> QED
  BY <1>1, <1>3, <1>11, <1>12, <1>13, <1>14 DEF IInv
-----------------------------------------------------------------------------
(* The invariant.                                                          *)
LEMMA InitInv == Init => IInv
<1> SUFFICES ASSUME Init PROVE IInv
  OBVIOUS
<1>1. StoreOK(slots)
  BY DEF Init, StoreOK, SoftKeystoreNew, PskSlotEmpty
<1>2. /\ pool = [h \in Conns |-> None] /\ n = 0 /\ pairs = {}
      /\ sealed = <<>> /\ got = <<>>
  BY DEF Init
<1>3. \A h \in Conns : pool[h] = None /\ ~Connected(h)
  BY <1>2 DEF Connected, None
<1>4. PoolOK
  BY <1>2 DEF PoolOK
<1>5. EndInv /\ KeyInv /\ PairInv
  BY <1>2, <1>3 DEF EndInv, KeyInv, PairInv
<1>6. LogInv
  BY <1>2 DEF LogInv
<1> QED
  BY <1>1, <1>2, <1>4, <1>5, <1>6 DEF IInv

LEMMA CloseStep ==
  ASSUME IInv, NEW h \in Handles, close(h)
  PROVE  IInv'
<1>1. UNCHANGED <<slots, n, sealed, got>> /\ pairs' = Without(h)
      /\ pool' = IF h \in Conns THEN [pool EXCEPT ![h] = None] ELSE pool
  BY DEF close
<1>2. PoolOK' /\ \A g \in Conns : pool'[g] = IF g = h THEN None ELSE pool[g]
  BY <1>1 DEF IInv, PoolOK
<1>3. \A g \in Conns : Connected(g)' => g # h /\ pool'[g] = pool[g]
  BY <1>2 DEF Connected, None
<1>4. \A pr \in pairs : pr \in Conns \X Conns /\ Connected(pr[1]) /\ Connected(pr[2])
  BY DEF IInv, PairInv
<1>5. \A pr \in pairs' : pr \in pairs /\ Connected(pr[1])' /\ Connected(pr[2])'
  BY <1>1, <1>2, <1>4 DEF Without, Connected
<1>6. \A pr \in pairs : Connected(pr[1])' /\ Connected(pr[2])' => pr \in pairs'
  BY <1>1, <1>3, <1>4 DEF Without
<1> QED
  BY <1>1, <1>2, <1>3, <1>5, <1>6, ClosingStep

LEMMA WipePoolStep ==
  ASSUME IInv, WipePool
  PROVE  IInv'
<1>1. UNCHANGED <<slots, n, sealed, got>> /\ pairs' = {} /\ pool' = [h \in Conns |-> None]
  BY DEF WipePool
<1>2. PoolOK' /\ \A h \in Conns : ~Connected(h)'
  BY <1>1 DEF PoolOK, Connected, None
<1>3. \A pr \in pairs : pr[1] \in Conns
  BY DEF IInv, PairInv
<1> QED
  BY <1>1, <1>2, <1>3, ClosingStep

(* Two slots that held nothing are overwritten with nothing usable.        *)
LEMMA FailedStep ==
  ASSUME IInv, NEW c \in Conns, NEW s \in Conns, pool[c] = None, pool[s] = None, PoolOK',
         \A h \in Conns \ {c, s} : pool'[h] = pool[h], ~Connected(c)', ~Connected(s)',
         UNCHANGED <<slots, n, pairs, sealed, got>>
  PROVE  IInv'
<1>1. ~Connected(c) /\ ~Connected(s)
  BY DEF Connected, None
<1>2. \A h \in Conns : Connected(h)' => pool'[h] = pool[h]
  OBVIOUS
<1>3. \A pr \in pairs : Connected(pr[1])' /\ Connected(pr[2])'
  <2> SUFFICES ASSUME NEW pr \in pairs PROVE Connected(pr[1])' /\ Connected(pr[2])'
    OBVIOUS
  <2>1. pr \in Conns \X Conns /\ Connected(pr[1]) /\ Connected(pr[2])
    BY DEF IInv, PairInv
  <2>2. pool'[pr[1]] = pool[pr[1]] /\ pool'[pr[2]] = pool[pr[2]]
    BY <1>1, <2>1
  <2> QED
    BY <2>1, <2>2 DEF Connected
<1> QED
  BY <1>2, <1>3, ClosingStep

LEMMA LoopbackRefusedStep ==
  ASSUME IInv, NEW id, NEW kex, LoopbackNoSlot(id, kex) \/ LoopbackOneSlot(id, kex)
  PROVE  IInv'
<1>1. CASE LoopbackNoSlot(id, kex)
  BY <1>1, StoreStep DEF LoopbackNoSlot, IInv
<1>2. CASE LoopbackOneSlot(id, kex)
  <2> DEFINE f == [Handshaking("Client", kex[1], kex[2], id) EXCEPT !.state = "Free"]
  <2>1. PICK c \in alloc_slot(pool) : pool' = [pool EXCEPT ![c] = f]
    BY <1>2, Zenon DEF LoopbackOneSlot
  <2>2. c \in Conns /\ pool[c] = None
    BY FirstSlot
  <2>3. f = Conn("Free", "Client", kex[1], kex[2], id, 0,
                 DirectionalKeysEmpty, DirectionalKeysEmpty)
    BY HandshakingIs, Set_state
  <2>4. ConnOK(f) /\ f.state = "Free"
    BY <2>3 DEF ConnOK, Conn, KeysOK, DirectionalKeysEmpty
  <2> HIDE DEF f
  <2>5. PoolOK' /\ \A h \in Conns : pool'[h] = IF h = c THEN f ELSE pool[h]
    BY <2>1, <2>2, <2>4 DEF IInv, PoolOK
  <2>6. ~Connected(c)'
    BY <2>2, <2>4, <2>5 DEF Connected
  <2>7. UNCHANGED <<slots, n, pairs, sealed, got>>
    BY <1>2 DEF LoopbackOneSlot
  <2> QED
    BY <2>2, <2>5, <2>6, <2>7, FailedStep
<1> QED
  BY <1>1, <1>2

(* What LoopbackRun does to the pool.                                      *)
Ran(id, kex, draws, c, s, r) ==
  /\ c \in Conns /\ s \in Conns /\ c # s /\ pool[c] = None /\ pool[s] = None
  /\ r.res # "PoolFull"
  /\ r.res = "Ok" <=> psk_exists(slots, id) /\ draws = "ok"
  /\ r.res = "Ok" => Ends(r, kex[1], kex[2], id, n + 1)
  /\ pool' = AfterHandshake(pool, c, s, r)
  /\ n' = IF r.res = "Ok" THEN n + 1 ELSE n
  /\ pairs' = IF r.res = "Ok" THEN pairs \cup {<<c, s>>} ELSE pairs
  /\ call' = [op |-> "loopback", res |-> r.res, id |-> id,
              client |-> c, server |-> s, draws |-> draws]

LEMMA RunEffect ==
  ASSUME IInv, NEW id, NEW kex, NEW draws \in {"ok", "early", "late"},
         LoopbackRun(id, kex, draws)
  PROVE  \E c, s, r : Ran(id, kex, draws, c, s, r)
<1> DEFINE r == do_handshake(slots, Handshaking("Client", kex[1], kex[2], id),
                             Handshaking("Server", kex[1], kex[2], id), draws, n + 1)
<1> HIDE DEF r
<1>0. PICK c \in alloc_slot(pool) :
      \E s \in alloc_slot([pool EXCEPT ![c] = TlsConnectionEmpty]) :
        /\ pool' = AfterHandshake(pool, c, s, r)
        /\ n' = IF r.res = "Ok" THEN n + 1 ELSE n
        /\ pairs' = IF r.res = "Ok" THEN pairs \cup {<<c, s>>} ELSE pairs
        /\ call' = [op |-> "loopback", res |-> r.res, id |-> id,
                    client |-> c, server |-> s, draws |-> draws]
  BY Zenon DEF LoopbackRun, r
<1>1. PICK s \in alloc_slot([pool EXCEPT ![c] = TlsConnectionEmpty]) :
        /\ pool' = AfterHandshake(pool, c, s, r)
        /\ n' = IF r.res = "Ok" THEN n + 1 ELSE n
        /\ pairs' = IF r.res = "Ok" THEN pairs \cup {<<c, s>>} ELSE pairs
        /\ call' = [op |-> "loopback", res |-> r.res, id |-> id,
                    client |-> c, server |-> s, draws |-> draws]
  BY <1>0, Zenon
<1>2. c \in Conns /\ s \in Conns /\ c # s /\ pool[c] = None /\ pool[s] = None
  BY SecondSlot DEF IInv
<1>3. /\ r.res # "PoolFull"
      /\ r.res = "Ok" <=> psk_exists(slots, id) /\ draws = "ok"
      /\ r.res = "Ok" => Ends(r, kex[1], kex[2], id, n + 1)
  BY HandshakeResult DEF IInv, r
<1> QED
  BY <1>1, <1>2, <1>3, Zenon DEF Ran

LEMMA LoopbackRunStep ==
  ASSUME IInv, NEW id, NEW kex, NEW draws \in {"ok", "early", "late"},
         LoopbackRun(id, kex, draws)
  PROVE  IInv'
<1>0. PICK c, s, r : Ran(id, kex, draws, c, s, r)
  BY RunEffect, Zenon
<1>1. /\ c \in Conns /\ s \in Conns
      /\ c # s /\ pool[c] = None /\ pool[s] = None
      /\ r.res = "Ok" => Ends(r, kex[1], kex[2], id, n + 1)
      /\ pool' = AfterHandshake(pool, c, s, r)
      /\ n' = IF r.res = "Ok" THEN n + 1 ELSE n
      /\ pairs' = IF r.res = "Ok" THEN pairs \cup {<<c, s>>} ELSE pairs
  BY <1>0, Zenon DEF Ran
<1>2. UNCHANGED <<slots, sealed, got>>
  BY Zenon DEF LoopbackRun
<1>3. CASE r.res = "Ok"
  <2>1. pool' = [pool EXCEPT ![c] = r.c, ![s] = r.s]
    BY <1>1, <1>3, Zenon DEF AfterHandshake
  <2> QED
    BY <1>1, <1>2, <1>3, <2>1, OpeningStep, Zenon
<1>4. CASE r.res # "Ok"
  <2>1. pool' = [pool EXCEPT ![c] = None, ![s] = None]
    BY <1>1, <1>4, Zenon DEF AfterHandshake
  <2>2. TwoSet(c, None, s, None)
    BY <1>1, <2>1, TwoSlots, Zenon
  <2>3. pool'[c] = None /\ pool'[s] = None
    BY <1>1, <2>2, Zenon DEF TwoSet
  <2>4. /\ PoolOK'
        /\ \A h \in Conns : pool'[h] = IF h \in {c, s} THEN None ELSE pool[h]
    BY <2>2, <2>3, Zenon DEF TwoSet
  <2>5. ~Connected(c)' /\ ~Connected(s)'
    BY <2>3 DEF Connected, None
  <2> QED
    BY <1>1, <1>2, <1>4, <2>4, <2>5, FailedStep
<1> QED
  BY <1>3, <1>4

LEMMA NextInv == IInv /\ [Next]_vars => IInv'
<1> SUFFICES ASSUME IInv, [Next]_vars PROVE IInv'
  OBVIOUS
<1>1. ASSUME NEW id \in PskIds, NEW material \in Materials, Provision(id, material)
      PROVE  IInv'
  <2>1. StoreOK(slots')
    BY <1>1, ProvisionOK DEF Provision, IInv
  <2> QED
    BY <1>1, <2>1, StoreStep DEF Provision
<1>2. ASSUME NEW id \in PskIds, Destroy(id) PROVE IInv'
  <2>1. StoreOK(slots')
    BY <1>2, DestroyOK DEF Destroy, IInv
  <2> QED
    BY <1>2, <2>1, StoreStep DEF Destroy
<1>3. CASE WipeKeys
  <2>1. StoreOK(slots')
    BY <1>3, WipeOK DEF WipeKeys
  <2> QED
    BY <1>3, <2>1, StoreStep DEF WipeKeys
<1>4. ASSUME NEW id \in PeerIds, NEW kex \in Kexes, run_loopback(id, kex) PROVE IInv'
  <2>1. CASE LoopbackNoSlot(id, kex) \/ LoopbackOneSlot(id, kex)
    BY <2>1, LoopbackRefusedStep
  <2>2. ASSUME NEW draws \in {"ok", "early", "late"}, LoopbackRun(id, kex, draws)
        PROVE  IInv'
    BY <2>2, LoopbackRunStep
  <2> QED
    BY <1>4, <2>1, <2>2 DEF run_loopback
<1>5. ASSUME NEW h \in Handles, close(h) PROVE IInv'
  BY <1>5, CloseStep
<1>6. CASE WipePool
  BY <1>6, WipePoolStep
<1>7. ASSUME NEW from \in Handles, NEW to \in Handles, NEW plaintext \in Plaintexts,
             NEW out_len \in OutLens, loopback_send_recv(from, to, plaintext, out_len)
      PROVE  IInv'
  <2>1. CASE SendRefused(from, to, plaintext, out_len)
    BY <2>1, StoreStep DEF SendRefused, IInv
  <2>2. CASE SendRecord(from, to, plaintext, out_len)
    BY <2>2, RecordStep
  <2> QED
    BY <1>7, <2>1, <2>2 DEF loopback_send_recv
<1>8. CASE UNCHANGED vars
  BY <1>8, StoreStep DEF vars, IInv
<1> QED
  BY <1>1, <1>2, <1>3, <1>4, <1>5, <1>6, <1>7, <1>8 DEF Next

(* The inductive invariant: the counters of an open connection are the     *)
(* lengths of its two logs, a key has one writer and one reader, and keys  *)
(* of different handshakes differ.                                         *)
THEOREM Inductive == Spec => []IInv
  BY InitInv, NextInv, PTL DEF Spec

(* No two records are encrypted under the same key and counter, however    *)
(* often slots are closed and reused (loopback_send_recv, close).          *)
THEOREM NoncesFresh == Spec => []RecordNonceFresh
<1>1. IInv => RecordNonceFresh
  <2> SUFFICES ASSUME IInv, NEW k \in DOMAIN sealed,
                      NEW i \in 1 .. Len(sealed[k]), NEW j \in 1 .. Len(sealed[k]),
                      sealed[k][i][1] = sealed[k][j][1]
               PROVE  i = j
    BY DEF RecordNonceFresh
  <2>1. sealed[k][i][1] = i - 1 /\ sealed[k][j][1] = j - 1
    BY DEF IInv, LogInv
  <2>2. i \in Int /\ j \in Int
    OBVIOUS
  <2> QED
    <3>1. i - 1 = j - 1
      BY <2>1, Zenon
    <3> QED
      BY <2>2, <3>1
<1> QED
  BY <1>1, Inductive, PTL

(* What decrypt_record hands over under a key is a prefix of what          *)
(* encrypt_record sealed under it.                                         *)
THEOREM StreamsArePrefixes == Spec => []StreamPrefix
<1>1. IInv => StreamPrefix
  BY DEF IInv, LogInv, StreamPrefix, Written
<1> QED
  BY <1>1, Inductive, PTL
-----------------------------------------------------------------------------
(* The calls, told apart by the name they leave in `call`.                 *)
LEMMA CallNames ==
  ASSUME Next
  PROVE  /\ call'.op = "destroy" => \E id \in PskIds : Destroy(id)
         /\ call'.op = "loopback" =>
              \E id \in PeerIds, kex \in Kexes : run_loopback(id, kex)
         /\ call'.op = "send" =>
              \E from, to \in Handles, plaintext \in Plaintexts, out_len \in OutLens :
                loopback_send_recv(from, to, plaintext, out_len)
<1>1. \A id \in PskIds, material \in Materials :
        Provision(id, material) => call'.op = "provision"
  BY DEF Provision
<1>2. \A id \in PskIds : Destroy(id) => call'.op = "destroy"
  BY DEF Destroy
<1>3. WipeKeys => call'.op = "wipe_keys"
  BY DEF WipeKeys
<1>4. \A id \in PeerIds, kex \in Kexes : run_loopback(id, kex) => call'.op = "loopback"
  <2> SUFFICES ASSUME NEW id \in PeerIds, NEW kex \in Kexes, run_loopback(id, kex)
               PROVE  call'.op = "loopback"
    OBVIOUS
  <2>1. CASE LoopbackNoSlot(id, kex)
    BY <2>1 DEF LoopbackNoSlot
  <2>2. CASE LoopbackOneSlot(id, kex)
    BY <2>2 DEF LoopbackOneSlot
  <2>3. ASSUME NEW draws \in {"ok", "early", "late"}, LoopbackRun(id, kex, draws)
        PROVE  call'.op = "loopback"
    <3>1. PICK res, c, s : call' = [op |-> "loopback", res |-> res, id |-> id,
                                    client |-> c, server |-> s, draws |-> draws]
      BY <2>3, Zenon DEF LoopbackRun
    <3> QED
      BY <3>1
  <2> QED
    BY <2>1, <2>2, <2>3 DEF run_loopback
<1>5. \A h \in Handles : close(h) => call'.op = "close"
  BY DEF close
<1>6. WipePool => call'.op = "wipe_pool"
  BY DEF WipePool
<1>7. \A from, to \in Handles, plaintext \in Plaintexts, out_len \in OutLens :
        loopback_send_recv(from, to, plaintext, out_len) => call'.op = "send"
  <2>1. \A res, from, to, plaintext, out_len :
          call' = SendCall(res, from, to, plaintext, out_len) => call'.op = "send"
    BY DEF SendCall
  <2>2. ASSUME NEW from \in Handles, NEW to \in Handles, NEW plaintext \in Plaintexts,
               NEW out_len \in OutLens, loopback_send_recv(from, to, plaintext, out_len)
        PROVE  call'.op = "send"
    <3>1. CASE SendRefused(from, to, plaintext, out_len)
      <4>1. \E res : call' = SendCall(res, from, to, plaintext, out_len)
        BY <3>1, Zenon DEF SendRefused
      <4> QED
        BY <2>1, <4>1, Zenon
    <3>2. CASE SendRecord(from, to, plaintext, out_len)
      <4>1. PICK e, p, d : Unfolds(from, to, plaintext, out_len, e, p, d)
        BY <3>2, SendUnfolds, Zenon
      <4>2. call' = SendCall(d.res, from, to, plaintext, out_len)
        BY <4>1, Zenon DEF Unfolds
      <4> QED
        BY <2>1, <4>2, Zenon
    <3> QED
      BY <2>2, <3>1, <3>2, Zenon DEF loopback_send_recv
  <2> QED
    BY <2>2, Zenon
<1> QED
  BY <1>1, <1>2, <1>3, <1>4, <1>5, <1>6, <1>7, Zenon DEF Next

(* psk_destroy of an identifier other than PskId::ZERO takes effect: no    *)
(* provisioned slot has the identifier when it returns.                    *)
THEOREM DestroyEffective == Spec => DestroyTakesEffect
<1>1. ASSUME IInv, Next, call'.op = "destroy", call'.id # ZERO
      PROVE  ~psk_exists(slots', call'.id)
  <2>1. PICK id \in PskIds : Destroy(id)
    BY <1>1, CallNames
  <2>2. call'.id = id /\ slots' = psk_destroy(slots, id)
    BY <2>1 DEF Destroy
  <2> QED
    BY <1>1, <2>2, DestroyOK DEF IInv
<1>2. IInv /\ [Next]_vars
        => [call'.op = "destroy" /\ call'.id # ZERO => ~psk_exists(slots', call'.id)]_vars
  BY <1>1
<1> QED
  BY <1>2, Inductive, PTL DEF Spec, DestroyTakesEffect

(* An Ok handshake in two slots that were free, under keys that are new.   *)
LEMMA OpenedStep ==
  ASSUME IInv, NEW c \in Conns, NEW s \in Conns, c # s,
         NEW r, NEW policy, NEW suite, NEW id, Ends(r, policy, suite, id, n + 1),
         pool' = [pool EXCEPT ![c] = r.c, ![s] = r.s]
  PROVE  /\ pool'[c].state = "Connected" /\ pool'[s].state = "Connected"
         /\ pool'[c].transcript = pool'[s].transcript /\ pool'[c].suite = pool'[s].suite
         /\ pool'[c].app_write = pool'[s].app_read /\ pool'[c].app_read = pool'[s].app_write
         /\ pool'[c].app_write.key # pool'[c].app_read.key
         /\ pool'[c].app_write.key \notin DOMAIN sealed
         /\ pool'[c].app_read.key \notin DOMAIN sealed
<1>1. PICK k, l : EndsOf(r, suite, n + 1, k, l)
  BY EndsAre, Zenon
<1>2. IsEnd(r.c, suite, k, l) /\ IsEnd(r.s, suite, l, k)
  BY <1>1, Zenon DEF EndsOf
<1>3. TwoSet(c, r.c, s, r.s)
  <2>1. ConnOK(r.c) /\ ConnOK(r.s)
    BY <1>2, Zenon DEF IsEnd
  <2> QED
    BY <2>1, TwoSlots, Zenon
<1>4. pool'[c] = r.c /\ pool'[s] = r.s
  BY <1>3, Zenon DEF TwoSet
<1>5. IsEnd(pool'[c], suite, k, l) /\ IsEnd(pool'[s], suite, l, k)
  BY <1>2, <1>4, Zenon
<1>6. k # l /\ k \notin DOMAIN sealed /\ l \notin DOMAIN sealed
  BY <1>1, KeyIsNew, Zenon DEF EndsOf, NewKey
<1> QED
  BY <1>5, <1>6, Zenon DEF IsEnd

LEMMA HandshakeOutcomeStep ==
  ASSUME IInv, Next
  PROVE  HandshakeStep
<1> SUFFICES ASSUME call'.op = "loopback" PROVE HandshakeStep
  BY Zenon DEF HandshakeStep
<1>1. PICK id \in PeerIds, kex \in Kexes : run_loopback(id, kex)
  BY CallNames
<1> DEFINE free == {h \in Conns : pool[h] = None}
<1>2. CASE LoopbackNoSlot(id, kex)
  <2>1. pool' = pool /\ call'.res = "PoolFull"
    BY <1>2 DEF LoopbackNoSlot
  <2>2. free = {}
    BY <1>2, FirstSlot DEF LoopbackNoSlot
  <2> QED
    BY <2>1, <2>2, Zenon DEF HandshakeStep
<1>3. CASE LoopbackOneSlot(id, kex)
  <2> DEFINE f == [Handshaking("Client", kex[1], kex[2], id) EXCEPT !.state = "Free"]
  <2>1. PICK c \in alloc_slot(pool) :
          /\ alloc_slot([pool EXCEPT ![c] = TlsConnectionEmpty]) = {}
          /\ pool' = [pool EXCEPT ![c] = f]
    BY <1>3, Zenon DEF LoopbackOneSlot
  <2>2. c \in free /\ \A h \in free : h = c
    BY <2>1, SecondSlot, Zenon DEF IInv
  <2>3. f.app_write = DirectionalKeysEmpty
    <3>1. f = Conn("Free", "Client", kex[1], kex[2], id, 0,
                   DirectionalKeysEmpty, DirectionalKeysEmpty)
      BY HandshakingIs, Set_state
    <3> QED
      BY <3>1 DEF Conn
  <2> HIDE DEF f
  <2>4. \A h \in Conns : pool'[h] = IF h = c THEN f ELSE pool[h]
    BY <2>1, <2>2 DEF IInv, PoolOK
  <2>5. call'.res = "PoolFull"
    BY <1>3 DEF LoopbackOneSlot
  <2> QED
    BY <2>2, <2>3, <2>4, <2>5 DEF HandshakeStep
<1>4. ASSUME NEW draws \in {"ok", "early", "late"}, LoopbackRun(id, kex, draws)
      PROVE  HandshakeStep
  <2>0. PICK c, s, r : Ran(id, kex, draws, c, s, r)
    BY <1>4, RunEffect, Zenon
  <2>1. /\ c \in Conns /\ s \in Conns
        /\ c # s /\ pool[c] = None /\ pool[s] = None
        /\ r.res # "PoolFull"
        /\ r.res = "Ok" <=> psk_exists(slots, id) /\ draws = "ok"
        /\ r.res = "Ok" => Ends(r, kex[1], kex[2], id, n + 1)
        /\ pool' = AfterHandshake(pool, c, s, r)
        /\ call' = [op |-> "loopback", res |-> r.res, id |-> id,
                    client |-> c, server |-> s, draws |-> draws]
    BY <2>0, Zenon DEF Ran
  <2>2. /\ call'.res = r.res /\ call'.id = id /\ call'.client = c /\ call'.server = s
        /\ call'.draws = draws
    <3>1. call' = [op |-> "loopback", res |-> r.res, id |-> id,
                   client |-> c, server |-> s, draws |-> draws]
      BY <2>1, Zenon
    <3> QED
      BY <3>1
  <2>3. c \in free /\ s \in free
    BY <2>1
  <2>4. CASE r.res = "Ok"
    <3>1. pool' = [pool EXCEPT ![c] = r.c, ![s] = r.s]
      BY <2>1, <2>4, Zenon DEF AfterHandshake
    <3>2. \A h \in Conns \ free : pool'[h] = pool[h]
      <4>1. PICK k, l : EndsOf(r, kex[2], n + 1, k, l)
        BY <2>1, <2>4, EndsAre, Zenon
      <4>2. ConnOK(r.c) /\ ConnOK(r.s)
        BY <4>1, Zenon DEF EndsOf, IsEnd
      <4>3. TwoSet(c, r.c, s, r.s)
        BY <2>1, <3>1, <4>2, TwoSlots, Zenon
      <4> QED
        BY <2>3, <4>3, Zenon DEF TwoSet
    <3>3. /\ pool'[c].state = "Connected" /\ pool'[s].state = "Connected"
          /\ pool'[c].transcript = pool'[s].transcript /\ pool'[c].suite = pool'[s].suite
          /\ pool'[c].app_write = pool'[s].app_read
          /\ pool'[c].app_read = pool'[s].app_write
          /\ pool'[c].app_write.key # pool'[c].app_read.key
          /\ Written(pool'[c].app_write.key) = <<>>
          /\ Written(pool'[c].app_read.key) = <<>>
      BY <2>1, <2>4, <3>1, OpenedStep, Zenon DEF Written
    <3> QED
      BY <2>1, <2>2, <2>3, <2>4, <3>2, <3>3, Zenon DEF HandshakeStep
  <2>5. CASE r.res # "Ok"
    <3>1. pool' = [pool EXCEPT ![c] = None, ![s] = None]
      BY <2>1, <2>5, Zenon DEF AfterHandshake
    <3>2. \A h \in Conns : pool'[h] = IF h \in {c, s} THEN None ELSE pool[h]
      <4>1. TwoSet(c, None, s, None)
        BY <2>1, <3>1, TwoSlots, Zenon
      <4> QED
        BY <2>1, <4>1, Zenon DEF TwoSet
    <3> QED
      BY <2>1, <2>2, <2>3, <2>5, <3>2, Zenon DEF HandshakeStep
  <2> QED
    BY <2>4, <2>5
<1> QED
  BY <1>1, <1>2, <1>3, <1>4 DEF run_loopback

(* run_loopback succeeds exactly when two slots are free, the PSK is       *)
(* provisioned and no draw fails; its two ends then agree on keys that no  *)
(* record was encrypted under, and otherwise it leaves no key.             *)
THEOREM HandshakesDecided == Spec => HandshakeOutcome
<1>1. IInv /\ [Next]_vars => [HandshakeStep]_vars
  BY HandshakeOutcomeStep
<1> QED
  BY <1>1, Inductive, PTL DEF Spec, HandshakeOutcome

LEMMA SendOutcomeStep ==
  ASSUME IInv, Next
  PROVE  SendStep
<1> SUFFICES ASSUME call'.op = "send" PROVE SendStep
  BY DEF SendStep
<1>1. PICK from \in Handles, to \in Handles, plaintext \in Plaintexts, out_len \in OutLens :
        loopback_send_recv(from, to, plaintext, out_len)
  BY CallNames
<1>k. PICK k, len : k = WKey(from) /\ len = Len(plaintext)
  BY Zenon
<1> DEFINE Right == /\ Paired(from, to)
                    /\ len <= MAX_PLAINTEXT_LEN /\ len <= out_len
                    /\ Len(Written(k)) < SEQ_MAX
                    /\ Len(Delivered(k)) = Len(Written(k))
<1>2. ASSUME NEW res, call' = SendCall(res, from, to, plaintext, out_len), res = "Ok" <=> Right
      PROVE  SendStep
  <2>1. /\ call'.res = res /\ call'.from = from /\ call'.to = to
        /\ call'.len = len /\ call'.out_len = out_len
    BY <1>k, <1>2 DEF SendCall
  <2> QED
    BY <1>k, <1>2, <2>1, Zenon DEF SendStep, Paired, WKey
<1> HIDE DEF Right
<1>3. Paired(from, to) =>
        /\ from \in Conns /\ to \in Conns /\ Connected(from) /\ Connected(to)
        /\ WKey(from) = RKey(to)
  <2>1. CASE <<from, to>> \in pairs
    BY <2>1 DEF IInv, PairInv
  <2>2. CASE <<to, from>> \in pairs
    BY <2>2 DEF IInv, PairInv
  <2> QED
    BY <2>1, <2>2 DEF Paired
<1>4. ASSUME from \in Conns, Connected(from)
      PROVE  /\ pool[from] # None
             /\ KeysOK(pool[from].app_write) /\ pool[from].app_write.seq \in Nat
             /\ pool[from].app_write.seq = Len(Written(k))
             /\ pool[from].app_write.seq <= SEQ_MAX
  <2>1. pool[from] # None
    BY <1>4 DEF Connected, None
  <2>2. KeysOK(pool[from].app_write)
    BY <1>4, <2>1, Zenon DEF IInv, PoolOK, ConnOK
  <2>3. pool[from].app_write.seq \in Nat
    BY <2>2 DEF KeysOK
  <2>4. /\ pool[from].app_write.seq = Len(Written(k))
        /\ pool[from].app_write.seq <= SEQ_MAX
    BY <1>k, <1>4, Zenon DEF IInv, EndInv
  <2> QED
    BY <2>1, <2>2, <2>3, <2>4
<1>5. len \in Nat
  BY <1>k, TlsServiceAssumption
<1>6. CASE SendRefused(from, to, plaintext, out_len)
  <2>0. PICK e : e = encrypt_record(pool[from].app_write, pool[from].suite, plaintext)
    BY Zenon
  <2>1. PICK res :
          /\ res = IF ~HasSlot(pool, from) THEN "InvalidHandle"
                   ELSE IF pool[from].state # "Connected" THEN "UnexpectedState"
                   ELSE e.res
          /\ res # "Ok" /\ call' = SendCall(res, from, to, plaintext, out_len)
    BY <1>6, <2>0, Zenon DEF SendRefused
  <2>2. ASSUME Right PROVE FALSE
    <3>0. Paired(from, to) /\ len <= MAX_PLAINTEXT_LEN /\ Len(Written(k)) < SEQ_MAX
      BY <2>2, Zenon DEF Right
    <3>1. from \in Conns /\ Connected(from)
      BY <1>3, <3>0, Zenon
    <3>2. res = e.res
      BY <1>4, <2>1, <3>1 DEF HasSlot, Connected
    <3>3. pool[from].app_write.seq # SEQ_MAX
      BY <1>4, <3>0, <3>1, TlsConnAssumption
    <3>4. ~(Len(plaintext) > MAX_PLAINTEXT_LEN)
      BY <1>k, <1>5, <3>0, TlsConnAssumption
    <3>5. e.res = "Ok"
      BY <2>0, <3>3, <3>4 DEF encrypt_record
    <3> QED
      BY <2>1, <3>2, <3>5, Zenon
  <2> QED
    BY <1>2, <2>1, <2>2, Zenon
<1>7. CASE SendRecord(from, to, plaintext, out_len)
  <2> DEFINE dl == Delivers(from, to, plaintext, out_len)
  <2>0. RecordDone(from, to, plaintext, out_len)
    BY <1>7, RecordEffect, Zenon
  <2>1. PICK res : call' = SendCall(res, from, to, plaintext, out_len) /\ (res = "Ok" <=> dl)
    BY <2>0, Zenon DEF RecordDone
  <2>2. /\ from \in Conns /\ Connected(from) /\ len <= MAX_PLAINTEXT_LEN
        /\ pool[from].app_write.seq # SEQ_MAX
    BY <1>k, <2>0, Zenon DEF RecordDone
  <2>3. to \in Conns /\ Connected(to) => pool[to].app_read.seq = Len(Delivered(RKey(to)))
    BY Zenon DEF IInv, EndInv
  <2>4. to \in Conns /\ Connected(to) /\ RKey(to) = k => Paired(from, to)
    BY <1>k, <2>2, Zenon DEF IInv, KeyInv
  <2>5. ASSUME dl PROVE Right
    <3>1. /\ to \in Conns /\ Connected(to) /\ RKey(to) = k
          /\ pool[to].app_read.seq = pool[from].app_write.seq
          /\ len <= out_len
      BY <1>k, <2>5, Zenon DEF Delivers
    <3>2. Len(Delivered(k)) = Len(Written(k))
      BY <1>4, <2>2, <2>3, <3>1, Zenon
    <3>3. Len(Written(k)) < SEQ_MAX
      BY <1>4, <2>2, TlsConnAssumption
    <3> QED
      BY <2>2, <2>4, <3>1, <3>2, <3>3, Zenon DEF Right
  <2>6. ASSUME Right PROVE dl
    <3>0. Paired(from, to) /\ len <= out_len /\ Len(Delivered(k)) = Len(Written(k))
      BY <2>6, Zenon DEF Right
    <3>1. to \in Conns /\ Connected(to) /\ RKey(to) = k
      BY <1>k, <1>3, <3>0, Zenon
    <3>2. pool[to].app_read.seq = pool[from].app_write.seq
      BY <1>4, <2>2, <2>3, <3>0, <3>1, Zenon
    <3> QED
      BY <1>k, <1>4, <2>2, <3>0, <3>1, <3>2, Zenon DEF Delivers
  <2> HIDE DEF dl
  <2> QED
    BY <1>2, <2>1, <2>5, <2>6, Zenon
<1> QED
  BY <1>1, <1>6, <1>7 DEF loopback_send_recv

(* loopback_send_recv delivers exactly between the two ends of one         *)
(* handshake, within the limits and when no earlier record was lost.       *)
THEOREM SendsDecided == Spec => SendOutcome
<1>1. IInv /\ [Next]_vars => [SendStep]_vars
  BY SendOutcomeStep
<1> QED
  BY <1>1, Inductive, PTL DEF Spec, SendOutcome
=============================================================================
