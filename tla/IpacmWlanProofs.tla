-------------------------- MODULE IpacmWlanProofs --------------------------
(***************************************************************************)
(* The clients of the WLAN APs, for any number of APs, clients and         *)
(* addresses: the rules of a client against its addresses and its sleep,   *)
(* the count of all clients, the lists of NAT against the clients, and the *)
(* hardware against what the clients have handles of.                      *)
(***************************************************************************)
EXTENDS IpacmWlan, FiniteSetTheorems, SequenceTheorems, TLAPS

Things == {"hdr4", "hdr6", "rt4", "lan", "wan"} \X Macs \X (Ip4 \cup Ip6 \cup {NoIp})

Client == [mac : Macs, v4_addr : Ip4 \cup {NoIp}, rule_v4 : SUBSET Things, v6_addr : Seq(Ip6),
           rules_v6 : SUBSET Things, route_rule_set_v6 : Nat, power_save_set : BOOLEAN,
           asleep : BOOLEAN, mixed : BOOLEAN, denied : BOOLEAN, cut : BOOLEAN]

\* Client c is in one of the arrays w.
In(w, c) == \E a \in Aps : \E i \in 1 .. Len(w[a]) : c = w[a][i]

\* No two places of the arrays w hold the same client.
Apart(w) ==
    \A a, b \in Aps : \A i \in 1 .. Len(w[a]), j \in 1 .. Len(w[b]) :
        w[a][i].mac = w[b][j].mac => a = b /\ i = j

\* What a handler leaves of c when it has dealt with the rules of another one.
Follows(c, d) ==
    \E p \in BOOLEAN : d = [c EXCEPT !.power_save_set = p, !.mixed = @ \/ p # c.power_save_set]

RulesV6(c, K) == UNION {Range(V6Rules(c.mac, c.v6_addr[k])) : k \in K}

\* The rules of c are for the addresses it has; c has none while it sleeps and, while it
\* is awake, all of the versions ipv, unless one was refused, the flag is another's, or a
\* reset took those of IPv6 and was cut short.
Fits(c, ipv) ==
    /\ c \in Client
    /\ c.rule_v4 \subseteq {Thing("rt4", c.mac, c.v4_addr)}
    /\ c.route_rule_set_v6 <= Len(c.v6_addr) /\ Len(c.v6_addr) <= IPV6_NUM_ADDR
    /\ c.rules_v6 = RulesV6(c, 1 .. c.route_rule_set_v6)
    /\ ~c.mixed =>
         /\ c.power_save_set <=> c.asleep
         /\ c.asleep => c.rule_v4 = {} /\ c.rules_v6 = {}
         /\ ~c.asleep /\ ~c.denied =>
              /\ 4 \in ipv /\ c.v4_addr # NoIp => c.rule_v4 # {}
              /\ 6 \in ipv => c.route_rule_set_v6 = IF c.cut THEN 0 ELSE Len(c.v6_addr)

-----------------------------------------------------------------------------
(* The arrays.                                                             *)

\* The clients are what the arrays hold.
LEMMA AllIn ==
    ASSUME NEW w \in [Aps -> Seq(Client)]
    PROVE  \A c : /\ c \in UNION {Range(w[a]) : a \in Aps} <=> In(w, c)
                  /\ In(w, c) => c \in Client
  <1>1. \A a \in Aps : \A c : c \in Range(w[a]) <=> \E i \in 1 .. Len(w[a]) : c = w[a][i]
    <2> SUFFICES ASSUME NEW a \in Aps, NEW c
                 PROVE  c \in Range(w[a]) <=> \E i \in 1 .. Len(w[a]) : c = w[a][i]
      OBVIOUS
    <2>1. PICK s \in Seq(Client) : s = w[a]
      OBVIOUS
    <2>2. DOMAIN s = 1 .. Len(s)
      OBVIOUS
    <2>3. c \in Range(s) <=> \E i \in 1 .. Len(s) : c = s[i]
      BY <2>2 DEF Range
    <2> QED
      BY <2>1, <2>3
  <1>2. \A a \in Aps : \A i \in 1 .. Len(w[a]) : w[a][i] \in Client
    OBVIOUS
  <1> QED
    BY <1>1, <1>2 DEF In

\* Client new takes the place of the client it was.
IsReplaced(w, a, i, new, x) ==
    /\ x \in [Aps -> Seq(Client)] /\ Apart(x)
    /\ \A c : In(x, c) <=> (In(w, c) /\ c # w[a][i]) \/ c = new

\* The client in a place of the arrays changes.
LEMMA Replaced ==
    ASSUME NEW w \in [Aps -> Seq(Client)], Apart(w), NEW a \in Aps, NEW i \in 1 .. Len(w[a]),
           NEW new \in Client, new.mac = w[a][i].mac
    PROVE  IsReplaced(w, a, i, new, [w EXCEPT ![a][i] = new])
  <1>1. PICK x : x = [w EXCEPT ![a][i] = new]
    OBVIOUS
  <1>2. PICK s \in Seq(Client) : s = w[a]
    OBVIOUS
  <1>3. PICK t : t = [s EXCEPT ![i] = new]
    OBVIOUS
  <1>4. /\ t \in Seq(Client) /\ Len(t) = Len(s)
        /\ \A k \in 1 .. Len(s) : t[k] = IF k = i THEN new ELSE s[k]
    <2>1. i \in 1 .. Len(s)
      BY <1>2
    <2> QED
      BY <1>3, <2>1, ExceptSeq
  <1>5. x = [w EXCEPT ![a] = t]
    BY <1>1, <1>2, <1>3
  <1>6. x \in [Aps -> Seq(Client)] /\ x[a] = t /\ \A b \in Aps : b # a => x[b] = w[b]
    BY <1>4, <1>5
  <1>7. \A b \in Aps : /\ Len(x[b]) = Len(w[b])
                       /\ \A k \in 1 .. Len(w[b]) : x[b][k] = IF b = a /\ k = i THEN new ELSE w[b][k]
    BY <1>2, <1>4, <1>6
  <1>8. \A b \in Aps : \A k \in 1 .. Len(w[b]) : x[b][k].mac = w[b][k].mac
    BY <1>7
  <1>9. Apart(x)
    BY <1>7, <1>8 DEF Apart
  <1>10. ASSUME NEW c PROVE In(x, c) <=> (In(w, c) /\ c # w[a][i]) \/ c = new
    <2>1. ASSUME NEW b \in Aps, NEW k \in 1 .. Len(x[b]), c = x[b][k]
          PROVE  (In(w, c) /\ c # w[a][i]) \/ c = new
      <3>1. k \in 1 .. Len(w[b])
        BY <1>7
      <3>2. CASE b = a /\ k = i
        BY <1>7, <2>1, <3>1, <3>2
      <3>3. CASE ~(b = a /\ k = i)
        <4>1. c = w[b][k]
          BY <1>7, <2>1, <3>1, <3>3
        <4>2. c # w[a][i]
          BY <3>1, <3>3, <4>1 DEF Apart
        <4> QED
          BY <3>1, <4>1, <4>2 DEF In
      <3> QED
        BY <3>2, <3>3
    <2>2. ASSUME NEW b \in Aps, NEW k \in 1 .. Len(w[b]), c = w[b][k], c # w[a][i]
          PROVE  In(x, c)
      <3>1. k \in 1 .. Len(x[b]) /\ x[b][k] = c
        BY <1>7, <2>2
      <3> QED
        BY <3>1 DEF In
    <2>3. In(x, new)
      <3>1. i \in 1 .. Len(x[a]) /\ x[a][i] = new
        BY <1>7
      <3> QED
        BY <3>1 DEF In
    <2> QED
      BY <2>1, <2>2, <2>3 DEF In
  <1> QED
    BY <1>1, <1>6, <1>9, <1>10 DEF IsReplaced

\* A client that is nowhere yet comes at the end of an array.
IsAppended(w, new, x) ==
    /\ x \in [Aps -> Seq(Client)] /\ Apart(x)
    /\ \A c : In(x, c) <=> In(w, c) \/ c = new

\* A client is added.
LEMMA Appended ==
    ASSUME NEW w \in [Aps -> Seq(Client)], Apart(w), NEW a \in Aps,
           NEW new \in Client, \A c : In(w, c) => c.mac # new.mac
    PROVE  IsAppended(w, new, [w EXCEPT ![a] = Append(@, new)])
  <1>1. PICK x : x = [w EXCEPT ![a] = Append(@, new)]
    OBVIOUS
  <1>2. PICK s \in Seq(Client) : s = w[a]
    OBVIOUS
  <1>3. PICK t : t = Append(s, new)
    OBVIOUS
  <1>4. /\ t \in Seq(Client) /\ Len(t) = Len(s) + 1 /\ Len(s) \in Nat
        /\ \A k \in 1 .. Len(s) : t[k] = s[k]
        /\ t[Len(s) + 1] = new
    BY <1>3
  <1>5. x \in [Aps -> Seq(Client)] /\ x[a] = t /\ \A b \in Aps : b # a => x[b] = w[b]
    BY <1>1, <1>2, <1>3, <1>4
  <1>6. \A b \in Aps : \A k \in 1 .. Len(w[b]) : k \in 1 .. Len(x[b]) /\ x[b][k] = w[b][k]
    <2>1. \A k \in 1 .. Len(s) : k \in 1 .. Len(t) /\ t[k] = s[k]
      BY <1>4
    <2> QED
      BY <1>2, <1>5, <2>1
  <1>7. \A b \in Aps : \A k \in 1 .. Len(x[b]) :
           k \in 1 .. Len(w[b]) \/ (b = a /\ k = Len(s) + 1 /\ x[b][k] = new)
    <2>1. \A k \in 1 .. Len(t) : k \in 1 .. Len(s) \/ k = Len(s) + 1
      BY <1>4
    <2> QED
      BY <1>2, <1>4, <1>5, <2>1
  <1>8. \A b \in Aps : \A k \in 1 .. Len(w[b]) : w[b][k].mac # new.mac
    BY DEF In
  <1>9. Apart(x)
    <2> SUFFICES ASSUME NEW b \in Aps, NEW c \in Aps, NEW k \in 1 .. Len(x[b]), NEW n \in 1 .. Len(x[c]),
                        x[b][k].mac = x[c][n].mac
                 PROVE  b = c /\ k = n
      BY DEF Apart
    <2>1. CASE k \in 1 .. Len(w[b]) /\ n \in 1 .. Len(w[c])
      <3>1. x[b][k] = w[b][k] /\ x[c][n] = w[c][n]
        BY <1>6, <2>1
      <3> QED
        BY <2>1, <3>1 DEF Apart
    <2>2. CASE k \in 1 .. Len(w[b]) /\ n \notin 1 .. Len(w[c])
      <3>1. x[b][k].mac # new.mac /\ x[c][n] = new
        BY <1>6, <1>7, <1>8, <2>2
      <3> QED
        BY <3>1
    <2>3. CASE k \notin 1 .. Len(w[b]) /\ n \in 1 .. Len(w[c])
      <3>1. x[b][k] = new /\ x[c][n].mac # new.mac
        BY <1>6, <1>7, <1>8, <2>3
      <3> QED
        BY <3>1
    <2>4. CASE k \notin 1 .. Len(w[b]) /\ n \notin 1 .. Len(w[c])
      BY <1>7, <2>4
    <2> QED
      BY <2>1, <2>2, <2>3, <2>4
  <1>10. ASSUME NEW c PROVE In(x, c) <=> In(w, c) \/ c = new
    <2>1. In(x, c) => In(w, c) \/ c = new
      BY <1>6, <1>7 DEF In
    <2>2. In(w, c) => In(x, c)
      BY <1>6 DEF In
    <2>3. In(x, new)
      <3>1. Len(s) + 1 \in 1 .. Len(x[a]) /\ x[a][Len(s) + 1] = new
        BY <1>4, <1>5
      <3> QED
        BY <3>1 DEF In
    <2> QED
      BY <2>1, <2>2, <2>3
  <1> QED
    BY <1>1, <1>5, <1>9, <1>10 DEF IsAppended

\* A function on 1 .. n is a sequence.
LEMMA FunctionSeq ==
    ASSUME NEW S, NEW n \in Nat, NEW f \in [1 .. n -> S]
    PROVE  f \in Seq(S) /\ Len(f) = n
  <1>1. f \in Seq(S)
    BY SeqDef
  <1> QED
    BY <1>1, LenProperties

\* A client leaves and those behind it move up.
IsRemoved(w, a, i, x) ==
    /\ x \in [Aps -> Seq(Client)] /\ Apart(x)
    /\ \A d : In(x, d) => \E c : In(w, c) /\ c # w[a][i] /\ Follows(c, d)
    /\ \A c : In(w, c) /\ c # w[a][i] => \E d : In(x, d) /\ Follows(c, d)

\* handle_wlan_client_down_evt closes the gap.
LEMMA Removed ==
    ASSUME NEW w \in [Aps -> Seq(Client)], Apart(w), NEW a \in Aps, NEW i \in 1 .. Len(w[a])
    PROVE  IsRemoved(w, a, i,
             [w EXCEPT ![a] =
                [j \in 1 .. Len(w[a]) - 1 |-> IF j < i THEN w[a][j] ELSE Moved(w[a][j + 1], w[a][j])]])
  <1>1. PICK s \in Seq(Client) : s = w[a]
    OBVIOUS
  <1>2. Len(s) \in Nat /\ i \in 1 .. Len(s) /\ \A k \in 1 .. Len(s) : s[k] \in Client
    BY <1>1
  <1>3. PICK t : t = [j \in 1 .. Len(s) - 1 |-> IF j < i THEN s[j] ELSE Moved(s[j + 1], s[j])]
    OBVIOUS
  <1>4. ASSUME NEW c \in Client, NEW slot \in Client
        PROVE  /\ Moved(c, slot) \in Client /\ Moved(c, slot).mac = c.mac /\ Follows(c, Moved(c, slot))
    <2>1. slot.power_save_set \in BOOLEAN
      BY DEF Client
    <2>2. Moved(c, slot) \in Client /\ Moved(c, slot).mac = c.mac
      <3>1. PICK p \in BOOLEAN, x \in BOOLEAN :
               p = slot.power_save_set /\ x = (c.mixed \/ slot.power_save_set # c.power_save_set)
        BY <2>1
      <3>2. Moved(c, slot) = [c EXCEPT !.power_save_set = p, !.mixed = x]
        BY <3>1 DEF Client, Moved
      <3> QED
        BY <3>2 DEF Client
    <2>3. Follows(c, Moved(c, slot))
      BY <2>1 DEF Moved, Follows
    <2> QED
      BY <2>2, <2>3
  <1>5. ASSUME NEW c \in Client PROVE Follows(c, c)
    <2>1. c = [c EXCEPT !.power_save_set = c.power_save_set,
                        !.mixed = c.mixed \/ c.power_save_set # c.power_save_set]
      BY DEF Client
    <2>2. c.power_save_set \in BOOLEAN
      BY DEF Client
    <2> QED
      BY <2>1, <2>2 DEF Follows
  <1>6. \A j \in 1 .. Len(s) - 1 : j \in 1 .. Len(s) /\ j + 1 \in 1 .. Len(s) /\ j # j + 1
    BY <1>2
  <1>7. ASSUME NEW j \in 1 .. Len(s) - 1
        PROVE  \E k \in 1 .. Len(s) : /\ k = (IF j < i THEN j ELSE j + 1) /\ k # i
                                      /\ t[j] \in Client /\ t[j].mac = s[k].mac /\ Follows(s[k], t[j])
    <2>1. CASE j < i
      <3>1. t[j] = s[j] /\ s[j] \in Client /\ Follows(s[j], s[j]) /\ j # i
        BY <1>2, <1>3, <1>5, <1>6, <2>1
      <3> QED
        BY <1>6, <2>1, <3>1
    <2>2. CASE ~(j < i)
      <3>1. t[j] = Moved(s[j + 1], s[j])
        BY <1>3, <2>2
      <3>2. t[j] \in Client /\ t[j].mac = s[j + 1].mac /\ Follows(s[j + 1], t[j])
        BY <1>2, <1>4, <1>6, <3>1
      <3>3. j + 1 # i
        BY <1>2, <2>2
      <3> QED
        BY <1>6, <2>2, <3>2, <3>3
    <2> QED
      BY <2>1, <2>2
  <1>8. t \in Seq(Client) /\ Len(t) = Len(s) - 1
    <2>0. \A j \in 1 .. Len(s) - 1 : t[j] \in Client
      BY <1>7
    <2>1. PICK n \in Nat : n = Len(s) - 1
      <3>1. PICK l \in Nat : l = Len(s) /\ i \in 1 .. l
        BY <1>2
      <3>2. l - 1 \in Nat
        BY <3>1
      <3> QED
        BY <3>1, <3>2
    <2>2. t \in [1 .. n -> Client]
      BY <1>3, <2>0, <2>1
    <2>3. t \in Seq(Client) /\ Len(t) = n
      BY <2>2, FunctionSeq
    <2> QED
      BY <2>1, <2>3
  <1>9. PICK x : x = [w EXCEPT ![a] = t]
    OBVIOUS
  <1>10. x \in [Aps -> Seq(Client)] /\ x[a] = t /\ \A b \in Aps : b # a => x[b] = w[b]
    BY <1>8, <1>9
  <1>11. \A j, k \in 1 .. Len(s) - 1 : (IF j < i THEN j ELSE j + 1) = (IF k < i THEN k ELSE k + 1) => j = k
    BY <1>2
  <1>12. \A k \in 1 .. Len(s) : k # i => \E j \in 1 .. Len(s) - 1 : k = IF j < i THEN j ELSE j + 1
    <2> SUFFICES ASSUME NEW k \in 1 .. Len(s), k # i
                 PROVE  \E j \in 1 .. Len(s) - 1 : k = IF j < i THEN j ELSE j + 1
      OBVIOUS
    <2>1. CASE k < i
      <3>1. k \in 1 .. Len(s) - 1
        BY <1>2, <2>1
      <3> QED
        BY <2>1, <3>1
    <2>2. CASE k > i
      <3>1. k - 1 \in 1 .. Len(s) - 1 /\ k = IF k - 1 < i THEN k - 1 ELSE (k - 1) + 1
        BY <1>2, <2>2
      <3> QED
        BY <3>1
    <2> QED
      BY <1>2, <2>1, <2>2
  <1>13. \A b \in Aps : \A j \in 1 .. Len(x[b]) : \E k \in 1 .. Len(w[b]) :
            /\ x[b][j].mac = w[b][k].mac
            /\ b # a => k = j
            /\ b = a => k = (IF j < i THEN j ELSE j + 1)
    BY <1>1, <1>7, <1>8, <1>10
  <1>14. Apart(x)
    <2> SUFFICES ASSUME NEW b \in Aps, NEW c \in Aps, NEW j \in 1 .. Len(x[b]), NEW n \in 1 .. Len(x[c]),
                        x[b][j].mac = x[c][n].mac
                 PROVE  b = c /\ j = n
      BY DEF Apart
    <2>1. PICK k \in 1 .. Len(w[b]) : /\ x[b][j].mac = w[b][k].mac
                                      /\ b # a => k = j
                                      /\ b = a => k = (IF j < i THEN j ELSE j + 1)
      BY <1>13
    <2>2. PICK m \in 1 .. Len(w[c]) : /\ x[c][n].mac = w[c][m].mac
                                      /\ c # a => m = n
                                      /\ c = a => m = (IF n < i THEN n ELSE n + 1)
      BY <1>13
    <2>3. b = c /\ k = m
      <3>1. w[b][k].mac = w[c][m].mac
        BY <2>1, <2>2
      <3> QED
        BY <3>1 DEF Apart
    <2>4. CASE b = a
      <3>1. j \in 1 .. Len(s) - 1 /\ n \in 1 .. Len(s) - 1
        BY <1>8, <1>10, <2>3, <2>4
      <3>2. (IF j < i THEN j ELSE j + 1) = (IF n < i THEN n ELSE n + 1)
        BY <2>1, <2>2, <2>3, <2>4
      <3> QED
        BY <1>11, <2>3, <3>1, <3>2
    <2>5. CASE b # a
      BY <2>1, <2>2, <2>3, <2>5
    <2> QED
      BY <2>3, <2>4, <2>5
  <1>15. ASSUME NEW d, In(x, d)
         PROVE  \E c : In(w, c) /\ c # w[a][i] /\ Follows(c, d)
    <2>0. PICK b \in Aps : \E j \in 1 .. Len(x[b]) : d = x[b][j]
      BY <1>15 DEF In
    <2>1. PICK j \in 1 .. Len(x[b]) : d = x[b][j]
      BY <2>0
    <2>2. CASE b = a
      <3>1. PICK k \in 1 .. Len(s) : k # i /\ Follows(s[k], d)
        BY <1>7, <1>8, <1>10, <2>1, <2>2
      <3>2. In(w, w[a][k]) /\ w[a][k] # w[a][i]
        BY <1>1, <3>1 DEF In, Apart
      <3> QED
        BY <1>1, <3>1, <3>2
    <2>3. CASE b # a
      <3>1. d = w[b][j] /\ j \in 1 .. Len(w[b])
        BY <1>10, <2>1, <2>3
      <3>2. In(w, d) /\ d # w[a][i] /\ d \in Client
        BY <2>3, <3>1 DEF In, Apart
      <3> QED
        BY <1>5, <3>2
    <2> QED
      BY <2>2, <2>3
  <1>16. ASSUME NEW c, In(w, c), c # w[a][i]
         PROVE  \E d : In(x, d) /\ Follows(c, d)
    <2>0. PICK b \in Aps : \E k \in 1 .. Len(w[b]) : c = w[b][k]
      BY <1>16 DEF In
    <2>1. PICK k \in 1 .. Len(w[b]) : c = w[b][k]
      BY <2>0
    <2>2. CASE b = a
      <3>1. k # i /\ k \in 1 .. Len(s)
        BY <1>1, <1>16, <2>1, <2>2
      <3>2. PICK j \in 1 .. Len(s) - 1 : k = IF j < i THEN j ELSE j + 1
        BY <1>12, <3>1
      <3>3. Follows(c, t[j])
        BY <1>1, <1>7, <2>1, <2>2, <3>2
      <3>4. In(x, t[j])
        BY <1>8, <1>10 DEF In
      <3> QED
        BY <3>3, <3>4
    <2>3. CASE b # a
      <3>1. k \in 1 .. Len(x[b]) /\ c = x[b][k] /\ c \in Client
        BY <1>10, <2>1, <2>3
      <3>2. In(x, c)
        BY <3>1 DEF In
      <3> QED
        BY <1>5, <3>1, <3>2
    <2> QED
      BY <2>2, <2>3
  <1> QED
    BY <1>1, <1>3, <1>9, <1>10, <1>14, <1>15, <1>16 DEF IsRemoved

\* The array of an AP is emptied.
IsCleared(w, a, x) ==
    /\ x \in [Aps -> Seq(Client)] /\ Apart(x)
    /\ \A c : In(x, c) <=> In(w, c) /\ ~\E i \in 1 .. Len(w[a]) : c = w[a][i]

\* The clients of an AP go.
LEMMA Cleared ==
    ASSUME NEW w \in [Aps -> Seq(Client)], Apart(w), NEW a \in Aps
    PROVE  IsCleared(w, a, [w EXCEPT ![a] = <<>>])
  <1>1. PICK x : x = [w EXCEPT ![a] = <<>>]
    OBVIOUS
  <1>2. /\ x \in [Aps -> Seq(Client)] /\ Len(x[a]) = 0
        /\ \A b \in Aps : b # a => x[b] = w[b]
    BY <1>1
  <1>3. \A b \in Aps : \A k \in 1 .. Len(x[b]) : b # a /\ x[b] = w[b]
    BY <1>2
  <1>4. Apart(x)
    BY <1>3 DEF Apart
  <1>5. ASSUME NEW c PROVE In(x, c) <=> In(w, c) /\ ~\E i \in 1 .. Len(w[a]) : c = w[a][i]
    <2>1. ASSUME In(x, c) PROVE In(w, c) /\ ~\E i \in 1 .. Len(w[a]) : c = w[a][i]
      <3>0. PICK b \in Aps : \E k \in 1 .. Len(w[b]) : c = w[b][k] /\ b # a
        BY <1>3, <2>1 DEF In
      <3>1. PICK k \in 1 .. Len(w[b]) : c = w[b][k] /\ b # a
        BY <3>0
      <3> QED
        BY <3>1 DEF In, Apart
    <2>2. ASSUME In(w, c), ~\E i \in 1 .. Len(w[a]) : c = w[a][i] PROVE In(x, c)
      <3>0. PICK b \in Aps : \E k \in 1 .. Len(w[b]) : c = w[b][k] /\ b # a
        BY <2>2 DEF In
      <3>1. PICK k \in 1 .. Len(w[b]) : c = w[b][k] /\ b # a
        BY <3>0
      <3> QED
        BY <1>2, <3>1 DEF In
    <2> QED
      BY <2>1, <2>2
  <1> QED
    BY <1>1, <1>2, <1>4, <1>5 DEF IsCleared

\* What a reset may make of client c.
Trims(c, d) == d = c \/ d = ResetV6(c) \/ d = CutShort(c)

\* The client is what it was but for its IPv6 addresses and rules.
LEMMA TrimmedClient ==
    ASSUME NEW c \in Client, NEW d, Trims(c, d)
    PROVE  d \in Client /\ d.mac = c.mac
  <1>1. CASE d = ResetV6(c)
    <2>1. <<>> \in Seq(Ip6)
      OBVIOUS
    <2> QED
      BY <1>1, <2>1 DEF ResetV6, NoRulesV6, Client
  <1>2. CASE d = CutShort(c)
    BY <1>2 DEF CutShort, NoRulesV6, Client
  <1> QED
    BY <1>1, <1>2 DEF Trims

\* Client c is in s.
Holds(s, c) == \E i \in 1 .. Len(s) : c = s[i]

\* The clients t of AP a are what a reset has made of them.
IsTrimmed(w, a, t, x) ==
    /\ x \in [Aps -> Seq(Client)] /\ Apart(x)
    /\ \A d : In(x, d) <=> (In(w, d) /\ ~Holds(w[a], d)) \/ Holds(t, d)
    /\ \A d : Holds(t, d) => \E c : Holds(w[a], c) /\ Trims(c, d)
    /\ \A c : Holds(w[a], c) => \E d : Holds(t, d) /\ Trims(c, d)

\* handle_wlan_client_reset_rt leaves every client in its place.
LEMMA Trimmed ==
    ASSUME NEW w \in [Aps -> Seq(Client)], Apart(w), NEW a \in Aps,
           NEW t, DOMAIN t = 1 .. Len(w[a]), t = [i \in DOMAIN t |-> t[i]],
           \A i \in 1 .. Len(w[a]) : Trims(w[a][i], t[i])
    PROVE  IsTrimmed(w, a, t, [w EXCEPT ![a] = t])
  <1>1. PICK x : x = [w EXCEPT ![a] = t]
    OBVIOUS
  <1>2. PICK s \in Seq(Client) : s = w[a]
    OBVIOUS
  <1>3. Len(s) \in Nat /\ \A i \in 1 .. Len(s) : s[i] \in Client
    OBVIOUS
  <1>4. \A i \in 1 .. Len(s) : t[i] \in Client /\ t[i].mac = s[i].mac
    BY <1>2, <1>3, TrimmedClient
  <1>5. t \in Seq(Client) /\ Len(t) = Len(s)
    <2>1. t \in [1 .. Len(s) -> Client]
      BY <1>2, <1>4
    <2> QED
      BY <1>3, <2>1, FunctionSeq
  <1>6. x \in [Aps -> Seq(Client)] /\ x[a] = t /\ \A b \in Aps : b # a => x[b] = w[b]
    BY <1>1, <1>5
  <1>7. \A b \in Aps : Len(x[b]) = Len(w[b]) /\ \A k \in 1 .. Len(w[b]) : x[b][k].mac = w[b][k].mac
    BY <1>2, <1>4, <1>5, <1>6
  <1>8. Apart(x)
    BY <1>7 DEF Apart
  <1>9. ASSUME NEW d PROVE In(x, d) <=> (In(w, d) /\ ~Holds(w[a], d)) \/ Holds(t, d)
    <2>1. ASSUME NEW b \in Aps, NEW k \in 1 .. Len(x[b]), d = x[b][k]
          PROVE  (In(w, d) /\ ~Holds(w[a], d)) \/ Holds(t, d)
      <3>1. CASE b = a
        BY <1>6, <2>1, <3>1 DEF Holds
      <3>2. CASE b # a
        <4>1. k \in 1 .. Len(w[b]) /\ d = w[b][k]
          BY <1>6, <2>1, <3>2
        <4> QED
          BY <3>2, <4>1 DEF In, Holds, Apart
      <3> QED
        BY <3>1, <3>2
    <2>2. ASSUME NEW b \in Aps, NEW k \in 1 .. Len(w[b]), d = w[b][k], ~Holds(w[a], d)
          PROVE  In(x, d)
      <3>1. b # a
        BY <2>2 DEF Holds
      <3>2. k \in 1 .. Len(x[b]) /\ d = x[b][k]
        BY <1>6, <2>2, <3>1
      <3> QED
        BY <3>2 DEF In
    <2>3. ASSUME Holds(t, d) PROVE In(x, d)
      BY <1>6, <2>3 DEF In, Holds
    <2> QED
      BY <2>1, <2>2, <2>3 DEF In
  <1>10. /\ \A d : Holds(t, d) => \E c : Holds(w[a], c) /\ Trims(c, d)
         /\ \A c : Holds(w[a], c) => \E d : Holds(t, d) /\ Trims(c, d)
    BY <1>2, <1>5 DEF Holds
  <1> QED
    BY <1>1, <1>6, <1>8, <1>9, <1>10 DEF IsTrimmed

-----------------------------------------------------------------------------
(* The rules of a client.                                                  *)

\* The fields of a client.
LEMMA ClientFields ==
    ASSUME NEW c \in Client
    PROVE  /\ c.mac \in Macs /\ c.v4_addr \in Ip4 \cup {NoIp} /\ c.rule_v4 \in SUBSET Things
           /\ c.v6_addr \in Seq(Ip6) /\ c.rules_v6 \in SUBSET Things /\ c.route_rule_set_v6 \in Nat
           /\ c.power_save_set \in BOOLEAN /\ c.asleep \in BOOLEAN /\ c.mixed \in BOOLEAN
           /\ c.denied \in BOOLEAN /\ c.cut \in BOOLEAN
           /\ Len(c.v6_addr) \in Nat /\ \A k \in 1 .. Len(c.v6_addr) : c.v6_addr[k] \in Ip6
  <1>1. c.v6_addr \in Seq(Ip6)
    BY DEF Client
  <1> QED
    BY <1>1 DEF Client

\* The two rules of an address.
LEMMA TwoRules ==
    ASSUME NEW m, NEW ip
    PROVE  Range(V6Rules(m, ip)) = {Thing("lan", m, ip), Thing("wan", m, ip)}
  BY DEF Range, V6Rules

\* The list of the rules that are missing names both rules of each address behind the
\* count.
LEMMA NeededV6Range ==
    ASSUME NEW c \in Client, c.route_rule_set_v6 <= Len(c.v6_addr), ~c.power_save_set
    PROVE  Range(NeededV6(c)) = RulesV6(c, c.route_rule_set_v6 + 1 .. Len(c.v6_addr))
  <1>1. PICK m \in Macs, r \in Nat, v \in Seq(Ip6) :
           m = c.mac /\ r = c.route_rule_set_v6 /\ v = c.v6_addr
    BY ClientFields
  <1>2. PICK n \in Nat : n = Len(v) - r
    BY <1>1
  <1>3. PICK f : f = [k \in 1 .. 2 * n |-> V6Rules(m, v[r + (k + 1) \div 2])[2 - (k % 2)]]
    OBVIOUS
  <1>4. f = NeededV6(c)
    BY <1>1, <1>2, <1>3 DEF NeededV6
  <1>5. \A k \in 1 .. 2 * n : /\ (k + 1) \div 2 \in 1 .. n
                              /\ k % 2 = 1 \/ k % 2 = 0
    BY <1>2
  <1>6. \A j \in 1 .. n : /\ 2 * j - 1 \in 1 .. 2 * n /\ ((2 * j - 1) + 1) \div 2 = j /\ (2 * j - 1) % 2 = 1
                          /\ 2 * j \in 1 .. 2 * n /\ (2 * j + 1) \div 2 = j /\ (2 * j) % 2 = 0
    BY <1>2
  <1>7. \A ip : V6Rules(m, ip)[1] = Thing("lan", m, ip) /\ V6Rules(m, ip)[2] = Thing("wan", m, ip)
    BY DEF V6Rules
  <1>8. \A x : x \in Range(f) <=> \E j \in 1 .. n : x = Thing("lan", m, v[r + j]) \/ x = Thing("wan", m, v[r + j])
    <2> SUFFICES ASSUME NEW x
                 PROVE  x \in Range(f) <=>
                          \E j \in 1 .. n : x = Thing("lan", m, v[r + j]) \/ x = Thing("wan", m, v[r + j])
      OBVIOUS
    <2>1. x \in Range(f) <=> \E k \in 1 .. 2 * n : x = f[k]
      BY <1>3 DEF Range
    <2>2. ASSUME NEW k \in 1 .. 2 * n
          PROVE  \E j \in 1 .. n : f[k] = Thing("lan", m, v[r + j]) \/ f[k] = Thing("wan", m, v[r + j])
      <3>1. PICK j \in 1 .. n : j = (k + 1) \div 2
        BY <1>5
      <3>2. CASE k % 2 = 1
        <4>1. f[k] = V6Rules(m, v[r + j])[1]
          BY <1>3, <3>1, <3>2
        <4> QED
          BY <1>7, <4>1
      <3>3. CASE k % 2 = 0
        <4>1. f[k] = V6Rules(m, v[r + j])[2]
          BY <1>3, <3>1, <3>3
        <4> QED
          BY <1>7, <4>1
      <3> QED
        BY <1>5, <3>2, <3>3
    <2>3. ASSUME NEW j \in 1 .. n
          PROVE  /\ \E k \in 1 .. 2 * n : f[k] = Thing("lan", m, v[r + j])
                 /\ \E k \in 1 .. 2 * n : f[k] = Thing("wan", m, v[r + j])
      <3>1. PICK k \in 1 .. 2 * n : (k + 1) \div 2 = j /\ k % 2 = 1
        BY <1>6
      <3>2. f[k] = V6Rules(m, v[r + j])[1]
        BY <1>3, <3>1
      <3>3. PICK l \in 1 .. 2 * n : (l + 1) \div 2 = j /\ l % 2 = 0
        BY <1>6
      <3>4. f[l] = V6Rules(m, v[r + j])[2]
        <4>1. 2 - (l % 2) = 2
          BY <3>3
        <4>2. f[l] = V6Rules(m, v[r + (l + 1) \div 2])[2 - (l % 2)]
          BY <1>3
        <4> QED
          BY <3>3, <4>1, <4>2
      <3> QED
        BY <1>7, <3>2, <3>4
    <2> QED
      BY <2>1, <2>2, <2>3
  <1>9. \A x : x \in RulesV6(c, r + 1 .. Len(v)) <=>
                  \E j \in r + 1 .. Len(v) : x = Thing("lan", m, v[j]) \/ x = Thing("wan", m, v[j])
    BY <1>1, TwoRules DEF RulesV6
  <1>10. \A x : (\E j \in 1 .. n : x = Thing("lan", m, v[r + j]) \/ x = Thing("wan", m, v[r + j]))
                  <=> (\E j \in r + 1 .. Len(v) : x = Thing("lan", m, v[j]) \/ x = Thing("wan", m, v[j]))
    <2>1. \A j \in 1 .. n : r + j \in r + 1 .. Len(v)
      BY <1>1, <1>2
    <2>2. \A j \in r + 1 .. Len(v) : j - r \in 1 .. n /\ r + (j - r) = j
      BY <1>1, <1>2
    <2> QED
      BY <2>1, <2>2
  <1>11. Range(f) = RulesV6(c, r + 1 .. Len(v))
    <2>1. \A x : x \in Range(f) <=> x \in RulesV6(c, r + 1 .. Len(v))
      BY <1>8, <1>9, <1>10, Zenon
    <2> QED
      BY <2>1
  <1> QED
    BY <1>1, <1>4, <1>11

\* What NAT knows of a client is the same.
Same(c, d) ==
    /\ d.mac = c.mac /\ d.v4_addr = c.v4_addr /\ (d.asleep <=> c.asleep)
    /\ c.mixed => d.mixed

\* The IPv4 rule, or its refusal.
LEMMA RouteV4 ==
    ASSUME NEW ipv, NEW c, Fits(c, ipv), NEW n
    PROVE  Fits(RoutedV4(c, n), ipv \cup {4}) /\ Same(c, RoutedV4(c, n))
  <1>1. c \in Client
    BY DEF Fits
  <1>2. PICK d : d = RoutedV4(c, n)
    OBVIOUS
  <1>3. PICK R : R = IF n < Len(NeededV4(c)) THEN c.rule_v4 ELSE c.rule_v4 \cup Range(NeededV4(c))
    OBVIOUS
  <1>4. PICK x \in BOOLEAN : x = IF n < Len(NeededV4(c)) THEN TRUE ELSE c.denied
    BY <1>1, ClientFields
  <1>5. Range(NeededV4(c)) = IF c.power_save_set \/ c.rule_v4 # {} \/ c.v4_addr = NoIp THEN {}
                             ELSE {Thing("rt4", c.mac, c.v4_addr)}
    BY DEF NeededV4, Range
  <1>6. d = [c EXCEPT !.rule_v4 = R, !.denied = x]
    <2>1. CASE n < Len(NeededV4(c))
      BY <1>1, <1>2, <1>3, <1>4, <2>1 DEF RoutedV4, Client
    <2>2. CASE ~(n < Len(NeededV4(c)))
      BY <1>1, <1>2, <1>3, <1>4, <2>2 DEF RoutedV4, Client
    <2> QED
      BY <2>1, <2>2
  <1>7. R \in SUBSET Things /\ R \subseteq {Thing("rt4", c.mac, c.v4_addr)}
    <2>1. c.rule_v4 \in SUBSET Things /\ c.rule_v4 \subseteq {Thing("rt4", c.mac, c.v4_addr)}
      BY <1>1, ClientFields DEF Fits
    <2>2. Thing("rt4", c.mac, c.v4_addr) \in Things
      BY <1>1, ClientFields DEF Thing, Things
    <2> QED
      BY <1>3, <1>5, <2>1, <2>2
  <1>8. d \in Client
    BY <1>1, <1>6, <1>7 DEF Client
  <1>9. /\ d.mac = c.mac /\ d.v4_addr = c.v4_addr /\ d.rule_v4 = R /\ d.v6_addr = c.v6_addr
        /\ d.rules_v6 = c.rules_v6 /\ d.route_rule_set_v6 = c.route_rule_set_v6
        /\ (d.power_save_set <=> c.power_save_set) /\ (d.asleep <=> c.asleep)
        /\ (d.mixed <=> c.mixed) /\ (d.denied <=> x) /\ (d.cut <=> c.cut)
    BY <1>1, <1>6 DEF Client
  <1>10. RulesV6(d, 1 .. d.route_rule_set_v6) = RulesV6(c, 1 .. c.route_rule_set_v6)
    BY <1>9 DEF RulesV6
  <1>11. ASSUME ~c.mixed
         PROVE  /\ d.asleep => R = {}
                /\ ~d.asleep /\ ~d.denied /\ d.v4_addr # NoIp => R # {}
    <2>1. (c.power_save_set <=> c.asleep) /\ (c.asleep => c.rule_v4 = {})
      BY <1>11 DEF Fits
    <2>2. c.asleep => R = {}
      BY <1>3, <1>5, <2>1
    <2>3. ~c.asleep /\ ~x /\ c.v4_addr # NoIp => R # {}
      <3>1. x \/ R = c.rule_v4 \cup Range(NeededV4(c))
        BY <1>3, <1>4
      <3> QED
        BY <1>5, <2>1, <3>1
    <2> QED
      BY <1>9, <2>2, <2>3
  <1>12. ~d.mixed => /\ d.power_save_set <=> d.asleep
                     /\ d.asleep => d.rule_v4 = {} /\ d.rules_v6 = {}
                     /\ ~d.asleep /\ ~d.denied =>
                          /\ 4 \in ipv \cup {4} /\ d.v4_addr # NoIp => d.rule_v4 # {}
                          /\ 6 \in ipv \cup {4} => d.route_rule_set_v6 = IF d.cut THEN 0 ELSE Len(d.v6_addr)
    <2>1. (c.denied => x) /\ x \in BOOLEAN
      BY <1>4
    <2> QED
      BY <1>9, <1>11, <2>1 DEF Fits
  <1>13. Fits(d, ipv \cup {4})
    BY <1>7, <1>8, <1>9, <1>10, <1>12 DEF Fits
  <1>14. Same(c, d)
    BY <1>9 DEF Same
  <1> QED
    BY <1>2, <1>13, <1>14

\* The IPv6 rules, or the refusal of one of them.
LEMMA RouteV6 ==
    ASSUME NEW ipv, NEW c, Fits(c, ipv), NEW n
    PROVE  Fits(RoutedV6(c, n), ipv \cup {6}) /\ Same(c, RoutedV6(c, n))
  <1>1. c \in Client
    BY DEF Fits
  <1>2. PICK d : d = RoutedV6(c, n)
    OBVIOUS
  <1>3. CASE n < Len(NeededV6(c))
    <2>1. d = [c EXCEPT !.denied = TRUE]
      BY <1>2, <1>3 DEF RoutedV6
    <2>2. /\ d \in Client
          /\ d.mac = c.mac /\ d.v4_addr = c.v4_addr /\ d.rule_v4 = c.rule_v4 /\ d.v6_addr = c.v6_addr
          /\ d.rules_v6 = c.rules_v6 /\ d.route_rule_set_v6 = c.route_rule_set_v6
          /\ (d.power_save_set <=> c.power_save_set) /\ (d.asleep <=> c.asleep)
          /\ (d.mixed <=> c.mixed) /\ d.denied /\ (d.cut <=> c.cut)
      BY <1>1, <2>1 DEF Client
    <2>3. RulesV6(d, 1 .. d.route_rule_set_v6) = RulesV6(c, 1 .. c.route_rule_set_v6)
      BY <2>2 DEF RulesV6
    <2>4. Fits(d, ipv \cup {6})
      BY <2>2, <2>3 DEF Fits
    <2> QED
      BY <1>2, <2>2, <2>4 DEF Same
  <1>4. CASE ~(n < Len(NeededV6(c)))
    <2>1. PICK R, r : /\ R = c.rules_v6 \cup Range(NeededV6(c))
                      /\ r = IF c.power_save_set THEN c.route_rule_set_v6 ELSE Len(c.v6_addr)
      OBVIOUS
    <2>0. PICK u \in BOOLEAN : u = (c.cut /\ c.power_save_set)
      OBVIOUS
    <2>2. d = [c EXCEPT !.rules_v6 = R, !.route_rule_set_v6 = r, !.cut = u]
      BY <1>1, <1>2, <1>4, <2>0, <2>1 DEF RoutedV6, Client
    <2>3. r \in Nat /\ r <= Len(c.v6_addr) /\ Len(c.v6_addr) <= IPV6_NUM_ADDR
      BY <1>1, <2>1, ClientFields DEF Fits
    <2>4. R = RulesV6(c, 1 .. r)
      <3>1. c.rules_v6 = RulesV6(c, 1 .. c.route_rule_set_v6) /\ c.route_rule_set_v6 <= Len(c.v6_addr)
        BY DEF Fits
      <3>2. CASE c.power_save_set
        <4>1. Range(NeededV6(c)) = {}
          BY <3>2 DEF NeededV6, Range
        <4> QED
          BY <2>1, <3>1, <3>2, <4>1
      <3>3. CASE ~c.power_save_set
        <4>1. Range(NeededV6(c)) = RulesV6(c, c.route_rule_set_v6 + 1 .. Len(c.v6_addr))
          BY <1>1, <3>1, <3>3, NeededV6Range
        <4>2. PICK K : K = 1 .. c.route_rule_set_v6
          OBVIOUS
        <4>3. PICK L : L = c.route_rule_set_v6 + 1 .. Len(c.v6_addr)
          OBVIOUS
        <4>4. K \cup L = 1 .. Len(c.v6_addr)
          BY <1>1, <3>1, <4>2, <4>3, ClientFields
        <4>5. RulesV6(c, K) \cup RulesV6(c, L) = RulesV6(c, K \cup L)
          BY DEF RulesV6
        <4> QED
          BY <2>1, <3>1, <3>3, <4>1, <4>2, <4>3, <4>4, <4>5
      <3> QED
        BY <3>2, <3>3
    <2>5. \A k \in 1 .. r : Range(V6Rules(c.mac, c.v6_addr[k])) \subseteq Things
      <3>1. \A k \in 1 .. r : c.v6_addr[k] \in Ip6
        BY <1>1, <2>3, ClientFields
      <3>2. \A ip \in Ip6 : {Thing("lan", c.mac, ip), Thing("wan", c.mac, ip)} \subseteq Things
        BY <1>1, ClientFields DEF Thing, Things
      <3> QED
        BY <3>1, <3>2, TwoRules
    <2>6. R \in SUBSET Things
      BY <2>4, <2>5 DEF RulesV6
    <2>7. /\ d \in Client
          /\ d.mac = c.mac /\ d.v4_addr = c.v4_addr /\ d.rule_v4 = c.rule_v4 /\ d.v6_addr = c.v6_addr
          /\ d.rules_v6 = R /\ d.route_rule_set_v6 = r
          /\ (d.power_save_set <=> c.power_save_set) /\ (d.asleep <=> c.asleep)
          /\ (d.mixed <=> c.mixed) /\ (d.denied <=> c.denied) /\ (d.cut <=> u)
      BY <1>1, <2>2, <2>3, <2>6 DEF Client
    <2>8. RulesV6(d, 1 .. d.route_rule_set_v6) = R
      BY <2>4, <2>7 DEF RulesV6
    <2>9. ASSUME ~c.mixed
          PROVE  (c.asleep => R = {}) /\ (~c.asleep => r = Len(c.v6_addr) /\ ~u)
      <3>1. (c.power_save_set <=> c.asleep) /\ (c.asleep => c.rules_v6 = {})
        BY <2>9 DEF Fits
      <3>2. c.power_save_set => Range(NeededV6(c)) = {}
        BY DEF NeededV6, Range
      <3> QED
        BY <2>0, <2>1, <3>1, <3>2
    <2>10. Fits(d, ipv \cup {6})
      BY <2>3, <2>7, <2>8, <2>9 DEF Fits
    <2> QED
      BY <1>2, <2>7, <2>10 DEF Same
  <1> QED
    BY <1>3, <1>4

-----------------------------------------------------------------------------
(* The invariant.                                                          *)

MacsUsed == {c.mac : c \in All}

SlotsOK ==
    /\ active \in [Aps -> BOOLEAN] /\ ip_type \in [Aps -> {"null", "v4", "v6"}]
    /\ wlan_client \in [Aps -> Seq(Client)] /\ Apart(wlan_client)
    /\ faults \in 0 .. MaxFaults

ClientsOK == \A c \in All : Fits(c, {4, 6})

CountOK ==
    /\ IsFiniteSet(MacsUsed) /\ total_num_wifi_clients = Cardinality(MacsUsed)
    /\ total_num_wifi_clients <= IPA_MAX_NUM_WIFI_CLIENTS

\* Among the clients A an address is one client's.
Own(A) == \A c, d \in A : c.v4_addr = d.v4_addr /\ c.v4_addr # NoIp => c = d

NatOK ==
    /\ nat_iface_ipv4_addr \subseteq Ip4 /\ PwrSaveIfs \subseteq Ip4 /\ abandoned \subseteq Ip4
    /\ Own(All) /\ NatListIsExact /\ NoSleepWithoutSleeper

WlanInv == SlotsOK /\ ClientsOK /\ CountOK /\ NatOK

\* The clients before a step, and after it.
LEMMA Members ==
    ASSUME SlotsOK
    PROVE  \A c : (c \in All <=> In(wlan_client, c)) /\ (c \in All => c \in Client)
  BY AllIn DEF SlotsOK, All, Clients

\* The same after a step.
LEMMA MembersAfter ==
    ASSUME wlan_client' \in [Aps -> Seq(Client)]
    PROVE  \A c : (c \in All' <=> In(wlan_client', c)) /\ (c \in All' => c \in Client)
  <1>1. PICK w \in [Aps -> Seq(Client)] : w = wlan_client'
    OBVIOUS
  <1>2. All' = UNION {Range(w[a]) : a \in Aps}
    BY <1>1 DEF All, Clients
  <1> QED
    BY <1>1, <1>2, AllIn

\* Among the clients, new takes the place of old.
Swap(A, B, old, new) == \A d : d \in B <=> (d \in A /\ d # old) \/ d = new

\* handle_wlan_client_route_rule: a client whose other rules are right is right, or some
\* rule was refused, and it is where it was.
LEMMA RuleHandler ==
    ASSUME SlotsOK, NEW a \in Aps, NEW i \in 1 .. Len(wlan_client[a]), NEW ipv \in SUBSET {4, 6},
           NEW c, Fits(c, {4, 6} \ ipv), c.mac = wlan_client[a][i].mac,
           handle_wlan_client_route_rule(a, i, c, ipv)
    PROVE  /\ faults' \in 0 .. MaxFaults
           /\ wlan_client' \in [Aps -> Seq(Client)] /\ Apart(wlan_client')
           /\ \E new : /\ Fits(new, {4, 6}) /\ Same(c, new)
                       /\ Swap(All, All', wlan_client[a][i], new)
  <1>0. PICK n4, n6 :
           LET needed4 == IF 4 \in ipv THEN NeededV4(c) ELSE <<>>
               needed6 == IF 6 \in ipv THEN NeededV6(c) ELSE <<>>
               new4 == IF 4 \in ipv THEN RoutedV4(c, n4) ELSE c
               new  == IF 6 \in ipv THEN RoutedV6(new4, n6) ELSE new4
           IN /\ faults' = faults + (IF n4 < Len(needed4) THEN 1 ELSE 0)
                                  + (IF n6 < Len(needed6) THEN 1 ELSE 0)
              /\ faults' <= MaxFaults
              /\ wlan_client' = [wlan_client EXCEPT ![a][i] = new]
    BY Zenon DEF handle_wlan_client_route_rule
  <1>1. PICK x \in {0, 1}, y \in {0, 1} :
           LET new4 == IF 4 \in ipv THEN RoutedV4(c, n4) ELSE c
               new  == IF 6 \in ipv THEN RoutedV6(new4, n6) ELSE new4
           IN /\ faults' = faults + x + y /\ faults' <= MaxFaults
              /\ wlan_client' = [wlan_client EXCEPT ![a][i] = new]
    BY <1>0
  <1>2. PICK new4 : new4 = IF 4 \in ipv THEN RoutedV4(c, n4) ELSE c
    OBVIOUS
  <1>3. PICK new : new = IF 6 \in ipv THEN RoutedV6(new4, n6) ELSE new4
    OBVIOUS
  <1>4. wlan_client' = [wlan_client EXCEPT ![a][i] = new] /\ faults' = faults + x + y /\ faults' <= MaxFaults
    BY <1>1, <1>2, <1>3
  <1>5. PICK V : V = {4, 6} \ ipv
    OBVIOUS
  <1>6. Fits(c, V) /\ Same(c, c)
    BY <1>5 DEF Same
  <1>7. Fits(new4, IF 4 \in ipv THEN V \cup {4} ELSE V) /\ Same(c, new4)
    BY <1>2, <1>6, RouteV4
  <1>8. PICK V4s : V4s = IF 4 \in ipv THEN V \cup {4} ELSE V
    OBVIOUS
  <1>9. Fits(new, IF 6 \in ipv THEN V4s \cup {6} ELSE V4s) /\ Same(c, new)
    <2>1. CASE 6 \in ipv
      <3>1. Fits(new, V4s \cup {6}) /\ Same(new4, new)
        BY <1>3, <1>7, <1>8, <2>1, RouteV6
      <3>2. Same(c, new)
        BY <1>7, <3>1 DEF Same
      <3> QED
        BY <2>1, <3>1, <3>2
    <2>2. CASE 6 \notin ipv
      BY <1>3, <1>7, <1>8, <2>2
    <2> QED
      BY <2>1, <2>2
  <1>10. (IF 6 \in ipv THEN V4s \cup {6} ELSE V4s) = {4, 6}
    BY <1>5, <1>8
  <1>11. Fits(new, {4, 6}) /\ new \in Client /\ new.mac = wlan_client[a][i].mac
    BY <1>9, <1>10 DEF Fits, Same
  <1>12. PICK w \in [Aps -> Seq(Client)] : w = wlan_client /\ Apart(w)
    BY DEF SlotsOK
  <1>13. /\ wlan_client' \in [Aps -> Seq(Client)] /\ Apart(wlan_client')
         /\ \A d : In(wlan_client', d) <=> (In(w, d) /\ d # w[a][i]) \/ d = new
    <2>1. i \in 1 .. Len(w[a]) /\ new.mac = w[a][i].mac
      BY <1>11, <1>12
    <2>2. IsReplaced(w, a, i, new, [w EXCEPT ![a][i] = new])
      BY <1>11, <1>12, <2>1, Replaced
    <2> QED
      BY <1>4, <1>12, <2>2 DEF IsReplaced
  <1>14. Swap(All, All', wlan_client[a][i], new)
    BY <1>12, <1>13, Members, MembersAfter DEF Swap
  <1>15. faults' \in 0 .. MaxFaults
    BY <1>4, WlanAssumption DEF SlotsOK
  <1> QED
    BY <1>9, <1>11, <1>13, <1>14, <1>15

\* A client that keeps its name and its address.
LEMMA SwapSame ==
    ASSUME NEW A, NEW B, NEW old \in A, NEW new, Swap(A, B, old, new), new.mac = old.mac
    PROVE  /\ {c.mac : c \in B} = {c.mac : c \in A}
           /\ new.v4_addr = old.v4_addr => V4(B) = V4(A) /\ (Own(A) => Own(B))
  <1>1. \A d : d \in B <=> (d \in A /\ d # old) \/ d = new
    BY DEF Swap
  <1>2. {c.mac : c \in B} = {c.mac : c \in A}
    <2>1. \A d \in B : \E c \in A : c.mac = d.mac
      BY <1>1
    <2>2. \A c \in A : \E d \in B : d.mac = c.mac
      BY <1>1
    <2> QED
      BY <2>1, <2>2
  <1>3. ASSUME new.v4_addr = old.v4_addr PROVE V4(B) = V4(A) /\ (Own(A) => Own(B))
    <2>1. \A d \in B : \E c \in A : c.v4_addr = d.v4_addr
      BY <1>1, <1>3
    <2>2. \A c \in A : \E d \in B : d.v4_addr = c.v4_addr
      BY <1>1, <1>3
    <2>3. V4(B) = V4(A)
      BY <2>1, <2>2 DEF V4
    <2>4. Own(A) => Own(B)
      BY <1>1, <1>3 DEF Own
    <2> QED
      BY <2>3, <2>4
  <1> QED
    BY <1>2, <1>3

\* Among the clients B an address is one client's; they have the addresses of A, but for
\* old's, and new's.
Readdressed(A, B, old, new) == Own(B) /\ V4(B) = (V4(A) \ {old.v4_addr}) \cup {new.v4_addr}

\* A client that gets an address nobody has.
LEMMA SwapAddress ==
    ASSUME NEW A, NEW B, NEW old \in A, NEW new, Swap(A, B, old, new), Own(A),
           new.v4_addr \notin V4(A), new.v4_addr # NoIp
    PROVE  Readdressed(A, B, old, new)
  <1>1. \A d : d \in B <=> (d \in A /\ d # old) \/ d = new
    BY DEF Swap
  <1>2. \A c \in A : c.v4_addr # new.v4_addr
    BY DEF V4
  <1>3. Own(B)
    BY <1>1, <1>2 DEF Own
  <1>4. \A x : x # NoIp /\ (\E d \in B : d.v4_addr = x) <=>
               x # NoIp /\ ((x # old.v4_addr /\ \E c \in A : c.v4_addr = x) \/ x = new.v4_addr)
    <2> SUFFICES ASSUME NEW x, x # NoIp
                 PROVE  (\E d \in B : d.v4_addr = x) <=>
                          (x # old.v4_addr /\ \E c \in A : c.v4_addr = x) \/ x = new.v4_addr
      OBVIOUS
    <2>1. ASSUME NEW d \in B, d.v4_addr = x
          PROVE  (x # old.v4_addr /\ \E c \in A : c.v4_addr = x) \/ x = new.v4_addr
      BY <1>1, <2>1 DEF Own
    <2>2. ASSUME x # old.v4_addr, NEW c \in A, c.v4_addr = x PROVE \E d \in B : d.v4_addr = x
      BY <1>1, <2>2
    <2>3. new \in B
      BY <1>1
    <2> QED
      BY <2>1, <2>2, <2>3
  <1>5. V4(B) = (V4(A) \ {old.v4_addr}) \cup {new.v4_addr}
    BY <1>4 DEF V4
  <1> QED
    BY <1>3, <1>5 DEF Readdressed

\* The parts of the invariant that do not speak of NAT, when a client changes.
LEMMA ClientChanged ==
    ASSUME SlotsOK, ClientsOK, CountOK, NEW a \in Aps, NEW i \in 1 .. Len(wlan_client[a]),
           NEW ipv \in SUBSET {4, 6}, NEW c, Fits(c, {4, 6} \ ipv), c.mac = wlan_client[a][i].mac,
           handle_wlan_client_route_rule(a, i, c, ipv), Only(a), UNCHANGED total_num_wifi_clients
    PROVE  /\ SlotsOK' /\ ClientsOK' /\ CountOK'
           /\ wlan_client[a][i] \in All
           /\ \E new : Same(c, new) /\ Swap(All, All', wlan_client[a][i], new)
  <1>1. /\ faults' \in 0 .. MaxFaults
        /\ wlan_client' \in [Aps -> Seq(Client)] /\ Apart(wlan_client')
        /\ \E new : /\ Fits(new, {4, 6}) /\ Same(c, new)
                    /\ Swap(All, All', wlan_client[a][i], new)
    BY RuleHandler
  <1>2. PICK new : /\ Fits(new, {4, 6}) /\ Same(c, new)
                   /\ Swap(All, All', wlan_client[a][i], new)
    BY <1>1
  <1>3. wlan_client[a][i] \in All
    <2>1. In(wlan_client, wlan_client[a][i])
      BY DEF In
    <2> QED
      BY <2>1, Members
  <1>4. SlotsOK'
    BY <1>1 DEF SlotsOK, Only
  <1>5. ClientsOK'
    BY <1>2 DEF ClientsOK, Swap
  <1>6. CountOK'
    <2>1. new.mac = wlan_client[a][i].mac
      BY <1>2 DEF Same
    <2>2. MacsUsed' = MacsUsed
      BY <1>2, <1>3, <2>1, SwapSame DEF MacsUsed
    <2> QED
      BY <2>2 DEF CountOK
  <1> QED
    BY <1>2, <1>3, <1>4, <1>5, <1>6

\* NAT goes on knowing who is behind it when the client keeps its address.
LEMMA AddressesStay ==
    ASSUME NatOK, NEW old \in All, NEW new, Swap(All, All', old, new), new.mac = old.mac,
           new.v4_addr = old.v4_addr, UNCHANGED <<nat_iface_ipv4_addr, abandoned>>
    PROVE  Own(All)' /\ NatListIsExact'
  <1>1. V4(All') = V4(All) /\ Own(All')
    BY SwapSame DEF NatOK
  <1>2. V4(All)' = V4(All) /\ Own(All)'
    BY <1>1 DEF V4, Own
  <1> QED
    BY <1>2 DEF NatOK, NatListIsExact

-----------------------------------------------------------------------------
(* Clients that leave.                                                     *)

\* d is client c, as far as NAT and the count can tell.
Likes(c, d) ==
    /\ d.mac = c.mac /\ d.v4_addr = c.v4_addr
    /\ c.asleep \/ c.mixed => d.asleep \/ d.mixed

\* The clients B are those of A without those of G.
Leaves(A, B, G) ==
    /\ G \subseteq A
    /\ \A d \in B : \E c \in A \ G : Likes(c, d)
    /\ \A c \in A \ G : \E d \in B : Likes(c, d)

MacsOf(A) == {c.mac : c \in A}

\* A MAC address is one client's.
OneMac(A) == \A c, d \in A : c.mac = d.mac => c = d

\* The arrays hold a MAC address once.
LEMMA MacOwner ==
    ASSUME SlotsOK
    PROVE  OneMac(All)
  <1>1. \A c, d : In(wlan_client, c) /\ In(wlan_client, d) /\ c.mac = d.mac => c = d
    BY DEF In, SlotsOK, Apart
  <1> QED
    BY <1>1, Members DEF OneMac

\* The names and the addresses of those that stay.
Stays(A, B, G) ==
    /\ MacsOf(B) = MacsOf(A) \ MacsOf(G)
    /\ V4(B) = V4(A) \ V4(G)
    /\ Own(B)

\* What the clients that leave take with them.
LEMMA Stay ==
    ASSUME NEW A, NEW B, NEW G, Leaves(A, B, G), OneMac(A), OneMac(B), Own(A)
    PROVE  Stays(A, B, G)
  <1>1. \A d \in B : \E c \in A : c \notin G /\ d.mac = c.mac /\ d.v4_addr = c.v4_addr
    BY DEF Leaves, Likes
  <1>2. \A c \in A : c \notin G => \E d \in B : d.mac = c.mac /\ d.v4_addr = c.v4_addr
    BY DEF Leaves, Likes
  <1>3. \A c \in G : c \in A
    BY DEF Leaves
  <1>4. MacsOf(B) = MacsOf(A) \ MacsOf(G)
    <2>1. \A m : (\E d \in B : m = d.mac) <=> (\E c \in A : m = c.mac) /\ ~\E c \in G : m = c.mac
      BY <1>1, <1>2, <1>3 DEF OneMac
    <2> QED
      BY <2>1 DEF MacsOf
  <1>5. V4(B) = V4(A) \ V4(G)
    <2>1. \A x : x # NoIp => ((\E d \in B : x = d.v4_addr)
                                <=> (\E c \in A : x = c.v4_addr) /\ ~\E c \in G : x = c.v4_addr)
      BY <1>1, <1>2, <1>3 DEF Own
    <2> QED
      BY <2>1 DEF V4
  <1>6. Own(B)
    <2> SUFFICES ASSUME NEW d \in B, NEW e \in B, d.v4_addr = e.v4_addr, d.v4_addr # NoIp
                 PROVE  d.mac = e.mac
      BY DEF Own, OneMac
    <2> QED
      BY <1>1 DEF Own
  <1> QED
    BY <1>4, <1>5, <1>6 DEF Stays

\* NAT hears of those that leave, or they are abandoned.
LEMMA NatFollows ==
    ASSUME NatOK, NEW G, Leaves(All, All', G), OneMac(All), OneMac(All'), V4(G) \subseteq Ip4,
           \/ HandleNeighIpAddrDelEvt(V4(G))
           \/ UNCHANGED <<nat_iface_ipv4_addr, PwrSaveIfs>> /\ abandoned' = abandoned \cup V4(G)
    PROVE  NatOK'
  <1>1. Stays(All, All', G)
    BY Stay DEF NatOK
  <1>2. V4(All)' = V4(All) \ V4(G) /\ Own(All)'
    BY <1>1 DEF Stays, V4, Own
  <1>3. NatListIsExact'
    <2>1. V4(G) \subseteq V4(All)
      BY DEF Leaves, V4
    <2> QED
      BY <1>2, <2>1 DEF NatOK, NatListIsExact, HandleNeighIpAddrDelEvt
  <1>4. NoSleepWithoutSleeper'
    <2> SUFFICES ASSUME NEW x \in PwrSaveIfs' \ abandoned'
                 PROVE  \E d \in All' : d.v4_addr = x /\ (d.asleep \/ d.mixed)
      BY DEF NoSleepWithoutSleeper
    <2>1. x \in PwrSaveIfs \ abandoned /\ x \notin V4(G) /\ x # NoIp
      BY WlanAssumption DEF NatOK, HandleNeighIpAddrDelEvt
    <2>2. PICK c \in All : c.v4_addr = x /\ (c.asleep \/ c.mixed)
      BY <2>1 DEF NatOK, NoSleepWithoutSleeper
    <2>3. c \notin G
      BY <2>1, <2>2 DEF V4
    <2>4. PICK d \in All' : Likes(c, d)
      BY <2>2, <2>3 DEF Leaves
    <2> QED
      BY <2>2, <2>4 DEF Likes
  <1>5. nat_iface_ipv4_addr' \subseteq Ip4 /\ PwrSaveIfs' \subseteq Ip4 /\ abandoned' \subseteq Ip4
    BY DEF NatOK, HandleNeighIpAddrDelEvt
  <1> QED
    BY <1>2, <1>3, <1>4, <1>5 DEF NatOK

\* A client that moves is as right where it comes as it was where it was.
LEMMA FollowsFits ==
    ASSUME NEW c, Fits(c, {4, 6}), NEW d, Follows(c, d)
    PROVE  Fits(d, {4, 6}) /\ Likes(c, d)
  <1>1. c \in Client
    BY DEF Fits
  <1>2. PICK p \in BOOLEAN : d = [c EXCEPT !.power_save_set = p, !.mixed = @ \/ p # c.power_save_set]
    BY DEF Follows
  <1>3. PICK x \in BOOLEAN : x = (c.mixed \/ p # c.power_save_set)
    OBVIOUS
  <1>4. d = [c EXCEPT !.power_save_set = p, !.mixed = x]
    BY <1>2, <1>3
  <1>5. /\ d \in Client
        /\ d.mac = c.mac /\ d.v4_addr = c.v4_addr /\ d.rule_v4 = c.rule_v4 /\ d.v6_addr = c.v6_addr
        /\ d.rules_v6 = c.rules_v6 /\ d.route_rule_set_v6 = c.route_rule_set_v6
        /\ (d.power_save_set <=> p) /\ (d.asleep <=> c.asleep)
        /\ (d.mixed <=> x) /\ (d.denied <=> c.denied) /\ (d.cut <=> c.cut)
    BY <1>1, <1>4 DEF Client
  <1>6. c.power_save_set \in BOOLEAN /\ c.mixed \in BOOLEAN
    BY <1>1, ClientFields
  <1>7. ~x => ~c.mixed /\ (p <=> c.power_save_set)
    BY <1>3, <1>6
  <1>8. (c.mixed => x)
    BY <1>3, <1>6
  <1>9. RulesV6(d, 1 .. d.route_rule_set_v6) = RulesV6(c, 1 .. c.route_rule_set_v6)
    BY <1>5 DEF RulesV6
  <1>10. Fits(d, {4, 6})
    BY <1>5, <1>7, <1>9 DEF Fits
  <1> QED
    BY <1>5, <1>8, <1>10 DEF Likes

\* A client without IPv6 rules is right if it has no IPv6 addresses, or the reset was cut
\* short.
LEMMA TrimmedFits ==
    ASSUME NEW c, Fits(c, {4, 6}), NEW d, Trims(c, d)
    PROVE  Fits(d, {4, 6}) /\ Likes(c, d)
  <1>1. c \in Client
    BY DEF Fits
  <1>2. CASE d = c
    BY <1>2 DEF Likes
  <1>3. CASE d # c
    <2>1. PICK v \in Seq(Ip6), u \in BOOLEAN :
             /\ d = [c EXCEPT !.rules_v6 = {}, !.route_rule_set_v6 = 0, !.v6_addr = v, !.cut = u]
             /\ Len(v) <= IPV6_NUM_ADDR /\ Len(v) \in Nat /\ (~u => Len(v) = 0)
      <3>1. CASE d = ResetV6(c)
        <4>1. PICK v \in Seq(Ip6) : v = <<>> /\ Len(v) = 0
          <5>1. <<>> \in Seq(Ip6) /\ Len(<<>>) = 0
            OBVIOUS
          <5> QED
            BY <5>1
        <4>2. d = [c EXCEPT !.rules_v6 = {}, !.route_rule_set_v6 = 0, !.v6_addr = v, !.cut = FALSE]
          BY <1>1, <3>1, <4>1 DEF ResetV6, NoRulesV6, Client
        <4>3. 0 <= IPV6_NUM_ADDR
          BY WlanAssumption
        <4> QED
          BY <4>1, <4>2, <4>3
      <3>2. CASE d = CutShort(c)
        <4>1. PICK v \in Seq(Ip6) : v = c.v6_addr /\ Len(v) \in Nat /\ Len(v) <= IPV6_NUM_ADDR
          BY <1>1, ClientFields DEF Fits
        <4>2. d = [c EXCEPT !.rules_v6 = {}, !.route_rule_set_v6 = 0, !.v6_addr = v, !.cut = TRUE]
          BY <1>1, <3>2, <4>1 DEF CutShort, NoRulesV6, Client
        <4> QED
          BY <4>1, <4>2
      <3> QED
        BY <1>3, <3>1, <3>2 DEF Trims
    <2>2. /\ d \in Client
          /\ d.mac = c.mac /\ d.v4_addr = c.v4_addr /\ d.rule_v4 = c.rule_v4 /\ d.v6_addr = v
          /\ d.rules_v6 = {} /\ d.route_rule_set_v6 = 0
          /\ (d.power_save_set <=> c.power_save_set) /\ (d.asleep <=> c.asleep)
          /\ (d.mixed <=> c.mixed) /\ (d.denied <=> c.denied) /\ (d.cut <=> u)
      BY <1>1, <2>1 DEF Client
    <2>3. RulesV6(d, 1 .. d.route_rule_set_v6) = {}
      BY <2>2 DEF RulesV6
    <2>4. Fits(d, {4, 6})
      BY <2>1, <2>2, <2>3 DEF Fits
    <2> QED
      BY <2>2, <2>4 DEF Likes
  <1> QED
    BY <1>2, <1>3

-----------------------------------------------------------------------------
(* The count.                                                              *)

\* Sets between which f is one to one have the same number of elements.
LEMMA SameNumber ==
    ASSUME NEW S, NEW T, IsFiniteSet(S), NEW f \in [S -> T],
           \A x, y \in S : f[x] = f[y] => x = y, \A t \in T : \E x \in S : f[x] = t
    PROVE  IsFiniteSet(T) /\ Cardinality(T) = Cardinality(S)
  <1>1. f \in Bijection(S, T)
    BY DEF Bijection, Injection, Surjection, IsInjective
  <1>2. ExistsBijection(S, T)
    BY <1>1 DEF ExistsBijection
  <1> QED
    BY <1>2, FS_Bijection

\* An AP has as many clients as its array is long.
LEMMA MacsOfAp ==
    ASSUME SlotsOK, NEW a \in Aps
    PROVE  /\ Clients(a) \subseteq All
           /\ \A c : c \in Clients(a) <=> \E i \in 1 .. Len(wlan_client[a]) : c = wlan_client[a][i]
           /\ Cardinality(MacsOf(Clients(a))) = Len(wlan_client[a])
  <1>1. PICK s \in Seq(Client) : s = wlan_client[a]
    BY DEF SlotsOK
  <1>2. DOMAIN s = 1 .. Len(s) /\ Len(s) \in Nat
    OBVIOUS
  <1>3. \A c : c \in Clients(a) <=> \E i \in 1 .. Len(s) : c = s[i]
    BY <1>1, <1>2 DEF Clients, Range
  <1>4. PICK f : f = [i \in 1 .. Len(s) |-> s[i].mac]
    OBVIOUS
  <1>5. f \in [1 .. Len(s) -> MacsOf(Clients(a))]
    BY <1>3, <1>4 DEF MacsOf
  <1>6. \A i, j \in 1 .. Len(s) : f[i] = f[j] => i = j
    BY <1>1, <1>4 DEF SlotsOK, Apart
  <1>7. \A m \in MacsOf(Clients(a)) : \E i \in 1 .. Len(s) : f[i] = m
    BY <1>3, <1>4 DEF MacsOf
  <1>8. IsFiniteSet(1 .. Len(s)) /\ Cardinality(1 .. Len(s)) = Len(s)
    BY <1>2, FS_Interval
  <1>9. Cardinality(MacsOf(Clients(a))) = Len(s)
    BY <1>5, <1>6, <1>7, <1>8, SameNumber
  <1>10. Clients(a) \subseteq All
    BY DEF All
  <1> QED
    BY <1>1, <1>3, <1>9, <1>10

-----------------------------------------------------------------------------
(* The bag of what is in the hardware.                                     *)

\* How often x is in the set R, and in the bag B.
Once(x, R) == IF x \in R THEN 1 ELSE 0
Copies(x, B) == IF x \in DOMAIN B THEN B[x] ELSE 0

\* Bag B holds what L holds, and the set R once more.
IsWith(B, L, R) ==
    /\ IsABag(B)
    /\ \A x : Copies(x, B) = Copies(x, L) + Once(x, R)

\* A bag has an element at least once, a finite number of times.
LEMMA Positive ==
    ASSUME NEW B, IsABag(B)
    PROVE  /\ \A x : Copies(x, B) \in Nat /\ (x \in DOMAIN B <=> Copies(x, B) # 0)
  <1>1. \A x \in DOMAIN B : B[x] \in Nat /\ B[x] # 0
    BY DEF IsABag
  <1> QED
    BY <1>1 DEF Copies

\* Bags with as many copies of everything are equal.
LEMMA SameBag ==
    ASSUME NEW A, NEW B, IsABag(A), IsABag(B), \A x : Copies(x, A) = Copies(x, B)
    PROVE  A = B
  <1>1. \A x : x \in DOMAIN A <=> x \in DOMAIN B
    BY Positive
  <1>2. \A x \in DOMAIN A : A[x] = B[x]
    BY <1>1 DEF Copies
  <1>3. A = [x \in DOMAIN A |-> A[x]] /\ B = [x \in DOMAIN B |-> B[x]]
    BY DEF IsABag
  <1> QED
    BY <1>1, <1>2, <1>3

\* A set is added.
LEMMA With ==
    ASSUME NEW L, IsABag(L), NEW R
    PROVE  IsWith(L (+) SetToBag(R), L, R)
  <1>1. PICK S : S = SetToBag(R)
    OBVIOUS
  <1>2. DOMAIN S = R /\ \A x \in R : S[x] = 1
    BY <1>1 DEF SetToBag
  <1>3. PICK B : B = L (+) S
    OBVIOUS
  <1>4. /\ DOMAIN B = DOMAIN L \cup R
        /\ \A x \in DOMAIN B : B[x] = Copies(x, L) + Once(x, R)
    BY <1>2, <1>3 DEF (+), Copies, Once
  <1>5. \A x : Copies(x, L) \in Nat /\ (x \in DOMAIN L <=> Copies(x, L) # 0)
    BY Positive
  <1>6. \A x : Copies(x, B) = Copies(x, L) + Once(x, R)
    BY <1>4, <1>5 DEF Once, Copies
  <1>7. \A x \in DOMAIN B : B[x] \in {n \in Nat : n > 0}
    BY <1>4, <1>5 DEF Once
  <1>8. IsABag(B)
    <2>1. B = [x \in DOMAIN B |-> B[x]]
      BY <1>3 DEF (+)
    <2> QED
      BY <1>7, <2>1 DEF IsABag
  <1> QED
    BY <1>1, <1>3, <1>6, <1>8 DEF IsWith

\* A set that was there is taken away.
LEMMA Without ==
    ASSUME NEW B, IsABag(B), NEW D, \A x \in D : x \in DOMAIN B
    PROVE  /\ IsABag(B (-) SetToBag(D))
           /\ \A x : Copies(x, B (-) SetToBag(D)) = Copies(x, B) - Once(x, D)
  <1>1. PICK S : S = SetToBag(D)
    OBVIOUS
  <1>2. DOMAIN S = D /\ \A x \in D : S[x] = 1
    BY <1>1 DEF SetToBag
  <1>3. PICK C : C = B (-) S
    OBVIOUS
  <1>4. \A x \in DOMAIN B : B[x] \in Nat /\ B[x] > 0
    BY DEF IsABag
  <1>5. PICK f : f = [x \in DOMAIN B |-> IF x \in D THEN B[x] - 1 ELSE B[x]]
    OBVIOUS
  <1>6. C = [x \in {y \in DOMAIN f : f[y] > 0} |-> f[x]]
    <2>1. f = [x \in DOMAIN B |-> IF x \in DOMAIN S THEN B[x] - S[x] ELSE B[x]]
      BY <1>2, <1>5
    <2> QED
      BY <1>3, <2>1 DEF (-)
  <1>7. \A x \in DOMAIN B : f[x] \in Nat /\ f[x] = B[x] - Once(x, D)
    BY <1>4, <1>5 DEF Once
  <1>8. \A x : Copies(x, C) = Copies(x, B) - Once(x, D)
    <2> SUFFICES ASSUME NEW x PROVE Copies(x, C) = Copies(x, B) - Once(x, D)
      OBVIOUS
    <2>1. CASE x \notin DOMAIN B
      BY <1>5, <1>6, <2>1 DEF Copies, Once
    <2>2. CASE x \in DOMAIN B /\ f[x] > 0
      BY <1>5, <1>6, <1>7, <2>2 DEF Copies
    <2>3. CASE x \in DOMAIN B /\ ~(f[x] > 0)
      BY <1>5, <1>6, <1>7, <2>3 DEF Copies
    <2> QED
      BY <2>1, <2>2, <2>3
  <1>9. IsABag(C)
    BY <1>5, <1>6, <1>7 DEF IsABag
  <1> QED
    BY <1>1, <1>3, <1>8, <1>9

\* What the hardware holds when D of R is deleted.
LEMMA Deleted ==
    ASSUME NEW L, IsABag(L), NEW R, NEW D \in SUBSET R
    PROVE  (L (+) SetToBag(R)) (-) SetToBag(D) = L (+) SetToBag(R \ D)
  <1>1. PICK B : B = L (+) SetToBag(R)
    OBVIOUS
  <1>2. PICK C : C = L (+) SetToBag(R \ D)
    OBVIOUS
  <1>3. IsWith(B, L, R) /\ IsWith(C, L, R \ D)
    BY <1>1, <1>2, With
  <1>4. \A x : Copies(x, L) \in Nat
    BY Positive
  <1>5. \A x \in D : x \in DOMAIN B
    <2>1. \A x \in D : Copies(x, B) # 0
      BY <1>3, <1>4 DEF IsWith, Once
    <2> QED
      BY <2>1 DEF Copies
  <1>6. PICK E : E = B (-) SetToBag(D)
    OBVIOUS
  <1>7. IsABag(E) /\ \A x : Copies(x, E) = Copies(x, B) - Once(x, D)
    BY <1>3, <1>5, <1>6, Without DEF IsWith
  <1>8. \A x : Copies(x, E) = Copies(x, C)
    BY <1>3, <1>4, <1>7 DEF IsWith, Once
  <1>9. E = C
    BY <1>3, <1>7, <1>8, SameBag DEF IsWith
  <1> QED
    BY <1>1, <1>2, <1>6, <1>9

\* What it holds when N is added, which it did not hold for R.
LEMMA Added ==
    ASSUME NEW L, IsABag(L), NEW R, NEW N, R \cap N = {}
    PROVE  (L (+) SetToBag(R)) (+) SetToBag(N) = L (+) SetToBag(R \cup N)
  <1>1. PICK B : B = L (+) SetToBag(R)
    OBVIOUS
  <1>2. PICK C : C = L (+) SetToBag(R \cup N)
    OBVIOUS
  <1>3. IsWith(B, L, R) /\ IsWith(C, L, R \cup N)
    BY <1>1, <1>2, With
  <1>4. \A x : Copies(x, L) \in Nat
    BY Positive
  <1>5. PICK E : E = B (+) SetToBag(N)
    OBVIOUS
  <1>6. IsWith(E, B, N)
    BY <1>3, <1>5, With DEF IsWith
  <1>7. \A x : Copies(x, E) = Copies(x, C)
    BY <1>3, <1>4, <1>6 DEF IsWith, Once
  <1>8. E = C
    BY <1>3, <1>6, <1>7, SameBag DEF IsWith
  <1> QED
    BY <1>1, <1>2, <1>5, <1>8

\* What it holds does not depend on whether T is remembered or not.
IsForgotten(L, R, T) ==
    /\ IsABag(L (+) SetToBag(T))
    /\ L (+) SetToBag(R) = (L (+) SetToBag(T)) (+) SetToBag(R \ T)

\* A part of what was remembered is forgotten.
LEMMA Forgotten ==
    ASSUME NEW L, IsABag(L), NEW R, NEW T, T \subseteq R
    PROVE  IsForgotten(L, R, T)
  <1>1. T \cap (R \ T) = {} /\ T \cup (R \ T) = R
    OBVIOUS
  <1>2. (L (+) SetToBag(T)) (+) SetToBag(R \ T) = L (+) SetToBag(T \cup (R \ T))
    BY <1>1, Added
  <1>3. IsABag(L (+) SetToBag(T))
    BY With DEF IsWith
  <1> QED
    BY <1>1, <1>2, <1>3 DEF IsForgotten

\* What all clients of A have handles of.
Known(A) == UNION {Remembers(c) : c \in A}

\* An IPv6 address is once among those of a client.
Distinct(c) == \A j, k \in 1 .. Len(c.v6_addr) : c.v6_addr[j] = c.v6_addr[k] => j = k

HwInv == IsABag(leaked) /\ HardwareAccounted /\ \A c \in All : Distinct(c)

\* A client has handles of its own things only.
LEMMA Kinds ==
    ASSUME NEW ipv, NEW c, Fits(c, ipv)
    PROVE  /\ \A x \in Remembers(c) : x[2] = c.mac
           /\ \A x \in Remembers(c) : x[1] = "rt4" => x \in c.rule_v4
           /\ \A x \in Remembers(c) : x[1] \in {"lan", "wan"} =>
                \E k \in 1 .. c.route_rule_set_v6 : x[3] = c.v6_addr[k]
  <1>1. \A x \in c.rule_v4 : x = Thing("rt4", c.mac, c.v4_addr)
    BY DEF Fits
  <1>2. \A x \in c.rules_v6 : \E k \in 1 .. c.route_rule_set_v6 :
          x = Thing("lan", c.mac, c.v6_addr[k]) \/ x = Thing("wan", c.mac, c.v6_addr[k])
    <2>1. c.rules_v6 = RulesV6(c, 1 .. c.route_rule_set_v6)
      BY DEF Fits
    <2> QED
      BY <2>1, TwoRules DEF RulesV6
  <1>3. \A x \in Headers(c.mac) : x = Thing("hdr4", c.mac, NoIp) \/ x = Thing("hdr6", c.mac, NoIp)
    BY DEF Headers
  <1>4. \A k, m, ip : /\ Thing(k, m, ip)[1] = k /\ Thing(k, m, ip)[2] = m /\ Thing(k, m, ip)[3] = ip
    BY DEF Thing
  <1>5. \A x \in Remembers(c) : x \in Headers(c.mac) \/ x \in c.rule_v4 \/ x \in c.rules_v6
    BY DEF Remembers
  <1>6. \A x \in Headers(c.mac) : x[2] = c.mac /\ (x[1] = "hdr4" \/ x[1] = "hdr6")
    BY <1>3, <1>4
  <1>7. \A x \in c.rule_v4 : x[2] = c.mac /\ x[1] = "rt4"
    BY <1>1, <1>4
  <1>8. \A x \in c.rules_v6 : x[2] = c.mac /\ (x[1] = "lan" \/ x[1] = "wan")
                              /\ \E k \in 1 .. c.route_rule_set_v6 : x[3] = c.v6_addr[k]
    BY <1>2, <1>4
  <1> QED
    BY <1>5, <1>6, <1>7, <1>8

\* What is known when a client changes.
LEMMA KnownSwap ==
    ASSUME NEW A, NEW B, NEW old \in A, NEW new, Swap(A, B, old, new), OneMac(A),
           \A c \in A : \A x \in Remembers(c) : x[2] = c.mac
    PROVE  Known(B) = (Known(A) \ Remembers(old)) \cup Remembers(new)
  <1>1. \A d : d \in B <=> (d \in A /\ d # old) \/ d = new
    BY DEF Swap
  <1>2. \A c \in A : \A x \in Remembers(c) : x \in Remembers(old) => c = old
    BY DEF OneMac
  <1>3. \A x : (\E d \in B : x \in Remembers(d))
                 <=> ((\E c \in A : x \in Remembers(c)) /\ x \notin Remembers(old)) \/ x \in Remembers(new)
    BY <1>1, <1>2
  <1> QED
    BY <1>3 DEF Known

\* What is known when the clients of G leave.
LEMMA KnownLeaves ==
    ASSUME NEW A, NEW B, NEW G \in SUBSET A, OneMac(A),
           \A c \in A : \A x \in Remembers(c) : x[2] = c.mac,
           \A d \in B : \E c \in A \ G : Remembers(d) = Remembers(c),
           \A c \in A \ G : \E d \in B : Remembers(d) = Remembers(c)
    PROVE  Known(B) = Known(A) \ Known(G)
  <1>1. \A c, d \in A : \A x \in Remembers(c) : x \in Remembers(d) => c = d
    BY DEF OneMac
  <1>2. \A x : (\E d \in B : x \in Remembers(d))
                 <=> (\E c \in A : x \in Remembers(c)) /\ ~\E c \in G : x \in Remembers(c)
    BY <1>1
  <1> QED
    BY <1>2 DEF Known

\* The first n of s are some of s, and all of them when n is its length.
LEMMA Prefix ==
    ASSUME NEW S, NEW s \in Seq(S), NEW n \in 0 .. Len(s)
    PROVE  /\ Range(SubSeq(s, 1, n)) \subseteq Range(s)
           /\ n = Len(s) => Range(SubSeq(s, 1, n)) = Range(s)
           /\ n = 0 => Range(SubSeq(s, 1, n)) = {}
  <1>1. PICK u : u = SubSeq(s, 1, n)
    OBVIOUS
  <1>2. Len(s) \in Nat /\ DOMAIN s = 1 .. Len(s)
    OBVIOUS
  <1>3. DOMAIN u = 1 .. n /\ \A k \in 1 .. n : u[k] = s[k]
    BY <1>1, <1>2
  <1>4. \A k \in 1 .. n : k \in 1 .. Len(s)
    BY <1>2
  <1>5. \A x : x \in Range(u) <=> \E k \in 1 .. n : x = s[k]
    BY <1>3 DEF Range
  <1>6. \A x : x \in Range(s) <=> \E k \in 1 .. Len(s) : x = s[k]
    BY <1>2 DEF Range
  <1>7. Range(u) \subseteq Range(s)
    BY <1>4, <1>5, <1>6
  <1>8. n = Len(s) => Range(u) = Range(s)
    BY <1>5, <1>6
  <1>9. n = 0 => Range(u) = {}
    BY <1>5
  <1> QED
    BY <1>1, <1>7, <1>8, <1>9

\* What is needed for a client is a sequence.
LEMMA NeededSeqs ==
    ASSUME NEW ipv, NEW c, Fits(c, ipv)
    PROVE  /\ \E s \in Seq(Things) : s = NeededV4(c) /\ Len(s) \in {0, 1}
           /\ \E s \in Seq(Range(NeededV6(c))) : s = NeededV6(c)
  <1>1. c \in Client /\ c.route_rule_set_v6 <= Len(c.v6_addr)
    BY DEF Fits
  <1>2. \E s \in Seq(Things) : s = NeededV4(c) /\ Len(s) \in {0, 1}
    <2>1. c.v4_addr \in Ip4 \cup {NoIp} /\ c.mac \in Macs
      BY <1>1, ClientFields
    <2>2. PICK x \in Things : x = Thing("rt4", c.mac, c.v4_addr)
      BY <2>1 DEF Thing, Things
    <2>3. NeededV4(c) = <<>> \/ NeededV4(c) = <<x>>
      BY <2>2 DEF NeededV4
    <2>4. <<>> \in Seq(Things) /\ <<x>> \in Seq(Things) /\ Len(<<>>) = 0 /\ Len(<<x>>) = 1
      OBVIOUS
    <2> QED
      BY <2>3, <2>4
  <1>3. \E s \in Seq(Range(NeededV6(c))) : s = NeededV6(c)
    <2>1. CASE c.power_save_set
      <3>1. <<>> \in Seq(Range(NeededV6(c)))
        OBVIOUS
      <3> QED
        BY <2>1, <3>1 DEF NeededV6
    <2>2. CASE ~c.power_save_set
      <3>1. PICK n \in Nat : n = 2 * (Len(c.v6_addr) - c.route_rule_set_v6)
        BY <1>1, ClientFields
      <3>2. PICK f : f = NeededV6(c)
        OBVIOUS
      <3>3. f = [k \in 1 .. n |-> V6Rules(c.mac, c.v6_addr[c.route_rule_set_v6 + (k + 1) \div 2])[2 - (k % 2)]]
        BY <2>2, <3>1, <3>2 DEF NeededV6
      <3>4. f \in [1 .. n -> Range(f)]
        BY <3>3 DEF Range
      <3> QED
        BY <3>2, <3>4, FunctionSeq
    <2> QED
      BY <2>1, <2>2
  <1> QED
    BY <1>2, <1>3

\* The rules needed for a client are not there yet.
LEMMA NeededIsNew ==
    ASSUME NEW ipv, NEW c, Fits(c, ipv), Distinct(c)
    PROVE  /\ \A x \in Range(NeededV4(c)) : x[2] = c.mac /\ x[1] = "rt4" /\ x \notin Remembers(c)
           /\ \A x \in Range(NeededV6(c)) :
                x[2] = c.mac /\ (x[1] = "lan" \/ x[1] = "wan") /\ x \notin Remembers(c)
  <1>0. \A k, m, ip : /\ Thing(k, m, ip)[1] = k /\ Thing(k, m, ip)[2] = m /\ Thing(k, m, ip)[3] = ip
    BY DEF Thing
  <1>1. \A x \in Range(NeededV4(c)) : x = Thing("rt4", c.mac, c.v4_addr) /\ c.rule_v4 = {}
    BY DEF NeededV4, Range
  <1>2. \A x \in Range(NeededV4(c)) : x[2] = c.mac /\ x[1] = "rt4" /\ x \notin Remembers(c)
    BY <1>0, <1>1, Kinds
  <1>3. c \in Client /\ c.route_rule_set_v6 <= Len(c.v6_addr)
    BY DEF Fits
  <1>4. \A x \in Range(NeededV6(c)) : \E k \in c.route_rule_set_v6 + 1 .. Len(c.v6_addr) :
          x = Thing("lan", c.mac, c.v6_addr[k]) \/ x = Thing("wan", c.mac, c.v6_addr[k])
    <2>1. CASE c.power_save_set
      BY <2>1 DEF NeededV6, Range
    <2>2. CASE ~c.power_save_set
      <3>1. Range(NeededV6(c)) = RulesV6(c, c.route_rule_set_v6 + 1 .. Len(c.v6_addr))
        BY <1>3, <2>2, NeededV6Range
      <3> QED
        BY <3>1, TwoRules DEF RulesV6
    <2> QED
      BY <2>1, <2>2
  <1>5. ASSUME NEW x \in Range(NeededV6(c))
        PROVE  x[2] = c.mac /\ (x[1] = "lan" \/ x[1] = "wan") /\ x \notin Remembers(c)
    <2>1. PICK k \in c.route_rule_set_v6 + 1 .. Len(c.v6_addr) :
            x = Thing("lan", c.mac, c.v6_addr[k]) \/ x = Thing("wan", c.mac, c.v6_addr[k])
      BY <1>4
    <2>2. x[2] = c.mac /\ (x[1] = "lan" \/ x[1] = "wan") /\ x[3] = c.v6_addr[k]
      BY <1>0, <2>1
    <2>3. c.route_rule_set_v6 \in Nat /\ Len(c.v6_addr) \in Nat
      BY <1>3, ClientFields
    <2>4. \A j \in 1 .. c.route_rule_set_v6 : c.v6_addr[j] # c.v6_addr[k]
      <3>1. \A j \in 1 .. c.route_rule_set_v6 : j \in 1 .. Len(c.v6_addr) /\ j # k
        BY <1>3, <2>3
      <3>2. k \in 1 .. Len(c.v6_addr)
        BY <2>3
      <3> QED
        BY <3>1, <3>2 DEF Distinct
    <2>5. x \notin Remembers(c)
      <3>1. x \in Remembers(c) => \E j \in 1 .. c.route_rule_set_v6 : x[3] = c.v6_addr[j]
        BY <2>2, Kinds
      <3> QED
        BY <2>2, <2>4, <3>1
    <2> QED
      BY <2>2, <2>5
  <1> QED
    BY <1>2, <1>5

\* What handle_wlan_client_route_rule does to client c and to the hardware: it adds N and
\* forgets T of them.
IsRouted(c, new, N, T) ==
    /\ Fits(new, {4, 6}) /\ new.mac = c.mac /\ new.v6_addr = c.v6_addr
    /\ T \subseteq N
    /\ Remembers(new) = Remembers(c) \cup (N \ T)
    /\ \A x \in N : x[2] = c.mac /\ x \notin Remembers(c)

\* The IPv4 rule is remembered when it is added.
LEMMA AddsV4 ==
    ASSUME NEW ipv, NEW c, Fits(c, ipv), NEW n \in 0 .. Len(NeededV4(c))
    PROVE  /\ RoutedV4(c, n).rule_v4 = c.rule_v4 \cup Range(SubSeq(NeededV4(c), 1, n))
           /\ RoutedV4(c, n).rules_v6 = c.rules_v6 /\ NeededV6(RoutedV4(c, n)) = NeededV6(c)
           /\ RoutedV4(c, n).v6_addr = c.v6_addr
  <1>1. c \in Client
    BY DEF Fits
  <1>2. PICK s \in Seq(Things) : s = NeededV4(c) /\ Len(s) \in {0, 1}
    BY NeededSeqs
  <1>3. n \in 0 .. Len(s)
    BY <1>2
  <1>4. PICK d : d = RoutedV4(c, n)
    OBVIOUS
  <1>5. /\ d.mac = c.mac /\ d.v6_addr = c.v6_addr /\ d.rules_v6 = c.rules_v6
        /\ d.route_rule_set_v6 = c.route_rule_set_v6 /\ d.power_save_set = c.power_save_set
        /\ d.rule_v4 = IF n < Len(s) THEN c.rule_v4 ELSE c.rule_v4 \cup Range(s)
    BY <1>1, <1>2, <1>4 DEF RoutedV4, Client
  <1>6. n < Len(s) => Range(SubSeq(s, 1, n)) = {}
    <2>0. PICK l \in {0, 1} : l = Len(s)
      BY <1>2
    <2>1. n < Len(s) => n = 0
      BY <1>3, <2>0
    <2> QED
      BY <1>3, <2>1, Prefix
  <1>7. ~(n < Len(s)) => Range(SubSeq(s, 1, n)) = Range(s)
    <2>1. ~(n < Len(s)) => n = Len(s)
      BY <1>2, <1>3
    <2> QED
      BY <1>3, <2>1, Prefix
  <1>8. d.rule_v4 = c.rule_v4 \cup Range(SubSeq(s, 1, n))
    BY <1>5, <1>6, <1>7
  <1>9. NeededV6(d) = NeededV6(c)
    BY <1>5 DEF NeededV6
  <1> QED
    BY <1>2, <1>4, <1>5, <1>8, <1>9

\* The IPv6 rules are remembered when all of them are added.
LEMMA AddsV6 ==
    ASSUME NEW ipv, NEW c, Fits(c, ipv), NEW n \in 0 .. Len(NeededV6(c))
    PROVE  /\ RoutedV6(c, n).rules_v6 =
                c.rules_v6 \cup (IF n < Len(NeededV6(c)) THEN {} ELSE Range(SubSeq(NeededV6(c), 1, n)))
           /\ RoutedV6(c, n).rule_v4 = c.rule_v4
           /\ RoutedV6(c, n).v6_addr = c.v6_addr
           /\ Range(SubSeq(NeededV6(c), 1, n)) \subseteq Range(NeededV6(c))
  <1>1. c \in Client
    BY DEF Fits
  <1>2. PICK s \in Seq(Range(NeededV6(c))) : s = NeededV6(c)
    BY NeededSeqs
  <1>3. n \in 0 .. Len(s) /\ Len(s) \in Nat
    BY <1>2
  <1>4. PICK d : d = RoutedV6(c, n)
    OBVIOUS
  <1>5. /\ d.v6_addr = c.v6_addr /\ d.rule_v4 = c.rule_v4
        /\ d.rules_v6 = IF n < Len(s) THEN c.rules_v6 ELSE c.rules_v6 \cup Range(s)
    BY <1>1, <1>2, <1>4 DEF RoutedV6, Client
  <1>6. Range(SubSeq(s, 1, n)) \subseteq Range(s)
    BY <1>3, Prefix
  <1>7. ~(n < Len(s)) => Range(SubSeq(s, 1, n)) = Range(s)
    <2>1. ~(n < Len(s)) => n = Len(s)
      BY <1>3
    <2> QED
      BY <1>3, <2>1, Prefix
  <1>8. d.rules_v6 = c.rules_v6 \cup (IF n < Len(s) THEN {} ELSE Range(SubSeq(s, 1, n)))
    BY <1>5, <1>7
  <1> QED
    BY <1>2, <1>4, <1>5, <1>6, <1>8

\* Client i of AP a, to be c, is new, N was added, and nobody has a handle of T.
HasRouted(a, i, c, new, N, T) ==
    /\ IsRouted(c, new, N, T)
    /\ wlan_client' = [wlan_client EXCEPT ![a][i] = new]
    /\ hw' = (hw (-) SetToBag(Remembers(wlan_client[a][i]) \ Remembers(c))) (+) SetToBag(N)
    /\ leaked' = leaked (+) SetToBag(T)

\* The client after the handler, what was added and what of it nobody has a handle of.
LEMMA Routed ==
    ASSUME SlotsOK, NEW a \in Aps, NEW i \in 1 .. Len(wlan_client[a]), NEW ipv \in SUBSET {4, 6},
           NEW c, Fits(c, {4, 6} \ ipv), Distinct(c),
           handle_wlan_client_route_rule(a, i, c, ipv)
    PROVE  \E new, N, T : HasRouted(a, i, c, new, N, T)
  <1>1. PICK needed4, needed6 : /\ needed4 = IF 4 \in ipv THEN NeededV4(c) ELSE <<>>
                                /\ needed6 = IF 6 \in ipv THEN NeededV6(c) ELSE <<>>
    OBVIOUS
  <1>2. PICK n4 \in 0 .. Len(needed4), n6 \in 0 .. Len(needed6) :
           LET new4 == IF 4 \in ipv THEN RoutedV4(c, n4) ELSE c
               new  == IF 6 \in ipv THEN RoutedV6(new4, n6) ELSE new4
               lost == IF n6 < Len(needed6) THEN Range(SubSeq(needed6, 1, n6)) ELSE {}
           IN /\ hw' = (hw (-) SetToBag(Remembers(wlan_client[a][i]) \ Remembers(c)))
                         (+) SetToBag(Range(SubSeq(needed4, 1, n4)) \cup Range(SubSeq(needed6, 1, n6)))
              /\ leaked' = leaked (+) SetToBag(lost)
              /\ wlan_client' = [wlan_client EXCEPT ![a][i] = new]
    BY <1>1, ZenonT(60) DEF handle_wlan_client_route_rule
  <1>3. PICK N4, N6, T : /\ N4 = Range(SubSeq(needed4, 1, n4)) /\ N6 = Range(SubSeq(needed6, 1, n6))
                         /\ T = IF n6 < Len(needed6) THEN N6 ELSE {}
    OBVIOUS
  <1>4. PICK new4 : new4 = IF 4 \in ipv THEN RoutedV4(c, n4) ELSE c
    OBVIOUS
  <1>5. PICK new : new = IF 6 \in ipv THEN RoutedV6(new4, n6) ELSE new4
    OBVIOUS
  <1>6. /\ hw' = (hw (-) SetToBag(Remembers(wlan_client[a][i]) \ Remembers(c))) (+) SetToBag(N4 \cup N6)
        /\ leaked' = leaked (+) SetToBag(T)
        /\ wlan_client' = [wlan_client EXCEPT ![a][i] = new]
    BY <1>2, <1>3, <1>4, <1>5
  <1>7. PICK V : V = {4, 6} \ ipv /\ Fits(c, V)
    OBVIOUS
  <1>8. PICK V4s : V4s = IF 4 \in ipv THEN V \cup {4} ELSE V
    OBVIOUS
  <1>9. \A n \in 0 .. Len(<<>>) : Range(SubSeq(<<>>, 1, n)) = {}
    <2> SUFFICES ASSUME NEW n \in 0 .. Len(<<>>) PROVE Range(SubSeq(<<>>, 1, n)) = {}
      OBVIOUS
    <2>1. PICK s \in Seq({}) : s = <<>> /\ Len(s) = 0
      <3>1. <<>> \in Seq({}) /\ Len(<<>>) = 0
        OBVIOUS
      <3> QED
        BY <3>1
    <2>2. n = 0 /\ n \in 0 .. Len(s)
      BY <2>1
    <2> QED
      BY <2>1, <2>2, Prefix
  <1>10. /\ Fits(new4, V4s) /\ new4.mac = c.mac /\ new4.v6_addr = c.v6_addr
         /\ new4.rule_v4 = c.rule_v4 \cup N4 /\ new4.rules_v6 = c.rules_v6
         /\ NeededV6(new4) = NeededV6(c)
         /\ N4 \subseteq Range(NeededV4(c))
    <2>1. CASE 4 \in ipv
      <3>1. n4 \in 0 .. Len(NeededV4(c)) /\ N4 = Range(SubSeq(NeededV4(c), 1, n4)) /\ new4 = RoutedV4(c, n4)
        BY <1>1, <1>3, <1>4, <2>1
      <3>2. Fits(new4, V4s) /\ Same(c, new4)
        BY <1>7, <1>8, <2>1, <3>1, RouteV4
      <3>3. /\ new4.rule_v4 = c.rule_v4 \cup N4 /\ new4.rules_v6 = c.rules_v6
            /\ NeededV6(new4) = NeededV6(c) /\ new4.v6_addr = c.v6_addr
        BY <1>7, <3>1, AddsV4
      <3>4. N4 \subseteq Range(NeededV4(c))
        <4>1. PICK s \in Seq(Things) : s = NeededV4(c)
          BY <1>7, NeededSeqs
        <4> QED
          BY <3>1, <4>1, Prefix
      <3> QED
        BY <3>2, <3>3, <3>4 DEF Same
    <2>2. CASE 4 \notin ipv
      <3>1. needed4 = <<>> /\ new4 = c /\ V4s = V
        BY <1>1, <1>4, <1>8, <2>2
      <3>2. N4 = {}
        BY <1>3, <1>9, <3>1
      <3> QED
        BY <1>7, <3>1, <3>2
    <2> QED
      BY <2>1, <2>2
  <1>11. /\ Fits(new, IF 6 \in ipv THEN V4s \cup {6} ELSE V4s)
         /\ new.mac = c.mac /\ new.v6_addr = c.v6_addr
         /\ new.rule_v4 = c.rule_v4 \cup N4 /\ new.rules_v6 = c.rules_v6 \cup (N6 \ T)
         /\ N6 \subseteq Range(NeededV6(c)) /\ T \subseteq N6
    <2>1. CASE 6 \in ipv
      <3>1. /\ n6 \in 0 .. Len(NeededV6(new4)) /\ N6 = Range(SubSeq(NeededV6(new4), 1, n6))
            /\ new = RoutedV6(new4, n6) /\ T = IF n6 < Len(NeededV6(new4)) THEN N6 ELSE {}
        BY <1>1, <1>3, <1>5, <1>10, <2>1
      <3>2. Fits(new, V4s \cup {6}) /\ Same(new4, new)
        BY <1>10, <3>1, RouteV6
      <3>3. /\ new.rules_v6 = new4.rules_v6 \cup (IF n6 < Len(NeededV6(new4)) THEN {} ELSE N6)
            /\ new.rule_v4 = new4.rule_v4 /\ new.v6_addr = new4.v6_addr
            /\ N6 \subseteq Range(NeededV6(new4))
        BY <1>10, <3>1, AddsV6
      <3>4. T \subseteq N6 /\ (IF n6 < Len(NeededV6(new4)) THEN {} ELSE N6) = N6 \ T
        BY <3>1
      <3> QED
        BY <1>10, <2>1, <3>2, <3>3, <3>4 DEF Same
    <2>2. CASE 6 \notin ipv
      <3>1. needed6 = <<>> /\ new = new4
        BY <1>1, <1>5, <2>2
      <3>2. N6 = {} /\ T = {}
        BY <1>3, <1>9, <3>1
      <3> QED
        BY <1>10, <2>2, <3>1, <3>2
    <2> QED
      BY <2>1, <2>2
  <1>12. (IF 6 \in ipv THEN V4s \cup {6} ELSE V4s) = {4, 6}
    BY <1>7, <1>8
  <1>13. /\ \A x \in N4 : x[2] = c.mac /\ x[1] = "rt4" /\ x \notin Remembers(c)
         /\ \A x \in N6 : x[2] = c.mac /\ (x[1] = "lan" \/ x[1] = "wan") /\ x \notin Remembers(c)
    BY <1>7, <1>10, <1>11, NeededIsNew
  <1>14. N4 \cap T = {}
    BY <1>11, <1>13
  <1>15. Remembers(new) = Remembers(c) \cup ((N4 \cup N6) \ T)
    BY <1>11, <1>14 DEF Remembers
  <1>16. IsRouted(c, new, N4 \cup N6, T)
    BY <1>11, <1>12, <1>13, <1>15 DEF IsRouted
  <1>17. HasRouted(a, i, c, new, N4 \cup N6, T)
    BY <1>6, <1>16 DEF HasRouted
  <1> QED
    BY <1>17

\* Every client has handles of its own things only, and NAT aside a MAC address is one's.
LEMMA Owners ==
    ASSUME WlanInv
    PROVE  /\ OneMac(All)
           /\ \A c \in All : \A x \in Remembers(c) : x[2] = c.mac
  <1>1. OneMac(All)
    BY MacOwner DEF WlanInv
  <1>2. \A c \in All : \A x \in Remembers(c) : x[2] = c.mac
    BY Kinds DEF WlanInv, ClientsOK
  <1> QED
    BY <1>1, <1>2

\* The hardware is accounted for after handle_wlan_client_route_rule.
LEMMA HandlerKeepsHw ==
    ASSUME WlanInv, HwInv, NEW a \in Aps, NEW i \in 1 .. Len(wlan_client[a]),
           NEW ipv \in SUBSET {4, 6}, NEW c, Fits(c, {4, 6} \ ipv), Distinct(c),
           c.mac = wlan_client[a][i].mac, Remembers(c) \subseteq Remembers(wlan_client[a][i]),
           handle_wlan_client_route_rule(a, i, c, ipv)
    PROVE  HwInv'
  <1>1. PICK w \in [Aps -> Seq(Client)] : w = wlan_client /\ Apart(w)
    BY DEF WlanInv, SlotsOK
  <1>2. PICK old : old = w[a][i]
    OBVIOUS
  <1>3. old \in All
    <2>1. In(wlan_client, old)
      BY <1>1, <1>2 DEF In
    <2> QED
      BY <2>1, Members DEF WlanInv
  <1>4. PICK new, N, T :
          /\ IsRouted(c, new, N, T)
          /\ wlan_client' = [w EXCEPT ![a][i] = new]
          /\ hw' = (hw (-) SetToBag(Remembers(old) \ Remembers(c))) (+) SetToBag(N)
          /\ leaked' = leaked (+) SetToBag(T)
    <2>1. \E new, N, T : HasRouted(a, i, c, new, N, T)
      BY Routed DEF WlanInv
    <2> QED
      BY <1>1, <1>2, <2>1 DEF HasRouted
  <1>5. Swap(All, All', old, new)
    <2>1. new \in Client /\ new.mac = w[a][i].mac /\ i \in 1 .. Len(w[a])
      BY <1>1, <1>4 DEF IsRouted, Fits
    <2>2. IsReplaced(w, a, i, new, wlan_client')
      BY <1>1, <1>4, <2>1, Replaced
    <2>3. \A d : d \in All' <=> In(wlan_client', d)
      BY <2>2, MembersAfter DEF IsReplaced
    <2>4. \A d : d \in All <=> In(w, d)
      BY <1>1, Members DEF WlanInv
    <2> QED
      BY <1>2, <2>2, <2>3, <2>4 DEF IsReplaced, Swap
  <1>6. PICK R : R = Known(All)
    OBVIOUS
  <1>7. PICK M : M = (R \ Remembers(old)) \cup Remembers(c)
    OBVIOUS
  <1>8. PICK D : D = Remembers(old) \ Remembers(c)
    OBVIOUS
  <1>9. D \subseteq R /\ R \ D = M
    <2>1. Remembers(old) \subseteq R
      BY <1>3, <1>6 DEF Known
    <2>2. Remembers(c) \subseteq Remembers(old)
      BY <1>1, <1>2
    <2> QED
      BY <1>7, <1>8, <2>1, <2>2
  <1>10. M \cap N = {}
    <2>1. \A x \in N : x[2] = old.mac /\ x \notin Remembers(c)
      BY <1>1, <1>2, <1>4 DEF IsRouted
    <2>2. \A x \in R : x[2] = old.mac => x \in Remembers(old)
      BY <1>3, <1>6, Owners DEF Known, OneMac
    <2> QED
      BY <1>7, <2>1, <2>2
  <1>11. Known(All') = (M \cup N) \ T
    <2>1. Remembers(new) = Remembers(c) \cup (N \ T) /\ T \subseteq N
      BY <1>4 DEF IsRouted
    <2>2. Known(All') = (R \ Remembers(old)) \cup Remembers(new)
      BY <1>3, <1>5, <1>6, Owners, KnownSwap
    <2> QED
      BY <1>7, <1>10, <2>1, <2>2
  <1>12. IsABag(leaked) /\ hw = leaked (+) SetToBag(R)
    BY <1>6 DEF HwInv, HardwareAccounted, Known
  <1>13. hw (-) SetToBag(D) = leaked (+) SetToBag(M)
    BY <1>9, <1>12, Deleted
  <1>14. hw' = leaked (+) SetToBag(M \cup N)
    BY <1>4, <1>8, <1>10, <1>12, <1>13, Added
  <1>15. IsABag(leaked') /\ hw' = leaked' (+) SetToBag((M \cup N) \ T)
    <2>1. T \subseteq M \cup N
      BY <1>4 DEF IsRouted
    <2>2. IsForgotten(leaked, M \cup N, T)
      BY <1>12, <2>1, Forgotten
    <2> QED
      BY <1>4, <1>14, <2>2 DEF IsForgotten
  <1>16. HardwareAccounted'
    BY <1>11, <1>15 DEF HardwareAccounted, Known
  <1>17. \A d \in All' : Distinct(d)
    <2>1. Distinct(new)
      BY <1>4 DEF IsRouted, Distinct
    <2> QED
      BY <1>5, <2>1 DEF HwInv, Swap
  <1> QED
    BY <1>15, <1>16, <1>17 DEF HwInv

\* The hardware is accounted for when clients go, and what they had handles of is deleted
\* or forgotten.
LEMMA LeavingKeepsHw ==
    ASSUME WlanInv, HwInv, NEW G \in SUBSET All,
           \A d \in All' : \E c \in All \ G : Remembers(d) = Remembers(c) /\ d.v6_addr = c.v6_addr,
           \A c \in All \ G : \E d \in All' : Remembers(d) = Remembers(c),
           \/ hw' = hw (-) SetToBag(Known(G)) /\ UNCHANGED leaked
           \/ UNCHANGED hw /\ leaked' = leaked (+) SetToBag(Known(G))
    PROVE  HwInv'
  <1>1. PICK R, T : R = Known(All) /\ T = Known(G)
    OBVIOUS
  <1>2. T \in SUBSET R
    BY <1>1 DEF Known
  <1>3. Known(All') = R \ T
    <2>1. OneMac(All) /\ \A c \in All : \A x \in Remembers(c) : x[2] = c.mac
      BY Owners
    <2>2. \A d \in All' : \E c \in All \ G : Remembers(d) = Remembers(c)
      OBVIOUS
    <2> QED
      BY <1>1, <2>1, <2>2, KnownLeaves
  <1>4. IsABag(leaked) /\ hw = leaked (+) SetToBag(R)
    BY <1>1 DEF HwInv, HardwareAccounted, Known
  <1>5. IsABag(leaked') /\ hw' = leaked' (+) SetToBag(R \ T)
    <2>1. CASE hw' = hw (-) SetToBag(T) /\ UNCHANGED leaked
      BY <1>2, <1>4, <2>1, Deleted
    <2>2. CASE UNCHANGED hw /\ leaked' = leaked (+) SetToBag(T)
      <3>1. IsForgotten(leaked, R, T)
        BY <1>2, <1>4, Forgotten
      <3> QED
        BY <1>4, <2>2, <3>1 DEF IsForgotten
    <2> QED
      BY <1>1, <2>1, <2>2
  <1>6. HardwareAccounted'
    BY <1>3, <1>5 DEF HardwareAccounted, Known
  <1>7. \A d \in All' : Distinct(d)
    BY DEF HwInv, Distinct
  <1> QED
    BY <1>5, <1>6, <1>7 DEF HwInv

-----------------------------------------------------------------------------
(* The events of a client.                                                 *)

\* A new IPv4 address.
LEMMA NewAddressV4Keeps ==
    ASSUME WlanInv, NEW a \in Aps, NEW i \in 1 .. Len(wlan_client[a]), NEW ip \in Ip4,
           NewAddressV4(a, i, ip)
    PROVE  WlanInv' /\ (HwInv => HwInv')
  <1>1. PICK c : c = wlan_client[a][i]
    OBVIOUS
  <1>2. PICK e : e = [NoRuleV4(c) EXCEPT !.v4_addr = ip]
    OBVIOUS
  <1>3. c \in All /\ c \in Client /\ Fits(c, {4, 6})
    <2>1. In(wlan_client, c)
      BY <1>1 DEF In
    <2> QED
      BY <2>1, Members DEF WlanInv, ClientsOK
  <1>4. /\ e \in Client
        /\ e.mac = c.mac /\ e.v4_addr = ip /\ e.rule_v4 = {} /\ e.v6_addr = c.v6_addr
        /\ e.rules_v6 = c.rules_v6 /\ e.route_rule_set_v6 = c.route_rule_set_v6
        /\ (e.power_save_set <=> c.power_save_set) /\ (e.asleep <=> c.asleep)
        /\ (e.mixed <=> c.mixed) /\ (e.denied <=> c.denied) /\ (e.cut <=> c.cut)
    BY <1>2, <1>3 DEF NoRuleV4, Client
  <1>5. Fits(e, {4, 6} \ {4})
    <2>1. RulesV6(e, 1 .. e.route_rule_set_v6) = RulesV6(c, 1 .. c.route_rule_set_v6)
      BY <1>4 DEF RulesV6
    <2>2. 4 \notin {4, 6} \ {4}
      OBVIOUS
    <2> QED
      BY <1>3, <1>4, <2>1, <2>2 DEF Fits
  <1>6. /\ Only(a) /\ ip \notin V4(All) /\ UNCHANGED total_num_wifi_clients
        /\ handle_wlan_client_route_rule(a, i, e, {4})
        /\ HandleNeighIpAddrAddEvt(ip, c.v4_addr)
    BY <1>1, <1>2 DEF NewAddressV4
  <1>7. PICK new : /\ SlotsOK' /\ ClientsOK' /\ CountOK'
                   /\ Same(e, new) /\ Swap(All, All', c, new)
    BY <1>1, <1>4, <1>5, <1>6, ClientChanged DEF WlanInv
  <1>8. /\ new.v4_addr = ip /\ ip # NoIp
    BY <1>4, <1>7, WlanAssumption DEF Same
  <1>9. Own(All') /\ V4(All') = (V4(All) \ {c.v4_addr}) \cup {ip}
    <2>1. new.v4_addr \notin V4(All) /\ new.v4_addr # NoIp /\ Own(All)
      BY <1>6, <1>8 DEF WlanInv, NatOK
    <2>2. Own(All') /\ V4(All') = (V4(All) \ {c.v4_addr}) \cup {new.v4_addr}
      <3>1. Readdressed(All, All', c, new)
        BY <1>3, <1>7, <2>1, SwapAddress
      <3> QED
        BY <3>1 DEF Readdressed
    <2> QED
      BY <1>8, <2>2
  <1>10. NatListIsExact'
    <2>1. nat_iface_ipv4_addr = V4(All) \cup abandoned
      BY DEF WlanInv, NatOK, NatListIsExact
    <2>2. nat_iface_ipv4_addr' = (nat_iface_ipv4_addr \ {c.v4_addr}) \cup {ip}
          /\ abandoned' = abandoned \ {c.v4_addr}
      BY <1>6 DEF HandleNeighIpAddrAddEvt
    <2>3. V4(All)' = (V4(All) \ {c.v4_addr}) \cup {ip}
      BY <1>9 DEF V4
    <2> QED
      BY <2>1, <2>2, <2>3 DEF NatListIsExact
  <1>11. NoSleepWithoutSleeper'
    <2> SUFFICES ASSUME NEW x \in PwrSaveIfs' \ abandoned'
                 PROVE  \E d \in All' : d.v4_addr = x /\ (d.asleep \/ d.mixed)
      BY DEF NoSleepWithoutSleeper
    <2>1. x \in PwrSaveIfs \ abandoned /\ x # c.v4_addr /\ x # ip
      <3>1. x \in PwrSaveIfs /\ x # c.v4_addr /\ (x = ip => ip \in nat_iface_ipv4_addr)
        BY <1>6 DEF HandleNeighIpAddrAddEvt
      <3>2. x \notin abandoned
        BY <1>6, <3>1 DEF HandleNeighIpAddrAddEvt
      <3>3. nat_iface_ipv4_addr = V4(All) \cup abandoned
        BY DEF WlanInv, NatOK, NatListIsExact
      <3> QED
        BY <1>6, <3>1, <3>2, <3>3
    <2>2. PICK d \in All : d.v4_addr = x /\ (d.asleep \/ d.mixed)
      BY <2>1 DEF WlanInv, NatOK, NoSleepWithoutSleeper
    <2>3. d \in All'
      BY <1>7, <2>1, <2>2 DEF Swap
    <2> QED
      BY <2>2, <2>3
  <1>12. NatOK'
    <2>1. nat_iface_ipv4_addr' \subseteq Ip4 /\ PwrSaveIfs' \subseteq Ip4 /\ abandoned' \subseteq Ip4
      BY <1>6 DEF HandleNeighIpAddrAddEvt, WlanInv, NatOK
    <2>2. Own(All)'
      BY <1>9 DEF Own
    <2> QED
      BY <1>10, <1>11, <2>1, <2>2 DEF NatOK
  <1>13. ASSUME HwInv PROVE HwInv'
    <2>1. Distinct(e)
      BY <1>3, <1>4, <1>13 DEF HwInv, Distinct
    <2>2. Remembers(e) \subseteq Remembers(c)
      BY <1>4 DEF Remembers
    <2>3. {4} \in SUBSET {4, 6}
      OBVIOUS
    <2> QED
      BY <1>1, <1>4, <1>5, <1>6, <1>13, <2>1, <2>2, <2>3, HandlerKeepsHw
  <1> QED
    BY <1>7, <1>12, <1>13 DEF WlanInv

\* A new IPv6 address.
LEMMA NewAddressV6Keeps ==
    ASSUME WlanInv, NEW a \in Aps, NEW i \in 1 .. Len(wlan_client[a]), NEW ip \in Ip6,
           NewAddressV6(a, i, ip)
    PROVE  WlanInv' /\ (HwInv => HwInv')
  <1>1. PICK c : c = wlan_client[a][i]
    OBVIOUS
  <1>2. PICK e : e = [c EXCEPT !.v6_addr = Append(c.v6_addr, ip)]
    OBVIOUS
  <1>3. c \in All /\ c \in Client /\ Fits(c, {4, 6})
    <2>1. In(wlan_client, c)
      BY <1>1 DEF In
    <2> QED
      BY <2>1, Members DEF WlanInv, ClientsOK
  <1>4. /\ Only(a) /\ UNCHANGED <<total_num_wifi_clients, nat_iface_ipv4_addr, PwrSaveIfs, abandoned>>
        /\ Len(c.v6_addr) < IPV6_NUM_ADDR /\ ip \notin Range(c.v6_addr)
        /\ handle_wlan_client_route_rule(a, i, e, {6})
    BY <1>1, <1>2 DEF NewAddressV6, natVars
  <1>5. PICK v \in Seq(Ip6) : /\ v = Append(c.v6_addr, ip) /\ Len(v) = Len(c.v6_addr) + 1
                              /\ v[Len(v)] = ip /\ Len(c.v6_addr) \in Nat
                              /\ \A k \in 1 .. Len(c.v6_addr) : v[k] = c.v6_addr[k]
    <2>1. PICK s \in Seq(Ip6) : s = c.v6_addr
      BY <1>3, ClientFields
    <2>2. PICK v : v = Append(s, ip)
      OBVIOUS
    <2>3. /\ v \in Seq(Ip6) /\ Len(v) = Len(s) + 1 /\ v[Len(v)] = ip /\ Len(s) \in Nat
          /\ \A k \in 1 .. Len(s) : v[k] = s[k]
      BY <2>2
    <2> QED
      BY <2>1, <2>2, <2>3
  <1>6. /\ Len(v) = Len(c.v6_addr) + 1 /\ \A k \in 1 .. Len(c.v6_addr) : v[k] = c.v6_addr[k]
        /\ v[Len(v)] = ip /\ Len(c.v6_addr) \in Nat
    BY <1>5
  <1>7. /\ e \in Client
        /\ e.mac = c.mac /\ e.v4_addr = c.v4_addr /\ e.rule_v4 = c.rule_v4 /\ e.v6_addr = v
        /\ e.rules_v6 = c.rules_v6 /\ e.route_rule_set_v6 = c.route_rule_set_v6
        /\ (e.power_save_set <=> c.power_save_set) /\ (e.asleep <=> c.asleep)
        /\ (e.mixed <=> c.mixed) /\ (e.denied <=> c.denied) /\ (e.cut <=> c.cut)
    BY <1>2, <1>3, <1>5 DEF Client
  <1>8. Fits(e, {4, 6} \ {6})
    <2>1. c.route_rule_set_v6 \in Nat /\ Len(c.v6_addr) \in Nat /\ c.route_rule_set_v6 <= Len(c.v6_addr)
          /\ IPV6_NUM_ADDR \in Nat
      BY <1>3, ClientFields, WlanAssumption DEF Fits
    <2>2. \A k \in 1 .. c.route_rule_set_v6 : v[k] = c.v6_addr[k]
      BY <1>6, <2>1
    <2>3. RulesV6(e, 1 .. e.route_rule_set_v6) = RulesV6(c, 1 .. c.route_rule_set_v6)
      BY <1>7, <2>2 DEF RulesV6
    <2>4. e.route_rule_set_v6 <= Len(e.v6_addr) /\ Len(e.v6_addr) <= IPV6_NUM_ADDR
      BY <1>4, <1>6, <1>7, <2>1
    <2>5. 6 \notin {4, 6} \ {6}
      OBVIOUS
    <2> QED
      BY <1>3, <1>7, <2>3, <2>4, <2>5 DEF Fits
  <1>9. PICK new : /\ SlotsOK' /\ ClientsOK' /\ CountOK'
                   /\ Same(e, new) /\ Swap(All, All', c, new)
    BY <1>1, <1>4, <1>7, <1>8, ClientChanged DEF WlanInv
  <1>10. Same(c, new)
    BY <1>7, <1>9 DEF Same
  <1>11. Own(All)' /\ NatListIsExact'
    BY <1>3, <1>4, <1>9, <1>10, AddressesStay DEF WlanInv, Same
  <1>12. NoSleepWithoutSleeper'
    <2> SUFFICES ASSUME NEW x \in PwrSaveIfs \ abandoned
                 PROVE  \E d \in All' : d.v4_addr = x /\ (d.asleep \/ d.mixed)
      BY <1>4 DEF NoSleepWithoutSleeper
    <2>1. PICK d \in All : d.v4_addr = x /\ (d.asleep \/ d.mixed)
      BY DEF WlanInv, NatOK, NoSleepWithoutSleeper
    <2> QED
      BY <1>9, <1>10, <2>1 DEF Swap, Same
  <1>13. NatOK'
    BY <1>4, <1>11, <1>12 DEF WlanInv, NatOK
  <1>14. ASSUME HwInv PROVE HwInv'
    <2>1. Distinct(c)
      BY <1>3, <1>14 DEF HwInv
    <2>2. \A k \in 1 .. Len(c.v6_addr) : c.v6_addr[k] # ip
      <3>1. PICK s \in Seq(Ip6) : s = c.v6_addr
        BY <1>3, ClientFields
      <3>2. DOMAIN s = 1 .. Len(s)
        OBVIOUS
      <3> QED
        BY <1>4, <3>1, <3>2 DEF Range
    <2>3. \A k \in 1 .. Len(v) : k \in 1 .. Len(c.v6_addr) \/ k = Len(v)
      BY <1>6
    <2>4. Distinct(e)
      <3>1. \A j, k \in 1 .. Len(v) : v[j] = v[k] => j = k
        BY <1>6, <2>1, <2>2, <2>3 DEF Distinct
      <3> QED
        BY <1>7, <3>1 DEF Distinct
    <2>5. Remembers(e) \subseteq Remembers(c)
      BY <1>7 DEF Remembers
    <2>6. {6} \in SUBSET {4, 6}
      OBVIOUS
    <2> QED
      BY <1>1, <1>4, <1>7, <1>8, <1>14, <2>4, <2>5, <2>6, HandlerKeepsHw
  <1> QED
    BY <1>9, <1>13, <1>14 DEF WlanInv

\* A client falls asleep; the driver may say it again.
LEMMA PwrsaveKeeps ==
    ASSUME WlanInv, NEW a \in Aps, NEW i \in 1 .. Len(wlan_client[a]),
           handle_wlan_client_pwrsave(a, i)
    PROVE  WlanInv' /\ (HwInv => HwInv')
  <1>1. PICK c : c = wlan_client[a][i]
    OBVIOUS
  <1>2. PICK s : s = [NoRuleV4(NoRulesV6(c)) EXCEPT !.power_save_set = TRUE]
    OBVIOUS
  <1>3. PICK n : n = IF c.power_save_set THEN c ELSE s
    OBVIOUS
  <1>4. PICK e : e = [n EXCEPT !.asleep = TRUE]
    OBVIOUS
  <1>5. c \in All /\ c \in Client /\ Fits(c, {4, 6})
    <2>1. In(wlan_client, c)
      BY <1>1 DEF In
    <2> QED
      BY <2>1, Members DEF WlanInv, ClientsOK
  <1>6. /\ Only(a) /\ UNCHANGED <<total_num_wifi_clients, nat_iface_ipv4_addr, abandoned>>
        /\ handle_wlan_client_route_rule(a, i, e, {})
        /\ PwrSaveIfs' = IF c.power_save_set THEN PwrSaveIfs ELSE PwrSaveIfs \cup V4({c})
    BY <1>1, <1>2, <1>3, <1>4 DEF handle_wlan_client_pwrsave
  <1>7. c.power_save_set \in BOOLEAN /\ c.mixed \in BOOLEAN /\ c.asleep \in BOOLEAN /\ c.denied \in BOOLEAN
    BY <1>5, ClientFields
  <1>8. /\ Fits(e, {4, 6}) /\ e.mac = c.mac /\ e.v4_addr = c.v4_addr /\ e.asleep /\ (c.mixed => e.mixed)
        /\ e.v6_addr = c.v6_addr /\ e.rule_v4 \subseteq c.rule_v4 /\ e.rules_v6 \subseteq c.rules_v6
    <2>1. CASE c.power_save_set
      <3>1. e = [c EXCEPT !.asleep = TRUE]
        BY <1>3, <1>4, <2>1
      <3>2. /\ e \in Client
            /\ e.mac = c.mac /\ e.v4_addr = c.v4_addr /\ e.rule_v4 = c.rule_v4 /\ e.v6_addr = c.v6_addr
            /\ e.rules_v6 = c.rules_v6 /\ e.route_rule_set_v6 = c.route_rule_set_v6
            /\ e.power_save_set /\ e.asleep /\ (e.mixed <=> c.mixed) /\ (e.denied <=> c.denied)
            /\ (e.cut <=> c.cut)
        BY <1>5, <2>1, <3>1 DEF Client
      <3>3. RulesV6(e, 1 .. e.route_rule_set_v6) = RulesV6(c, 1 .. c.route_rule_set_v6)
        BY <3>2 DEF RulesV6
      <3>4. Fits(e, {4, 6})
        BY <1>5, <2>1, <3>2, <3>3 DEF Fits
      <3> QED
        BY <3>2, <3>4
    <2>2. CASE ~c.power_save_set
      <3>1. e = [c EXCEPT !.rules_v6 = {}, !.route_rule_set_v6 = 0, !.rule_v4 = {},
                          !.power_save_set = TRUE, !.asleep = TRUE]
        BY <1>2, <1>3, <1>4, <1>5, <2>2 DEF NoRuleV4, NoRulesV6, Client
      <3>2. /\ e \in Client
            /\ e.mac = c.mac /\ e.v4_addr = c.v4_addr /\ e.rule_v4 = {} /\ e.v6_addr = c.v6_addr
            /\ e.rules_v6 = {} /\ e.route_rule_set_v6 = 0
            /\ e.power_save_set /\ e.asleep /\ (e.mixed <=> c.mixed) /\ (e.denied <=> c.denied)
        BY <1>5, <3>1 DEF Client
      <3>3. RulesV6(e, 1 .. e.route_rule_set_v6) = {}
        BY <3>2 DEF RulesV6
      <3>4. 0 <= Len(e.v6_addr) /\ Len(e.v6_addr) <= IPV6_NUM_ADDR
        BY <1>5, <3>2, ClientFields DEF Fits
      <3>5. Fits(e, {4, 6})
        BY <1>5, <3>2, <3>3, <3>4 DEF Fits
      <3> QED
        BY <3>2, <3>5
    <2> QED
      BY <1>7, <2>1, <2>2
  <1>9. PICK new : /\ SlotsOK' /\ ClientsOK' /\ CountOK'
                   /\ Same(e, new) /\ Swap(All, All', c, new)
    <2>1. {4, 6} \ {} = {4, 6} /\ {} \in SUBSET {4, 6}
      OBVIOUS
    <2>2. Fits(e, {4, 6} \ {})
      BY <1>8, <2>1
    <2> QED
      BY <1>1, <1>6, <1>8, <2>1, <2>2, ClientChanged DEF WlanInv
  <1>10. new.mac = c.mac /\ new.v4_addr = c.v4_addr /\ new.asleep
    BY <1>8, <1>9 DEF Same
  <1>11. Own(All)' /\ NatListIsExact'
    BY <1>5, <1>6, <1>9, <1>10, AddressesStay DEF WlanInv
  <1>12. NoSleepWithoutSleeper'
    <2> SUFFICES ASSUME NEW x \in PwrSaveIfs' \ abandoned
                 PROVE  \E d \in All' : d.v4_addr = x /\ (d.asleep \/ d.mixed)
      BY <1>6 DEF NoSleepWithoutSleeper
    <2>1. new \in All'
      BY <1>9 DEF Swap
    <2>2. CASE x = c.v4_addr
      BY <1>10, <2>1, <2>2
    <2>3. CASE x # c.v4_addr
      <3>1. x \in PwrSaveIfs \ abandoned
        BY <1>6, <2>3 DEF V4
      <3>2. PICK d \in All : d.v4_addr = x /\ (d.asleep \/ d.mixed)
        BY <3>1 DEF WlanInv, NatOK, NoSleepWithoutSleeper
      <3>3. d \in All'
        BY <1>9, <2>3, <3>2 DEF Swap
      <3> QED
        BY <3>2, <3>3
    <2> QED
      BY <2>2, <2>3
  <1>13. NatOK'
    <2>1. V4({c}) \subseteq Ip4
      BY <1>5, ClientFields DEF V4
    <2>2. PwrSaveIfs' \subseteq Ip4
      BY <1>6, <2>1 DEF WlanInv, NatOK
    <2> QED
      BY <1>6, <1>11, <1>12, <2>2 DEF WlanInv, NatOK
  <1>14. ASSUME HwInv PROVE HwInv'
    <2>1. Distinct(e)
      BY <1>5, <1>8, <1>14 DEF HwInv, Distinct
    <2>2. Remembers(e) \subseteq Remembers(c)
      BY <1>8 DEF Remembers
    <2>3. {4, 6} \ {} = {4, 6} /\ {} \in SUBSET {4, 6}
      OBVIOUS
    <2>4. Fits(e, {4, 6} \ {})
      BY <1>8, <2>3
    <2> QED
      BY <1>1, <1>6, <1>8, <1>14, <2>1, <2>2, <2>3, <2>4, HandlerKeepsHw
  <1> QED
    BY <1>9, <1>13, <1>14 DEF WlanInv

\* A client wakes up, or is said to be awake when it is thought so already.
LEMMA RecoverKeeps ==
    ASSUME WlanInv, NEW a \in Aps, NEW i \in 1 .. Len(wlan_client[a]),
           IPA_WLAN_CLIENT_RECOVER_EVENT(a, i)
    PROVE  WlanInv' /\ (HwInv => HwInv')
  <1>1. PICK c : c = wlan_client[a][i]
    OBVIOUS
  <1>2. PICK e : e = [c EXCEPT !.asleep = FALSE, !.power_save_set = FALSE]
    OBVIOUS
  <1>3. PICK ipv : ipv = IF c.power_save_set THEN {4, 6} ELSE {}
    OBVIOUS
  <1>4. c \in All /\ c \in Client /\ Fits(c, {4, 6})
    <2>1. In(wlan_client, c)
      BY <1>1 DEF In
    <2> QED
      BY <2>1, Members DEF WlanInv, ClientsOK
  <1>5. /\ Only(a) /\ UNCHANGED <<total_num_wifi_clients, nat_iface_ipv4_addr, abandoned>>
        /\ handle_wlan_client_route_rule(a, i, e, ipv)
        /\ PwrSaveIfs' = IF c.power_save_set THEN PwrSaveIfs \ V4({c}) ELSE PwrSaveIfs
    BY <1>1, <1>2, <1>3 DEF IPA_WLAN_CLIENT_RECOVER_EVENT
  <1>6. c.power_save_set \in BOOLEAN /\ c.mixed \in BOOLEAN /\ c.asleep \in BOOLEAN /\ c.denied \in BOOLEAN
    BY <1>4, ClientFields
  <1>7. /\ e \in Client
        /\ e.mac = c.mac /\ e.v4_addr = c.v4_addr /\ e.rule_v4 = c.rule_v4 /\ e.v6_addr = c.v6_addr
        /\ e.rules_v6 = c.rules_v6 /\ e.route_rule_set_v6 = c.route_rule_set_v6
        /\ ~e.power_save_set /\ ~e.asleep /\ (e.mixed <=> c.mixed) /\ (e.denied <=> c.denied)
        /\ (e.cut <=> c.cut)
    BY <1>2, <1>4 DEF Client
  <1>8. RulesV6(e, 1 .. e.route_rule_set_v6) = RulesV6(c, 1 .. c.route_rule_set_v6)
    BY <1>7 DEF RulesV6
  <1>9. Fits(e, {4, 6} \ ipv) /\ ipv \in SUBSET {4, 6}
    <2>1. CASE c.power_save_set
      <3>1. {4, 6} \ ipv = {} /\ ipv \in SUBSET {4, 6}
        BY <1>3, <2>1
      <3>2. Fits(e, {})
        BY <1>4, <1>7, <1>8 DEF Fits
      <3> QED
        BY <3>1, <3>2
    <2>2. CASE ~c.power_save_set
      <3>1. {4, 6} \ ipv = {4, 6} /\ ipv \in SUBSET {4, 6}
        BY <1>3, <2>2
      <3>2. ~c.mixed => ~c.asleep
        BY <1>4, <2>2 DEF Fits
      <3>3. Fits(e, {4, 6})
        BY <1>4, <1>7, <1>8, <3>2 DEF Fits
      <3> QED
        BY <3>1, <3>3
    <2> QED
      BY <1>6, <2>1, <2>2
  <1>10. PICK new : /\ SlotsOK' /\ ClientsOK' /\ CountOK'
                    /\ Same(e, new) /\ Swap(All, All', c, new)
    BY <1>1, <1>5, <1>7, <1>9, ClientChanged DEF WlanInv
  <1>11. new.mac = c.mac /\ new.v4_addr = c.v4_addr /\ (c.mixed => new.mixed)
    BY <1>7, <1>10 DEF Same
  <1>12. Own(All)' /\ NatListIsExact'
    BY <1>4, <1>5, <1>10, <1>11, AddressesStay DEF WlanInv
  <1>13. NoSleepWithoutSleeper'
    <2> SUFFICES ASSUME NEW x \in PwrSaveIfs' \ abandoned
                 PROVE  \E d \in All' : d.v4_addr = x /\ (d.asleep \/ d.mixed)
      BY <1>5 DEF NoSleepWithoutSleeper
    <2>1. x \in PwrSaveIfs \ abandoned /\ x # NoIp
      BY <1>5, WlanAssumption DEF WlanInv, NatOK
    <2>2. PICK d \in All : d.v4_addr = x /\ (d.asleep \/ d.mixed)
      BY <2>1 DEF WlanInv, NatOK, NoSleepWithoutSleeper
    <2>3. CASE d # c
      BY <1>10, <2>2, <2>3 DEF Swap
    <2>4. CASE d = c
      <3>1. ~c.power_save_set
        BY <1>5, <2>1, <2>2, <2>4 DEF V4
      <3>2. c.mixed
        BY <1>4, <2>2, <2>4, <3>1 DEF Fits
      <3>3. new \in All'
        BY <1>10 DEF Swap
      <3> QED
        BY <1>11, <2>2, <2>4, <3>2, <3>3
    <2> QED
      BY <2>3, <2>4
  <1>14. NatOK'
    <2>1. PwrSaveIfs' \subseteq Ip4
      BY <1>5 DEF WlanInv, NatOK
    <2> QED
      BY <1>5, <1>12, <1>13, <2>1 DEF WlanInv, NatOK
  <1>15. ASSUME HwInv PROVE HwInv'
    <2>1. Distinct(e)
      BY <1>4, <1>7, <1>15 DEF HwInv, Distinct
    <2>2. Remembers(e) \subseteq Remembers(c)
      BY <1>7 DEF Remembers
    <2> QED
      BY <1>1, <1>5, <1>7, <1>9, <1>15, <2>1, <2>2, HandlerKeepsHw
  <1> QED
    BY <1>10, <1>14, <1>15 DEF WlanInv

-----------------------------------------------------------------------------
(* The events that take clients away.                                      *)

\* A client leaves.
LEMMA DownKeeps ==
    ASSUME WlanInv, NEW a \in Aps, NEW i \in 1 .. Len(wlan_client[a]),
           handle_wlan_client_down_evt(a, i)
    PROVE  WlanInv' /\ (HwInv => HwInv')
  <1>1. PICK c : c = wlan_client[a][i]
    OBVIOUS
  <1>2. PICK w \in [Aps -> Seq(Client)] : w = wlan_client /\ Apart(w)
    BY DEF WlanInv, SlotsOK
  <1>3. c \in All /\ c \in Client
    <2>1. In(wlan_client, c)
      BY <1>1 DEF In
    <2> QED
      BY <2>1, Members DEF WlanInv
  <1>4. /\ Only(a) /\ HandleNeighIpAddrDelEvt(V4({c}))
        /\ total_num_wifi_clients' = total_num_wifi_clients - 1 /\ UNCHANGED <<leaked, faults>>
        /\ hw' = hw (-) SetToBag(Remembers(c))
        /\ wlan_client' =
             [w EXCEPT ![a] =
                [j \in 1 .. Len(w[a]) - 1 |-> IF j < i THEN w[a][j] ELSE Moved(w[a][j + 1], w[a][j])]]
    BY <1>1, <1>2 DEF handle_wlan_client_down_evt
  <1>5. IsRemoved(w, a, i, wlan_client')
    BY <1>2, <1>4, Removed
  <1>6. SlotsOK'
    BY <1>4, <1>5 DEF IsRemoved, WlanInv, SlotsOK, Only
  <1>7. /\ \A d \in All' : \E b \in All : b # c /\ Follows(b, d)
        /\ \A b \in All : b # c => \E d \in All' : Follows(b, d)
    <2>1. \A d : d \in All' <=> In(wlan_client', d)
      BY <1>5, MembersAfter DEF IsRemoved
    <2>2. \A b : b \in All <=> In(w, b)
      BY <1>2, Members DEF WlanInv
    <2> QED
      BY <1>1, <1>2, <1>5, <2>1, <2>2 DEF IsRemoved
  <1>8. ClientsOK' /\ Leaves(All, All', {c})
    <2>1. \A b \in All : Fits(b, {4, 6})
      BY DEF WlanInv, ClientsOK
    <2>2. \A b \in All : \A d : Follows(b, d) => Fits(d, {4, 6}) /\ Likes(b, d)
      BY <2>1, FollowsFits
    <2>3. ClientsOK'
      BY <1>7, <2>2 DEF ClientsOK
    <2>4. Leaves(All, All', {c})
      BY <1>3, <1>7, <2>2 DEF Leaves
    <2> QED
      BY <2>3, <2>4
  <1>9. OneMac(All) /\ OneMac(All')
    <2>1. OneMac(All)'
      BY <1>6, MacOwner, PTL
    <2> QED
      BY <2>1, MacOwner DEF WlanInv, OneMac
  <1>10. CountOK'
    <2>1. MacsOf(All') = MacsOf(All) \ MacsOf({c})
      BY <1>8, <1>9, Stay DEF WlanInv, NatOK, Stays
    <2>2. MacsUsed' = MacsUsed \ {c.mac} /\ c.mac \in MacsUsed
      BY <1>3, <2>1 DEF MacsOf, MacsUsed
    <2>3. IsFiniteSet(MacsUsed) /\ total_num_wifi_clients = Cardinality(MacsUsed)
          /\ total_num_wifi_clients <= IPA_MAX_NUM_WIFI_CLIENTS
      BY DEF WlanInv, CountOK
    <2>4. IsFiniteSet(MacsUsed') /\ Cardinality(MacsUsed') = Cardinality(MacsUsed) - 1
      BY <2>2, <2>3, FS_RemoveElement
    <2>5. Cardinality(MacsUsed) \in Nat
      BY <2>3, FS_CardinalityType
    <2> QED
      BY <1>4, <2>3, <2>4, <2>5, WlanAssumption DEF CountOK
  <1>11. V4({c}) \subseteq Ip4
    BY <1>3, ClientFields DEF V4
  <1>12. NatOK'
    BY <1>4, <1>8, <1>9, <1>11, NatFollows DEF WlanInv
  <1>13. ASSUME HwInv PROVE HwInv'
    <2>1. Known({c}) = Remembers(c) /\ {c} \in SUBSET All
      BY <1>3 DEF Known
    <2>2. \A b \in All : \A d : Follows(b, d) => Remembers(d) = Remembers(b) /\ d.v6_addr = b.v6_addr
      <3>1. \A b \in All : b \in Client
        BY Members DEF WlanInv
      <3> QED
        BY <3>1 DEF Follows, Client, Remembers
    <2>3. \A d \in All' : \E b \in All \ {c} : Remembers(d) = Remembers(b) /\ d.v6_addr = b.v6_addr
      BY <1>7, <2>2
    <2>4. \A b \in All \ {c} : \E d \in All' : Remembers(d) = Remembers(b)
      BY <1>7, <2>2
    <2> QED
      BY <1>4, <1>13, <2>1, <2>3, <2>4, LeavingKeepsHw
  <1> QED
    BY <1>6, <1>8, <1>10, <1>12, <1>13 DEF WlanInv

\* The object of an AP goes, with its clients: NAT hears of them, or, when the AP never had
\* an address, nobody does.
LEMMA LinkDownKeeps ==
    ASSUME WlanInv, NEW a \in Aps, IPA_WLAN_LINK_DOWN_EVENT(a)
    PROVE  WlanInv' /\ (HwInv => HwInv')
  <1>1. PICK w \in [Aps -> Seq(Client)] : w = wlan_client /\ Apart(w)
    BY DEF WlanInv, SlotsOK
  <1>2. /\ active' = [active EXCEPT ![a] = FALSE] /\ ip_type' = [ip_type EXCEPT ![a] = "null"]
        /\ wlan_client' = [w EXCEPT ![a] = <<>>]
        /\ total_num_wifi_clients' = total_num_wifi_clients - Len(w[a])
        /\ handle_down_evt(a)
    BY <1>1 DEF IPA_WLAN_LINK_DOWN_EVENT, DownCounted
  <1>3. IsCleared(w, a, wlan_client')
    BY <1>1, <1>2, Cleared
  <1>4. /\ faults' \in 0 .. MaxFaults
        /\ \/ HandleNeighIpAddrDelEvt(V4(Clients(a)))
           \/ UNCHANGED <<nat_iface_ipv4_addr, PwrSaveIfs>> /\ abandoned' = abandoned \cup V4(Clients(a))
    <2>1. faults \in 0 .. MaxFaults /\ Len(wlan_client[a]) \in Nat
      BY DEF WlanInv, SlotsOK
    <2>2. CASE ip_type[a] # "null"
      BY <1>2, <2>1, <2>2 DEF handle_down_evt
    <2>3. CASE ip_type[a] = "null"
      <3>1. /\ faults' = faults + Len(wlan_client[a]) /\ faults' <= MaxFaults
            /\ UNCHANGED <<nat_iface_ipv4_addr, PwrSaveIfs>>
            /\ abandoned' = abandoned \cup V4(Clients(a))
        BY <1>2, <2>3 DEF handle_down_evt
      <3> QED
        BY <2>1, <3>1, WlanAssumption
    <2> QED
      BY <2>1, <2>2, <2>3
  <1>5. SlotsOK'
    BY <1>2, <1>3, <1>4 DEF IsCleared, WlanInv, SlotsOK
  <1>6. \A c : c \in All' <=> c \in All /\ c \notin Clients(a)
    <2>1. \A c : c \in All' <=> In(wlan_client', c)
      BY <1>3, MembersAfter DEF IsCleared
    <2>2. \A c : c \in All <=> In(w, c)
      BY <1>1, Members DEF WlanInv
    <2>3. \A c : c \in Clients(a) <=> \E i \in 1 .. Len(w[a]) : c = w[a][i]
      BY <1>1, MacsOfAp DEF WlanInv
    <2> QED
      BY <1>3, <2>1, <2>2, <2>3 DEF IsCleared
  <1>7. ClientsOK' /\ Leaves(All, All', Clients(a))
    <2>1. ClientsOK'
      BY <1>6 DEF WlanInv, ClientsOK
    <2>2. \A c \in All : Likes(c, c)
      BY DEF Likes
    <2>3. Clients(a) \subseteq All
      BY MacsOfAp DEF WlanInv
    <2> QED
      BY <1>6, <2>1, <2>2, <2>3 DEF Leaves
  <1>8. OneMac(All) /\ OneMac(All')
    <2>1. OneMac(All)'
      BY <1>5, MacOwner, PTL
    <2> QED
      BY <2>1, MacOwner DEF WlanInv, OneMac
  <1>9. CountOK'
    <2>1. PICK G : G = MacsOf(Clients(a))
      OBVIOUS
    <2>2. MacsUsed' = MacsUsed \ G
      <3>1. MacsOf(All') = MacsOf(All) \ G
        BY <1>7, <1>8, <2>1, Stay DEF WlanInv, NatOK, Stays
      <3> QED
        BY <3>1 DEF MacsOf, MacsUsed
    <2>3. G \subseteq MacsUsed
      BY <2>1, MacsOfAp DEF WlanInv, MacsOf, MacsUsed
    <2>4. Cardinality(G) = Len(w[a]) /\ Len(w[a]) \in Nat
      BY <1>1, <2>1, MacsOfAp DEF WlanInv
    <2>5. IsFiniteSet(MacsUsed) /\ total_num_wifi_clients = Cardinality(MacsUsed)
          /\ total_num_wifi_clients <= IPA_MAX_NUM_WIFI_CLIENTS
      BY DEF WlanInv, CountOK
    <2>6. /\ IsFiniteSet(MacsUsed \ G)
          /\ Cardinality(MacsUsed \ G) = Cardinality(MacsUsed) - Cardinality(MacsUsed \cap G)
      BY <2>5, FS_Difference
    <2>7. MacsUsed \cap G = G
      BY <2>3
    <2>8. Cardinality(MacsUsed) \in Nat
      BY <2>5, FS_CardinalityType
    <2>9. IsFiniteSet(MacsUsed') /\ Cardinality(MacsUsed') = Cardinality(MacsUsed) - Len(w[a])
      BY <2>2, <2>4, <2>6, <2>7
    <2> QED
      BY <1>2, <2>4, <2>5, <2>8, <2>9, WlanAssumption DEF CountOK
  <1>10. V4(Clients(a)) \subseteq Ip4
    <2>1. \A c \in Clients(a) : c \in Client
      BY MacsOfAp, Members DEF WlanInv
    <2>2. \A c \in Clients(a) : c.v4_addr \in Ip4 \cup {NoIp}
      BY <2>1, ClientFields
    <2> QED
      BY <2>2 DEF V4
  <1>11. NatOK'
    BY <1>4, <1>7, <1>8, <1>10, NatFollows DEF WlanInv
  <1>12. ASSUME HwInv PROVE HwInv'
    <2>1. /\ \A d \in All' : \E c \in All \ Clients(a) : Remembers(d) = Remembers(c) /\ d.v6_addr = c.v6_addr
          /\ \A c \in All \ Clients(a) : \E d \in All' : Remembers(d) = Remembers(c)
      BY <1>6
    <2>2. \/ hw' = hw (-) SetToBag(Known(Clients(a))) /\ UNCHANGED leaked
          \/ UNCHANGED hw /\ leaked' = leaked (+) SetToBag(Known(Clients(a)))
      BY <1>2 DEF handle_down_evt, Known
    <2>3. Clients(a) \in SUBSET All
      BY MacsOfAp DEF WlanInv
    <2> QED
      BY <1>12, <2>1, <2>2, <2>3, LeavingKeepsHw
  <1> QED
    BY <1>5, <1>7, <1>9, <1>11, <1>12 DEF WlanInv

\* The IPv6 connection goes, and with it the IPv6 addresses of the clients the reset comes
\* to.
LEMMA WanDownKeeps ==
    ASSUME WlanInv, NEW a \in Aps, IPA_HANDLE_WAN_DOWN_V6_TETHER(a)
    PROVE  WlanInv' /\ (HwInv => HwInv')
  <1>1. PICK w \in [Aps -> Seq(Client)] : w = wlan_client /\ Apart(w)
    BY DEF WlanInv, SlotsOK
  <1>2. PICK t, D :
           /\ t = handle_wlan_client_reset_rt(a)
           /\ D = Known(Clients(a)) \ Known(Range(t))
           /\ wlan_client' = [w EXCEPT ![a] = t]
           /\ UNCHANGED <<active, ip_type, total_num_wifi_clients, faults>>
           /\ UNCHANGED <<nat_iface_ipv4_addr, PwrSaveIfs, abandoned, leaked>>
           /\ hw' = hw (-) SetToBag(D)
    <2>1. PICK t : t = handle_wlan_client_reset_rt(a)
      OBVIOUS
    <2>2. PICK D : D = (UNION {Remembers(c) : c \in Clients(a)}) \ (UNION {Remembers(c) : c \in Range(t)})
      OBVIOUS
    <2>3. /\ Only(a) /\ hw' = hw (-) SetToBag(D)
          /\ wlan_client' = [wlan_client EXCEPT ![a] = t]
          /\ UNCHANGED <<total_num_wifi_clients, natVars, leaked, faults>>
      BY <2>1, <2>2 DEF IPA_HANDLE_WAN_DOWN_V6_TETHER
    <2>4. D = Known(Clients(a)) \ Known(Range(t))
      BY <2>2 DEF Known
    <2> QED
      BY <1>1, <2>1, <2>3, <2>4 DEF Only, natVars
  <1>3. /\ DOMAIN t = 1 .. Len(w[a]) /\ t = [i \in DOMAIN t |-> t[i]]
        /\ \A i \in 1 .. Len(w[a]) : Trims(w[a][i], t[i])
    <2>1. PICK s \in Seq(Client) : s = w[a]
      OBVIOUS
    <2>2. DOMAIN s = 1 .. Len(s)
      OBVIOUS
    <2>3. t = [i \in DOMAIN s |-> IF ~(\A j \in 1 .. i - 1 : Reported(a, s[j])) THEN s[i]
                                  ELSE IF Reported(a, s[i]) THEN ResetV6(s[i]) ELSE CutShort(s[i])]
      <3>1. s = wlan_client[a] /\ t = handle_wlan_client_reset_rt(a)
        BY <1>1, <1>2, <2>1
      <3> QED
        BY <3>1, Zenon DEF handle_wlan_client_reset_rt
    <2> QED
      BY <2>1, <2>2, <2>3 DEF Trims
  <1>4. IsTrimmed(w, a, t, wlan_client')
    BY <1>1, <1>2, <1>3, Trimmed
  <1>5. SlotsOK'
    BY <1>2, <1>4 DEF IsTrimmed, WlanInv, SlotsOK
  <1>6. /\ \A c : c \in All <=> In(w, c)
        /\ \A c : c \in All' <=> In(wlan_client', c)
        /\ \A c : c \in Clients(a) <=> Holds(w[a], c)
        /\ \A c : c \in Range(t) <=> Holds(t, c)
    <2>1. \A c : c \in Clients(a) <=> Holds(w[a], c)
      BY <1>1, MacsOfAp DEF WlanInv, Holds
    <2>2. \A c : c \in Range(t) <=> Holds(t, c)
      <3>1. t \in Seq(Client)
        BY <1>2, <1>4 DEF IsTrimmed
      <3>2. DOMAIN t = 1 .. Len(t)
        BY <3>1
      <3> QED
        BY <3>2 DEF Range, Holds
    <2> QED
      BY <1>1, <1>4, <2>1, <2>2, Members, MembersAfter DEF IsTrimmed, WlanInv
  <1>7. /\ \A d : d \in All' <=> (d \in All /\ d \notin Clients(a)) \/ d \in Range(t)
        /\ \A d \in Range(t) : \E c \in Clients(a) : Trims(c, d)
        /\ \A c \in Clients(a) : \E d \in Range(t) : Trims(c, d)
        /\ \A c \in Clients(a) : c \in All
    <2>1. \A c \in Clients(a) : c \in All
      BY MacsOfAp DEF WlanInv
    <2> QED
      BY <1>4, <1>6, <2>1 DEF IsTrimmed
  <1>8. ClientsOK' /\ Leaves(All, All', {})
    <2>1. \A c \in All : \A d : Trims(c, d) => Fits(d, {4, 6}) /\ Likes(c, d)
      BY TrimmedFits DEF WlanInv, ClientsOK
    <2>2. \A c : Trims(c, c)
      BY DEF Trims
    <2>3. \A d \in All' : \E c \in All : Trims(c, d)
      BY <1>7, <2>2
    <2>4. \A c \in All : \E d \in All' : Trims(c, d)
      BY <1>7, <2>2
    <2>5. Leaves(All, All', {})
      BY <2>1, <2>3, <2>4 DEF Leaves
    <2>6. \A d \in All' : Fits(d, {4, 6})
      BY <2>1, <2>3
    <2> QED
      BY <2>5, <2>6 DEF ClientsOK
  <1>9. OneMac(All) /\ OneMac(All')
    <2>1. OneMac(All)'
      BY <1>5, MacOwner, PTL
    <2> QED
      BY <2>1, MacOwner DEF WlanInv, OneMac
  <1>10. CountOK'
    <2>1. MacsOf(All') = MacsOf(All) \ MacsOf({})
      BY <1>8, <1>9, Stay DEF WlanInv, NatOK, Stays
    <2>2. MacsUsed' = MacsUsed
      BY <2>1 DEF MacsOf, MacsUsed
    <2> QED
      BY <1>2, <2>2 DEF WlanInv, CountOK
  <1>11. V4({}) = {}
    BY DEF V4
  <1>12. HandleNeighIpAddrDelEvt(V4({})) /\ V4({}) \subseteq Ip4
    BY <1>2, <1>11 DEF HandleNeighIpAddrDelEvt
  <1>13. NatOK'
    BY <1>8, <1>9, <1>12, NatFollows DEF WlanInv
  <1>14. ASSUME HwInv PROVE HwInv'
    <2>1. PICK R, C, T : R = Known(All) /\ C = Known(Clients(a)) /\ T = Known(Range(t))
      OBVIOUS
    <2>2. \A c \in All : \A d : Trims(c, d) => Remembers(d) \subseteq Remembers(c) /\ Distinct(d)
      <3> SUFFICES ASSUME NEW c \in All, NEW d, Trims(c, d)
                   PROVE  Remembers(d) \subseteq Remembers(c) /\ Distinct(d)
        OBVIOUS
      <3>1. c \in Client /\ Distinct(c)
        BY <1>14, Members DEF WlanInv, HwInv
      <3>2. CASE d = c
        BY <3>1, <3>2
      <3>3. CASE d = ResetV6(c)
        <4>1. d.mac = c.mac /\ d.rule_v4 = c.rule_v4 /\ d.rules_v6 = {} /\ d.v6_addr = <<>>
          BY <3>1, <3>3 DEF ResetV6, NoRulesV6, Client
        <4>2. Len(d.v6_addr) = 0
          BY <4>1
        <4> QED
          BY <4>1, <4>2 DEF Remembers, Distinct
      <3>4. CASE d = CutShort(c)
        <4>1. d.mac = c.mac /\ d.rule_v4 = c.rule_v4 /\ d.rules_v6 = {} /\ d.v6_addr = c.v6_addr
          BY <3>1, <3>4 DEF CutShort, NoRulesV6, Client
        <4> QED
          BY <3>1, <4>1 DEF Remembers, Distinct
      <3> QED
        BY <3>2, <3>3, <3>4 DEF Trims
    <2>3. \A c, d \in All : \A x \in Remembers(c) : x \in Remembers(d) => c = d
      BY Owners DEF OneMac
    <2>4. Known(All') = R \ D
      <3>1. \A x : x \in T => x \in R
        BY <1>7, <2>1, <2>2 DEF Known
      <3>2. ASSUME NEW c \in All, c \notin Clients(a), NEW x \in Remembers(c) PROVE x \notin C
        BY <1>7, <2>1, <2>3, <3>2 DEF Known
      <3>3. ASSUME NEW x \in Known(All') PROVE x \in R /\ x \notin D
        <4>1. PICK d \in All' : x \in Remembers(d)
          BY <3>3 DEF Known
        <4>2. CASE d \in Range(t)
          <5>1. x \in T
            BY <2>1, <4>1, <4>2 DEF Known
          <5> QED
            BY <1>2, <2>1, <3>1, <5>1
        <4>3. CASE d \notin Range(t)
          <5>1. d \in All /\ d \notin Clients(a)
            BY <1>7, <4>3
          <5>2. x \in R /\ x \notin C
            BY <2>1, <3>2, <4>1, <5>1 DEF Known
          <5> QED
            BY <1>2, <2>1, <5>2
        <4> QED
          BY <4>2, <4>3
      <3>4. ASSUME NEW x \in R, x \notin D PROVE x \in Known(All')
        <4>1. PICK c \in All : x \in Remembers(c)
          BY <2>1 DEF Known
        <4>2. CASE x \in T
          <5>1. PICK d \in Range(t) : x \in Remembers(d)
            BY <2>1, <4>2 DEF Known
          <5> QED
            BY <1>7, <5>1 DEF Known
        <4>3. CASE x \notin T
          <5>1. x \notin C
            BY <1>2, <2>1, <3>4, <4>3
          <5>2. c \notin Clients(a)
            BY <2>1, <4>1, <5>1 DEF Known
          <5> QED
            BY <1>7, <4>1, <5>2 DEF Known
        <4> QED
          BY <4>2, <4>3
      <3> QED
        BY <3>3, <3>4
    <2>5. D \in SUBSET R
      BY <1>2, <1>7, <2>1 DEF Known
    <2>6. IsABag(leaked) /\ hw = leaked (+) SetToBag(R)
      BY <1>14, <2>1 DEF HwInv, HardwareAccounted, Known
    <2>7. hw' = leaked (+) SetToBag(R \ D)
      BY <1>2, <2>5, <2>6, Deleted
    <2>8. HardwareAccounted'
      BY <1>2, <2>4, <2>7 DEF HardwareAccounted, Known
    <2>9. \A d \in All' : Distinct(d)
      <3>1. \A d \in All' : \E c \in All : Trims(c, d)
        BY <1>7 DEF Trims
      <3> QED
        BY <2>2, <3>1
    <2> QED
      BY <1>2, <2>6, <2>8, <2>9 DEF HwInv
  <1> QED
    BY <1>5, <1>8, <1>10, <1>13, <1>14 DEF WlanInv

-----------------------------------------------------------------------------
(* The other events.                                                       *)

\* A step that leaves the clients and NAT alone.
LEMMA ClientsStay ==
    ASSUME WlanInv, UNCHANGED <<wlan_client, total_num_wifi_clients, natVars>>,
           active' \in [Aps -> BOOLEAN], ip_type' \in [Aps -> {"null", "v4", "v6"}],
           faults' \in 0 .. MaxFaults
    PROVE  WlanInv' /\ (HwInv /\ UNCHANGED <<hw, leaked>> => HwInv')
  <1>1. SlotsOK'
    BY DEF WlanInv, SlotsOK, Apart
  <1>2. All' = All
    BY DEF All, Clients, Range
  <1>3. ClientsOK'
    BY <1>2 DEF WlanInv, ClientsOK
  <1>4. CountOK'
    BY <1>2 DEF WlanInv, CountOK, MacsUsed
  <1>5. NatOK'
    BY <1>2 DEF WlanInv, NatOK, natVars, NatListIsExact, NoSleepWithoutSleeper, V4, Own
  <1>6. ASSUME HwInv, UNCHANGED <<hw, leaked>> PROVE HwInv'
    BY <1>2, <1>6 DEF HwInv, HardwareAccounted
  <1> QED
    BY <1>1, <1>3, <1>4, <1>5, <1>6 DEF WlanInv

\* A client without addresses is right.
LEMMA NewClientFits ==
    ASSUME NEW m \in Macs
    PROVE  Fits(NewClient(m), {4, 6}) /\ NewClient(m).mac = m /\ NewClient(m).v4_addr = NoIp
  <1>1. PICK d : d = NewClient(m)
    OBVIOUS
  <1>2. PICK v \in Seq(Ip6) : v = <<>> /\ Len(v) = 0
    <2>1. <<>> \in Seq(Ip6) /\ Len(<<>>) = 0
      OBVIOUS
    <2> QED
      BY <2>1
  <1>3. /\ d \in Client
        /\ d.mac = m /\ d.v4_addr = NoIp /\ d.rule_v4 = {} /\ d.v6_addr = v
        /\ d.rules_v6 = {} /\ d.route_rule_set_v6 = 0
        /\ ~d.power_save_set /\ ~d.asleep /\ ~d.cut
    BY <1>1, <1>2 DEF NewClient, Client
  <1>4. RulesV6(d, 1 .. d.route_rule_set_v6) = {}
    BY <1>3 DEF RulesV6
  <1>5. 0 <= IPV6_NUM_ADDR
    BY WlanAssumption
  <1>6. Fits(d, {4, 6})
    BY <1>2, <1>3, <1>4, <1>5 DEF Fits
  <1> QED
    BY <1>1, <1>3, <1>6

\* A client joins, or a header for it is refused.
LEMMA InitExKeeps ==
    ASSUME WlanInv, NEW a \in Aps, NEW m \in Macs, handle_wlan_client_init_ex(a, m)
    PROVE  WlanInv' /\ (HwInv => HwInv')
  <1>1. PICK w \in [Aps -> Seq(Client)] : w = wlan_client /\ Apart(w)
    BY DEF WlanInv, SlotsOK
  <1>2. PICK new : new = NewClient(m)
    OBVIOUS
  <1>3. Fits(new, {4, 6}) /\ new \in Client /\ new.mac = m /\ new.v4_addr = NoIp
    BY <1>2, NewClientFits DEF Fits
  <1>4. /\ Only(a) /\ \A c \in All : c.mac # m
        /\ total_num_wifi_clients < IPA_MAX_NUM_WIFI_CLIENTS
        /\ UNCHANGED <<nat_iface_ipv4_addr, PwrSaveIfs, abandoned>>
    BY DEF handle_wlan_client_init_ex, natVars
  <1>5. CASE /\ wlan_client' = [wlan_client EXCEPT ![a] = Append(@, NewClient(m))]
             /\ total_num_wifi_clients' = total_num_wifi_clients + 1
             /\ hw' = hw (+) SetToBag(Headers(m))
             /\ UNCHANGED <<leaked, faults>>
    <2>1. wlan_client' = [w EXCEPT ![a] = Append(@, new)]
      BY <1>1, <1>2, <1>5
    <2>2. \A c : c \in All <=> In(w, c)
      BY <1>1, Members DEF WlanInv
    <2>3. IsAppended(w, new, wlan_client')
      BY <1>1, <1>3, <1>4, <2>1, <2>2, Appended
    <2>4. SlotsOK'
      BY <1>4, <1>5, <2>3 DEF IsAppended, WlanInv, SlotsOK, Only
    <2>5. \A c : c \in All' <=> c \in All \/ c = new
      BY <2>2, <2>3, MembersAfter DEF IsAppended
    <2>6. ClientsOK'
      BY <1>3, <2>5 DEF WlanInv, ClientsOK
    <2>7. CountOK'
      <3>1. MacsUsed' = MacsUsed \cup {m} /\ m \notin MacsUsed
        BY <1>3, <1>4, <2>5 DEF MacsUsed
      <3>2. IsFiniteSet(MacsUsed) /\ total_num_wifi_clients = Cardinality(MacsUsed)
        BY DEF WlanInv, CountOK
      <3>3. IsFiniteSet(MacsUsed') /\ Cardinality(MacsUsed') = Cardinality(MacsUsed) + 1
        BY <3>1, <3>2, FS_AddElement
      <3>4. Cardinality(MacsUsed) \in Nat
        BY <3>2, FS_CardinalityType
      <3> QED
        BY <1>4, <1>5, <3>2, <3>3, <3>4, WlanAssumption DEF CountOK
    <2>8. V4(All)' = V4(All) /\ Own(All)'
      BY <1>3, <2>5 DEF V4, Own, WlanInv, NatOK
    <2>9. NatOK'
      BY <1>4, <2>5, <2>8 DEF WlanInv, NatOK, NatListIsExact, NoSleepWithoutSleeper
    <2>10. ASSUME HwInv PROVE HwInv'
      <3>1. Remembers(new) = Headers(m) /\ Distinct(new)
        <4>1. new.rule_v4 = {} /\ new.rules_v6 = {} /\ new.v6_addr = <<>>
          BY <1>2 DEF NewClient
        <4>2. Len(new.v6_addr) = 0
          BY <4>1
        <4> QED
          BY <1>3, <4>1, <4>2 DEF Remembers, Distinct
      <3>2. Known(All') = Known(All) \cup Headers(m)
        <4>1. \A x : (\E d \in All' : x \in Remembers(d))
                       <=> (\E c \in All : x \in Remembers(c)) \/ x \in Headers(m)
          BY <2>5, <3>1
        <4> QED
          BY <4>1 DEF Known
      <3>3. PICK R : R = Known(All)
        OBVIOUS
      <3>4. R \cap Headers(m) = {}
        BY <1>4, <3>3, Owners DEF Known, Headers, Thing
      <3>5. IsABag(leaked) /\ hw = leaked (+) SetToBag(R)
        BY <2>10, <3>3 DEF HwInv, HardwareAccounted, Known
      <3>6. hw' = leaked (+) SetToBag(R \cup Headers(m))
        BY <1>5, <3>4, <3>5, Added
      <3>7. HardwareAccounted'
        BY <1>5, <3>2, <3>3, <3>6 DEF HardwareAccounted, Known
      <3>8. \A d \in All' : Distinct(d)
        BY <2>5, <2>10, <3>1 DEF HwInv
      <3> QED
        BY <1>5, <3>5, <3>7, <3>8 DEF HwInv
    <2> QED
      BY <2>4, <2>6, <2>7, <2>9, <2>10 DEF WlanInv
  <1>6. CASE /\ faults < MaxFaults /\ faults' = faults + 1
             /\ UNCHANGED <<wlan_client, total_num_wifi_clients>>
             /\ LET hdr == SetToBag({Thing("hdr4", m, NoIp)})
                IN \/ hw' = hw (+) hdr /\ leaked' = leaked (+) hdr
                   \/ UNCHANGED <<hw, leaked>>
    <2>1. faults' \in 0 .. MaxFaults
      BY <1>6, WlanAssumption DEF WlanInv, SlotsOK
    <2>2. active' \in [Aps -> BOOLEAN] /\ ip_type' \in [Aps -> {"null", "v4", "v6"}]
      BY <1>4 DEF WlanInv, SlotsOK, Only
    <2>3. WlanInv' /\ (HwInv /\ UNCHANGED <<hw, leaked>> => HwInv')
      BY <1>4, <1>6, <2>1, <2>2, ClientsStay DEF natVars
    <2>4. ASSUME HwInv, hw' = hw (+) SetToBag({Thing("hdr4", m, NoIp)}),
                 leaked' = leaked (+) SetToBag({Thing("hdr4", m, NoIp)})
          PROVE  HwInv'
      <3>1. PICK R, H : R = Known(All) /\ H = {Thing("hdr4", m, NoIp)}
        OBVIOUS
      <3>2. All' = All
        BY <1>6 DEF All, Clients, Range
      <3>3. R \cap H = {} /\ (R \cup H) \ H = R
        <4>1. R \cap H = {}
          BY <1>4, <3>1, Owners DEF Known, Thing
        <4> QED
          BY <4>1
      <3>4. IsABag(leaked) /\ hw = leaked (+) SetToBag(R)
        BY <2>4, <3>1 DEF HwInv, HardwareAccounted, Known
      <3>5. hw' = leaked (+) SetToBag(R \cup H)
        BY <2>4, <3>1, <3>3, <3>4, Added
      <3>6. IsForgotten(leaked, R \cup H, H)
        BY <3>4, Forgotten
      <3>7. IsABag(leaked') /\ hw' = leaked' (+) SetToBag(R)
        BY <2>4, <3>1, <3>3, <3>5, <3>6 DEF IsForgotten
      <3> QED
        BY <2>4, <3>1, <3>2, <3>7 DEF HwInv, HardwareAccounted, Known
    <2> QED
      BY <1>6, <2>3, <2>4
  <1> QED
    BY <1>5, <1>6 DEF handle_wlan_client_init_ex

\* At the start no AP has clients.
LEMMA InitWlan ==
    ASSUME Init
    PROVE  WlanInv /\ HwInv
  <1>1. \A a \in Aps : wlan_client[a] = <<>> /\ Len(wlan_client[a]) = 0
    BY DEF Init
  <1>2. wlan_client \in [Aps -> Seq(Client)] /\ Apart(wlan_client)
    <2>1. <<>> \in Seq(Client)
      OBVIOUS
    <2> QED
      BY <1>1, <2>1 DEF Init, Apart
  <1>3. SlotsOK
    BY <1>2, WlanAssumption DEF Init, SlotsOK
  <1>4. All = {}
    <2>1. \A c : ~In(wlan_client, c)
      BY <1>1 DEF In
    <2> QED
      BY <1>3, <2>1, Members
  <1>5. ClientsOK
    BY <1>4 DEF ClientsOK
  <1>6. CountOK
    <2>1. MacsUsed = {}
      BY <1>4 DEF MacsUsed
    <2>2. IsFiniteSet({}) /\ Cardinality({}) = 0
      BY FS_EmptySet
    <2> QED
      BY <2>1, <2>2, WlanAssumption DEF Init, CountOK
  <1>7. V4(All) = {}
    BY <1>4 DEF V4
  <1>8. NatOK
    BY <1>4, <1>7 DEF Init, NatOK, Own, NatListIsExact, NoSleepWithoutSleeper
  <1>9. HwInv
    <2>1. PICK E : E = EmptyBag
      OBVIOUS
    <2>2. IsABag(E)
      BY <2>1 DEF EmptyBag, SetToBag, IsABag
    <2>3. IsABag(E (+) SetToBag({})) /\ \A x : Copies(x, E (+) SetToBag({})) = Copies(x, E)
      <3>1. IsWith(E (+) SetToBag({}), E, {})
        BY <2>2, With
      <3>2. \A x : Copies(x, E) \in Nat
        BY <2>2, Positive
      <3> QED
        BY <3>1, <3>2 DEF IsWith, Once
    <2>4. E (+) SetToBag({}) = E
      BY <2>2, <2>3, SameBag
    <2>5. UNION {Remembers(c) : c \in All} = {}
      BY <1>4
    <2>6. hw = E /\ leaked = E
      BY <2>1 DEF Init
    <2> QED
      BY <1>4, <2>2, <2>4, <2>5, <2>6 DEF HwInv, HardwareAccounted
  <1> QED
    BY <1>3, <1>5, <1>6, <1>8, <1>9 DEF WlanInv

\* Every step keeps the invariant.
LEMMA NextWlan ==
    ASSUME WlanInv, [Next]_vars
    PROVE  WlanInv' /\ (HwInv => HwInv')
  <1>1. ASSUME NEW a \in Aps, IPA_HANDLE_WAN_DOWN_V6_TETHER(a) PROVE WlanInv' /\ (HwInv => HwInv')
    BY <1>1, WanDownKeeps
  <1>2. ASSUME NEW a \in Aps, LinkUp(a) PROVE WlanInv' /\ (HwInv => HwInv')
    <2>1. active' \in [Aps -> BOOLEAN] /\ ip_type' \in [Aps -> {"null", "v4", "v6"}] /\ faults' \in 0 .. MaxFaults
      BY <1>2 DEF LinkUp, WlanInv, SlotsOK
    <2> QED
      BY <1>2, <2>1, ClientsStay DEF LinkUp
  <1>3. ASSUME NEW a \in Aps, IPA_ADDR_ADD_EVENT(a) PROVE WlanInv' /\ (HwInv => HwInv')
    <2>1. active' \in [Aps -> BOOLEAN] /\ ip_type' \in [Aps -> {"null", "v4", "v6"}] /\ faults' \in 0 .. MaxFaults
      BY <1>3 DEF IPA_ADDR_ADD_EVENT, WlanInv, SlotsOK
    <2> QED
      BY <1>3, <2>1, ClientsStay DEF IPA_ADDR_ADD_EVENT
  <1>4. ASSUME NEW a \in Aps, IPA_WLAN_LINK_DOWN_EVENT(a) PROVE WlanInv' /\ (HwInv => HwInv')
    BY <1>4, LinkDownKeeps
  <1>5. ASSUME NEW a \in Aps, NEW m \in Macs, handle_wlan_client_init_ex(a, m) PROVE WlanInv' /\ (HwInv => HwInv')
    BY <1>5, InitExKeeps
  <1>6. ASSUME NEW a \in Aps, NEW i \in DOMAIN wlan_client[a], ClientEvent(a, i) PROVE WlanInv' /\ (HwInv => HwInv')
    <2>1. PICK s \in Seq(Client) : s = wlan_client[a]
      BY DEF WlanInv, SlotsOK
    <2>2. i \in 1 .. Len(wlan_client[a])
      BY <2>1
    <2>3. CASE \E ip \in Ip4 : NewAddressV4(a, i, ip)
      BY <2>2, <2>3, NewAddressV4Keeps
    <2>4. CASE \E ip \in Ip6 : NewAddressV6(a, i, ip)
      BY <2>2, <2>4, NewAddressV6Keeps
    <2>5. CASE handle_wlan_client_pwrsave(a, i)
      BY <2>2, <2>5, PwrsaveKeeps
    <2>6. CASE IPA_WLAN_CLIENT_RECOVER_EVENT(a, i)
      BY <2>2, <2>6, RecoverKeeps
    <2>7. CASE handle_wlan_client_down_evt(a, i)
      BY <2>2, <2>7, DownKeeps
    <2> QED
      BY <1>6, <2>3, <2>4, <2>5, <2>6, <2>7 DEF ClientEvent
  <1>7. CASE UNCHANGED vars
    <2>1. active' \in [Aps -> BOOLEAN] /\ ip_type' \in [Aps -> {"null", "v4", "v6"}] /\ faults' \in 0 .. MaxFaults
      BY <1>7 DEF vars, WlanInv, SlotsOK
    <2> QED
      BY <1>7, <2>1, ClientsStay DEF vars
  <1> QED
    BY <1>1, <1>2, <1>3, <1>4, <1>5, <1>6, <1>7 DEF Next

-----------------------------------------------------------------------------
(* The theorems.                                                           *)

\* The clients of all APs, their rules, their count and the lists of NAT agree: the
\* invariant that the handlers of IPACM_Wlan.cpp keep.
THEOREM WlanCorrect == Spec => [](WlanInv /\ HwInv)
  <1>1. Init => WlanInv /\ HwInv
    BY InitWlan
  <1>2. WlanInv /\ HwInv /\ [Next]_vars => WlanInv' /\ HwInv'
    BY NextWlan
  <1> QED
    BY <1>1, <1>2, PTL DEF Spec

\* There are as many clients as MAC addresses, and an address is of one AP.
LEMMA Counted ==
    ASSUME WlanInv
    PROVE  ClientsCounted
  <1>1. OneMac(All)
    BY MacOwner DEF WlanInv
  <1>2. Cardinality(All) = Cardinality(MacsUsed)
    <2>0. IsFiniteSet(MacsUsed)
      BY DEF WlanInv, CountOK
    <2>1. PICK f : f = [m \in MacsUsed |-> CHOOSE c \in All : c.mac = m]
      OBVIOUS
    <2>2. \A m \in MacsUsed : f[m] \in All /\ f[m].mac = m
      BY <2>1 DEF MacsUsed
    <2>3. f \in [MacsUsed -> All]
      BY <2>1, <2>2
    <2>4. \A m, n \in MacsUsed : f[m] = f[n] => m = n
      BY <2>2
    <2>5. \A c \in All : \E m \in MacsUsed : f[m] = c
      BY <1>1, <2>2 DEF OneMac, MacsUsed
    <2> QED
      BY <2>0, <2>3, <2>4, <2>5, SameNumber
  <1>3. ASSUME NEW m \in Macs
        PROVE  Cardinality({a \in Aps : m \in {c.mac : c \in Clients(a)}}) <= 1
    <2>1. PICK S : S = {a \in Aps : m \in {c.mac : c \in Clients(a)}}
      OBVIOUS
    <2>2. \A a, b \in S : a = b
      <3>1. \A a \in S : a \in Aps /\ \E i \in 1 .. Len(wlan_client[a]) : wlan_client[a][i].mac = m
        BY <2>1, MacsOfAp DEF WlanInv
      <3>2. \A a, b \in Aps : \A i \in 1 .. Len(wlan_client[a]), j \in 1 .. Len(wlan_client[b]) :
               wlan_client[a][i].mac = wlan_client[b][j].mac => a = b
        BY DEF WlanInv, SlotsOK, Apart
      <3> QED
        BY <3>1, <3>2
    <2>3. CASE S = {}
      <3>1. Cardinality(S) = 0
        BY <2>3, FS_EmptySet
      <3> QED
        BY <2>1, <3>1
    <2>4. CASE S # {}
      <3>1. PICK a : S = {a}
        BY <2>2, <2>4
      <3>2. Cardinality(S) = 1
        BY <3>1, FS_Singleton
      <3> QED
        BY <2>1, <3>2
    <2> QED
      BY <2>3, <2>4
  <1> QED
    BY <1>2, <1>3 DEF ClientsCounted, WlanInv, CountOK

\* Whatever joins, leaves, moves from slot to slot and is refused: there are no more
\* clients than the hardware has room for, a client has rules for the addresses it has now
\* (handle_wlan_client_route_rule, delete_default_qos_rtrules) and none while it sleeps,
\* unless the slot it moved to had another's power_save_set.  A reset that ends early
\* (handle_wlan_client_reset_rt) takes the IPv6 rules of the client it ends at, until that
\* client's rules are added the next time, and nothing of those it did not come to.
THEOREM ClientsHaveTheirRules == Spec => []RulesFit
  <1>1. WlanInv => RulesFit
    <2> SUFFICES ASSUME WlanInv PROVE RulesFit
      OBVIOUS
    <2>1. TypeOK
      <3>1. \A c \in All : /\ c.mac \in Macs /\ c.v4_addr \in Ip4 \cup {NoIp} /\ c.v6_addr \in Seq(Ip6)
                           /\ c.route_rule_set_v6 <= Len(c.v6_addr) /\ Len(c.v6_addr) <= IPV6_NUM_ADDR
        BY ClientFields DEF WlanInv, ClientsOK, Fits
      <3> QED
        BY <3>1 DEF TypeOK, WlanInv, SlotsOK, NatOK
    <2>2. RulesAreCurrent
      BY DEF RulesAreCurrent, WlanInv, ClientsOK, Fits, RulesV6
    <2>3. RulesFollowSleep
      BY DEF RulesFollowSleep, WlanInv, ClientsOK, Fits
    <2> QED
      BY <2>1, <2>2, <2>3, Counted DEF RulesFit
  <1> QED
    BY <1>1, WlanCorrect, PTL

\* ConntrackListener lists the addresses of the clients that are there and of those an AP
\* without address left behind, and NatApp holds back the connections of an address only
\* while its client sleeps.
THEOREM NatIsInStep == Spec => []NatKnowsClients
  <1>1. WlanInv => NatKnowsClients
    BY DEF WlanInv, NatOK, NatKnowsClients
  <1> QED
    BY <1>1, WlanCorrect, PTL

\* What IPACM_Wlan installed is there once for every handle a client keeps, whatever joins,
\* leaves, moves and sleeps (handle_wlan_client_route_rule, delete_default_qos_rtrules); the
\* rest is what a refused addition left and what an AP without address did not clean up.
THEOREM NothingElseInstalled == Spec => []HardwareAccounted
  <1>1. HwInv => HardwareAccounted
    BY DEF HwInv
  <1> QED
    BY <1>1, WlanCorrect, PTL
=============================================================================
