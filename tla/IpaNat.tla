------------------------------- MODULE IpaNat -------------------------------
(***************************************************************************)
(* The IPv4 NAT table in the memory of the IPA hardware, as the driver     *)
(* library writes it: ipa_nat_drvi.c.                                      *)
(*                                                                         *)
(* A rule sits in a hash table with chaining: the base table is indexed by *)
(* the hash of the inbound packet (dst_hash), collisions go to the         *)
(* expansion table and are linked by next and prev.  The index table is a  *)
(* second such table, over the hash of the outbound packet (src_hash),     *)
(* whose entries point to rules.  Entry 0 of each table is unused, and 0   *)
(* means "no entry"; an entry of an expansion table is numbered from T.    *)
(*                                                                         *)
(* The hardware looks packets up all the time, and each memcpy, memset or  *)
(* DMA command changes what it sees.  An operation is therefore the        *)
(* sequence `todo' of the writes it does, in order, one per step.          *)
(*                                                                         *)
(* An operation that is refused (no such handle, an expansion table full,  *)
(* the DMA of a deletion refused) returns before its first write and is    *)
(* not a step.  A DMA refused in the middle of an addition is left out.    *)
(***************************************************************************)
EXTENDS Integers, Sequences, FiniteSetsExt

CONSTANTS Conns,    \* the 5-tuples of rules
          NoConn,
          Dst,      \* Dst[c]: dst_hash of c
          Src,      \* Src[c]: src_hash of c
          T,        \* table_entries
          E         \* expn_table_entries

ASSUME HashAssumption ==
  /\ T \in Nat \ {0} /\ E \in Nat \ {0}
  /\ Dst \in [Conns -> 1 .. T - 1]
  /\ Src \in [Conns -> 1 .. T - 1]
  /\ NoConn \notin Conns

VARIABLES valid,          \* there is a table
          rules,          \* base and expansion table
          index,          \* index and index expansion table
          prev_index,     \* index_expn_table_meta
          rule_id_array,  \* the entry of the rule with each handle
          todo            \* writes the current operation has left to do

vars == <<valid, rules, index, prev_index, rule_id_array, todo>>

BaseEntries == 1 .. T - 1
ExpnEntries == T + 1 .. T + E - 1
Entries     == BaseEntries \cup ExpnEntries
Handles     == 1 .. T + E
Link        == Entries \cup {0}

(* dead: the protocol field holds IPA_NAT_INVALID_PROTO_FIELD_VALUE.       *)
Rule    == [conn : Conns \cup {NoConn}, enable : BOOLEAN, dead : BOOLEAN,
            next : Link, prev : Link, indx : Link]
NoRule  == [conn |-> NoConn, enable |-> FALSE, dead |-> FALSE,
            next |-> 0, prev |-> 0, indx |-> 0]
Index   == [rule : Link, next : Link]
NoIndex == [rule |-> 0, next |-> 0]

IsEmptyTable(r, i, p, h) ==
  /\ r = [e \in Entries |-> NoRule]
  /\ i = [e \in Entries |-> NoIndex]
  /\ p = [e \in ExpnEntries |-> 0]
  /\ h = [k \in Handles |-> 0]

Init ==
  /\ valid = FALSE
  /\ IsEmptyTable(rules, index, prev_index, rule_id_array)
  /\ todo = <<>>

-----------------------------------------------------------------------------
(* Lookups: what is reached from entry e by next links, and the last of    *)
(* them; the first of a set of free entries, or 0.                         *)

RuleNext  == [e \in Entries |-> rules[e].next]
IndexNext == [e \in Entries |-> index[e].next]

Chain(next, e) ==
  LET reached[n \in 0 .. Cardinality(Entries)] ==
        IF n = 0 THEN {e}
        ELSE LET S == reached[n - 1] IN S \cup ({next[x] : x \in S} \ {0})
  IN reached[Cardinality(Entries)]

LastOf(next, e) == CHOOSE x \in Chain(next, e) : next[x] = 0

FirstOf(S) == IF S = {} THEN 0 ELSE Min(S)

expn_tbl_free_entry       == FirstOf({e \in ExpnEntries : ~rules[e].enable})
index_expn_get_free_entry == FirstOf({e \in ExpnEntries : index[e].rule = 0})

-----------------------------------------------------------------------------
(* Writes: `set' replaces the fields it names of entry `at'.               *)

Write(tbl, at, set) == [tbl |-> tbl, at |-> at, set |-> set]
Written(entry, set) == [f \in DOMAIN entry |-> IF f \in DOMAIN set THEN set[f] ELSE entry[f]]
Sweep               == Write("sweep", 0, NoRule)
If(cond, writes)    == IF cond THEN writes ELSE <<>>

(* Where a new rule, and its index entry, go: in the entry of the hash     *)
(* when it is free, else in the expansion table, after the last of the     *)
(* chain.  at = 0: the expansion table is full.                            *)
generate_tbl_rule(c) ==
  IF ~rules[Dst[c]].enable
  THEN [at |-> Dst[c], prev |-> 0]
  ELSE [at |-> expn_tbl_free_entry, prev |-> LastOf(RuleNext, Dst[c])]

generate_index_rule(c) ==
  IF index[Src[c]].rule = 0
  THEN [at |-> Src[c], prev |-> 0]
  ELSE [at |-> index_expn_get_free_entry, prev |-> LastOf(IndexNext, Src[c])]

copy_ipv4_rule_to_hw(c, r, i) ==
  <<Write("rules", r.at, [NoRule EXCEPT !.conn = c, !.prev = r.prev, !.indx = i.at])>>
  \o If(r.prev # 0, <<Write("rules", r.prev, [next |-> r.at])>>)

copy_ipv4_index_rule_to_hw(r, i) ==
  <<Write("index", i.at, [rule |-> r.at, next |-> 0])>>
  \o If(i.prev # 0, <<Write("index", i.prev, [next |-> i.at])>>)

(* Mutant: the number of rules plus one.                                    *)
make_rule_hdl_counted == Cardinality({h \in Handles : rule_id_array[h] # 0}) + 1

make_rule_hdl == FirstOf({h \in Handles : rule_id_array[h] = 0})

(* ipa_nati_del_ipv4_rule: the DMA commands, those of the index first      *)
(* (ReorderCmds).  A rule that heads a chain stays, marked dead.           *)
IsHead(next, e) == e < T /\ next[e] # 0

RuleCmd(e) ==
  IF IsHead(RuleNext, e) THEN Write("rules", e, [dead |-> TRUE])
  ELSE IF e < T THEN Write("rules", e, [enable |-> FALSE])
  ELSE Write("rules", rules[e].prev, [next |-> rules[e].next])

(* Mutant: the link is moved on before the content of the next entry.       *)
IndexCmdsSwapped(i) ==
  LET n == index[i].next IN
  IF IsHead(IndexNext, i)
  THEN <<Write("index", i, [next |-> index[n].next]),
         Write("index", i, [rule |-> index[n].rule])>>
  ELSE IF i < T THEN <<Write("index", i, [rule |-> 0])>>
  ELSE <<Write("index", prev_index[i], [next |-> n])>>

(* The entry that heads an index chain takes the content of the next one.  *)
IndexCmds(i) ==
  LET n == index[i].next IN
  IF IsHead(IndexNext, i)
  THEN <<Write("index", i, [rule |-> index[n].rule]),
         Write("index", i, [next |-> index[n].next])>>
  ELSE IF i < T THEN <<Write("index", i, [rule |-> 0])>>
  ELSE <<Write("index", prev_index[i], [next |-> n])>>

(* Mutant: the entry is unlinked and not reset.                             *)
RuleUpdatesNoReset(e) ==
  If(e >= T /\ rules[e].next # 0,
     <<Write("rules", rules[e].next, [prev |-> rules[e].prev])>>)

(* ... and what is written by the library after them.                      *)
RuleUpdates(e) ==
  If(e >= T /\ rules[e].next # 0,
     <<Write("rules", rules[e].next, [prev |-> rules[e].prev])>>)
  \o If(~IsHead(RuleNext, e), <<Write("rules", e, NoRule)>>)

IndexHeadUpdates(i) ==
  LET n  == index[i].next
      nn == index[n].next
  IN If(nn # 0, <<Write("prev_index", nn, i)>>)
     \o <<Write("index", n, NoIndex),
          Write("rules", index[n].rule, [indx |-> i])>>

IndexRestUpdates(i) ==
  If(i >= T /\ index[i].next # 0,
     <<Write("prev_index", index[i].next, prev_index[i]),
       Write("prev_index", i, 0)>>)
  \o <<Write("index", i, NoIndex)>>

IndexUpdates(i) ==
  IF IsHead(IndexNext, i) THEN IndexHeadUpdates(i) ELSE IndexRestUpdates(i)

-----------------------------------------------------------------------------
Idle == todo = <<>>

(* ipa_nat_add_ipv4_tbl; the connection manager makes one table at a time. *)
AddTable ==
  /\ Idle /\ ~valid
  /\ valid' = TRUE
  /\ IsEmptyTable(rules', index', prev_index', rule_id_array')
  /\ UNCHANGED todo

(* ipa_nat_del_ipv4_tbl frees the memory of the table.                     *)
DelTable ==
  /\ Idle /\ valid
  /\ valid' = FALSE
  /\ IsEmptyTable(rules', index', prev_index', rule_id_array')
  /\ UNCHANGED todo

HandlesOf(c) ==
  {h \in Handles : rule_id_array[h] # 0 /\ rules[rule_id_array[h]].conn = c}

(* ipa_nat_add_ipv4_rule, up to its first write.  The connection manager   *)
(* adds no connection it has a handle for.                                 *)
AddRule(c) ==
  /\ Idle /\ valid /\ HandlesOf(c) = {}
  /\ LET r == generate_tbl_rule(c)
         i == generate_index_rule(c)
     IN /\ r.at # 0 /\ i.at # 0
        /\ prev_index' = IF i.at >= T THEN [prev_index EXCEPT ![i.at] = i.prev]
                         ELSE prev_index
        /\ todo' = copy_ipv4_rule_to_hw(c, r, i)
                   \o copy_ipv4_index_rule_to_hw(r, i)
                   \o <<Write("rules", r.at, [enable |-> TRUE]),
                        Write("rule_id_array", make_rule_hdl, r.at)>>
  /\ UNCHANGED <<valid, rules, index, rule_id_array>>

(* ipa_nat_del_ipv4_rule, up to its first write.                           *)
DelRule(h) ==
  /\ Idle /\ valid
  /\ h < T + E /\ rule_id_array[h] # 0
  /\ LET e == rule_id_array[h]
         i == rules[e].indx
     IN /\ rules[e].enable
        /\ todo' = IndexCmds(i) \o <<RuleCmd(e)>>
                   \o RuleUpdates(e) \o IndexUpdates(i)
                   \o <<Sweep, Write("rule_id_array", h, 0)>>
  /\ UNCHANGED <<valid, rules, index, prev_index, rule_id_array>>

-----------------------------------------------------------------------------
(* The next write of the operation.                                        *)
NextWrite(tbl) == ~Idle /\ Head(todo).tbl = tbl /\ todo' = Tail(todo)

WriteRule ==
  /\ NextWrite("rules")
  /\ LET w == Head(todo) IN rules' = [rules EXCEPT ![w.at] = Written(@, w.set)]
  /\ UNCHANGED <<valid, index, prev_index, rule_id_array>>

WriteIndex ==
  /\ NextWrite("index")
  /\ LET w == Head(todo) IN index' = [index EXCEPT ![w.at] = Written(@, w.set)]
  /\ UNCHANGED <<valid, rules, prev_index, rule_id_array>>

WritePrevIndex ==
  /\ NextWrite("prev_index")
  /\ prev_index' = [prev_index EXCEPT ![Head(todo).at] = Head(todo).set]
  /\ UNCHANGED <<valid, rules, index, rule_id_array>>

WriteHandle ==
  /\ NextWrite("rule_id_array")
  /\ rule_id_array' = [rule_id_array EXCEPT ![Head(todo).at] = Head(todo).set]
  /\ UNCHANGED <<valid, rules, index, prev_index>>

(* ipa_nati_del_dead_ipv4_head_nodes: dead heads with nothing behind them. *)
SweepDeadHeads ==
  /\ NextWrite("sweep")
  /\ rules' = [e \in Entries |->
       IF e < T /\ rules[e].dead /\ rules[e].next = 0 THEN NoRule ELSE rules[e]]
  /\ UNCHANGED <<valid, index, prev_index, rule_id_array>>

Step == WriteRule \/ WriteIndex \/ WritePrevIndex \/ WriteHandle \/ SweepDeadHeads

Next ==
  \/ AddTable
  \/ DelTable
  \/ \E c \in Conns : AddRule(c)
  \/ \E h \in Handles : DelRule(h)
  \/ Step

Spec == Init /\ [][Next]_vars

-----------------------------------------------------------------------------
(* Types: the fields of both tables, and todo a sequence of writes.        *)
TypeOK ==
  /\ valid \in BOOLEAN
  /\ rules \in [Entries -> Rule]
  /\ index \in [Entries -> Index]
  /\ prev_index \in [ExpnEntries -> Link]
  /\ rule_id_array \in [Handles -> Link]
  /\ \A n \in DOMAIN todo :
       todo[n].tbl \in {"rules", "index", "prev_index", "rule_id_array", "sweep"}

(* The rules that match the packets of connection c, inbound and outbound. *)
Matches(e, c) == rules[e].enable /\ ~rules[e].dead /\ rules[e].conn = c
Inbound(c)    == {e \in Chain(RuleNext, Dst[c]) : Matches(e, c)}
Outbound(c)   == {index[i].rule : i \in Chain(IndexNext, Src[c])} \ {0}

(* The handle whose rule the current operation deletes.                    *)
Leaving == IF Idle THEN {} ELSE {todo[Len(todo)].at}

(* A rule that was added is found, and by the packets of its own           *)
(* connection only, from the first write of any other operation to its     *)
(* last: no addition or deletion hides it from the hardware for a moment.  *)
FoundFromBothSides ==
  \A h \in Handles \ Leaving : rule_id_array[h] # 0 =>
    LET e == rule_id_array[h]
        c == rules[e].conn
    IN Inbound(c) = {e} /\ {o \in Outbound(c) : Matches(o, c)} = {e}

(* Between operations an entry that is in use is linked into the chain the *)
(* hardware finds it by, each matched rule with its index entry, and a dead *)
(* head has something behind it: no entry is lost to later additions.      *)
NothingLeaks ==
  Idle =>
    /\ \A e \in Entries : rules[e] # NoRule =>
         /\ e \in Chain(RuleNext, Dst[rules[e].conn])
         /\ rules[e].dead => IsHead(RuleNext, e)
    /\ \A i \in Entries : index[i] # NoIndex =>
         LET e == index[i].rule
         IN /\ e # 0 /\ Matches(e, rules[e].conn) /\ rules[e].indx = i
            /\ i \in Chain(IndexNext, Src[rules[e].conn])

(* Between operations the links backwards, which only a deletion reads,    *)
(* are the converse of the links forwards.                                 *)
LinksAgree ==
  Idle =>
    /\ \A e \in Entries : rules[e].next # 0 => rules[rules[e].next].prev = e
    /\ \A i \in Entries : index[i].next # 0 => prev_index[index[i].next] = i
    /\ \A h \in Handles : rule_id_array[h] # 0 =>
         LET e == rule_id_array[h] IN index[rules[e].indx].rule = e

(* A handle given out is one that parse_ipv4_rule_hdl accepts: it refuses  *)
(* the last one, T + E, which make_rule_hdl could return.                  *)
HandlesUsable ==
  \A h \in Handles : rule_id_array[h] # 0 => h < T + E

(* The table of NatTable: a handle stands for the connection its rule      *)
(* matches.  An addition takes effect when the handle is written, a        *)
(* deletion when the rule stops to match.                                  *)
Given(h) == rule_id_array[h] # 0 /\ Matches(rule_id_array[h], rules[rule_id_array[h]].conn)

Abstract == INSTANCE NatTable WITH
  table <- [h \in Handles |-> IF Given(h) THEN rules[rule_id_array[h]].conn ELSE NoConn]

(* The driver implements the table of rules it promises.                   *)
ImplementsNatTable == Abstract!Spec

(* The tables between operations: nothing is lost from the chains, their   *)
(* links agree both ways, and every handle given out is accepted again.    *)
ChainsIntact == TypeOK /\ NothingLeaks /\ LinksAgree /\ HandlesUsable
=============================================================================
