-------------------------- MODULE CrosschainSerial --------------------------
(***************************************************************************)
(* What set-up, removal and writing come to if each transaction happens in *)
(* one step: a block's rows are copied as the triggers of that moment have *)
(* it, triggers come all together, and go all together with every copy.    *)
(* Nothing is said of statements, locks, waiting, errors or crashes.       *)
(***************************************************************************)
CONSTANTS
    Chains, Heights, Tables,
    Content, \* the tables each height has rows for
    Synced,  \* the tables that are copied
    Works,   \* those whose trigger function can insert its row
    Views, None

VARIABLES
    rows,     \* chain_N
    copy,     \* crosschain
    triggers, \* the tables that have their trigger
    clashed   \* chains that one process has added while another removed them

database == <<rows, copy, triggers, clashed>>

Init ==
    /\ rows = [c \in Chains |-> [t \in Tables |-> [h \in Heights |-> None]]]
    /\ copy = rows
    /\ triggers = {}
    /\ clashed = {}

\* The table with a height of some of a chain's tables filled.
Filled(table, c, S, h, view) ==
    [d \in Chains |-> [t \in Tables |-> [g \in Heights |->
        IF d = c /\ t \in S /\ g = h THEN view ELSE table[d][t][g]]]]

\* The rows that are new and have a trigger now.
Fired(c, h) == {t \in Content[h] : rows[c][t][h] = None /\ <<c, t>> \in triggers}

Write(c, h, view) ==
    /\ Fired(c, h) \subseteq Works
    /\ rows' = Filled(rows, c, Content[h], h, view)
    /\ copy' = Filled(copy, c, Fired(c, h), h, view)
    /\ UNCHANGED <<triggers, clashed>>

SetUp(c) ==
    /\ triggers' = triggers \union ({c} \X Synced)
    /\ UNCHANGED <<rows, copy, clashed>>

Cleared(c, t) == <<c, t>> \notin triggers' /\ \A h \in Heights : copy'[c][t][h] = None

\* Of a chain that was added at the same time a removal may leave something.
Spared(c, t) ==
    /\ c \in clashed
    /\ <<c, t>> \in triggers' <=> <<c, t>> \in triggers
    /\ \A h \in Heights : copy'[c][t][h] \in {copy[c][t][h], None}

Remove(c) ==
    /\ \A t \in Synced : Cleared(c, t) \/ Spared(c, t)
    /\ triggers' \subseteq triggers /\ triggers \ triggers' \subseteq {c} \X Synced
    /\ copy' \in [Chains -> [Tables -> [Heights -> Views \union {None}]]]
    /\ \A d \in Chains, t \in Tables : d # c \/ t \notin Synced => copy'[d][t] = copy[d][t]
    /\ UNCHANGED <<rows, clashed>>

Clash(c) ==
    /\ clashed' = clashed \union {c}
    /\ UNCHANGED <<rows, copy, triggers>>

Next ==
    \E c \in Chains :
        \/ \E h \in Heights, view \in Views : Write(c, h, view)
        \/ SetUp(c) \/ Remove(c) \/ Clash(c)

Spec == Init /\ [][Next]_database
=============================================================================
