---------------------------- MODULE MCKickRun ----------------------------
(***************************************************************************)
(* KickRun on seven families of behaviours: one client that kicks one pair *)
(* again and again; one client and one pair with every command and fault;  *)
(* one command on two tokens of an auction, or kicks on two auctions; two  *)
(* clients that kick the same pair; one kick over many prices; one run     *)
(* over many shortlists.                                                   *)
(***************************************************************************)
EXTENDS KickRun, TLC

CONSTANTS a1, a2, t1, t2, s1, s2

MCPairs == {<<a1, t1>>, <<a1, t2>>, <<a2, t1>>}

\* Ten tokens of 1 dollar, for 10 want tokens; the step, the buffers and the scale
\* of prices are coarser than those of the program.
View == [version |-> "1.0.5", stored |-> {"1.0.5"}, length |-> 10, step |-> 1, decay |-> 1,
         balance |-> 100, sellUnit |-> 10, wantUnit |-> 10, price |-> 1, cap |-> None,
         quote |-> 100, providers |-> <<100, 100>>, outlierFloor |-> TRUE,
         startBuffer |-> 2, minBuffer |-> 2]

Of(candidates) == [usd |-> [cand \in candidates |-> 1], scanned |-> {}, listed |-> {}, ignored |-> {},
                   cooling |-> {}, killed |-> {}, limit |-> 0, view |-> View]

One      == Of({<<s1, a1, t1>>})
Tokens   == Of({<<s1, a1, t1>>, <<s1, a1, t2>>})
Auctions == Of({<<s1, a1, t1>>, <<s1, a2, t1>>})

\* The quote is the highest one of the providers.
Quotes == {<<None, <<>>>>, <<0, <<0>>>>, <<7, <<7>>>>, <<43, <<43, 42, 20>>>>, <<100, <<100, 90, 60>>>>,
           <<100, <<60, 100, 50>>>>, <<100, <<100, 100, 50, 20>>>>, <<100, <<80, 60, 100, 50>>>>}
Versions == {<<"1.0.4", {"1.0.4"}>>, <<"1.0.5", {"1.0.5"}>>, <<"1.0.5", {"1.0.4", "1.0.5"}>>}

Views == {[View EXCEPT !.version = w[1], !.stored = w[2], !.quote = q[1], !.providers = q[2],
                        !.outlierFloor = f, !.length = l, !.cap = c, !.price = r] :
              w \in Versions, q \in Quotes, f \in BOOLEAN, l \in {0, 5, 20}, c \in {None, 4}, r \in {0, 1}}
Prices == {[One EXCEPT !.view = v] : v \in Views}

Shared == [Of({<<s1, a1, t1>>, <<s1, a1, t2>>, <<s2, a1, t1>>}) EXCEPT !.usd[<<s1, a1, t2>>] = 2]
Lists  == {[Shared EXCEPT !.scanned = l, !.listed = {<<a1, t1>>}] : l \in {{}, {a1}}}
          \union {[Shared EXCEPT !.ignored = {i}] : i \in {s2, a1, <<a1, t2>>}}
          \union {[Shared EXCEPT !.killed = {s1}, !.cooling = o] : o \in {{}, {<<a1, t2>>}}}
          \union {[Of({<<s1, a1, t1>>, <<s2, a2, t1>>}) EXCEPT !.limit = 1, !.killed = {s1}]}

MCMarkets == {One, Tokens, Auctions} \union Prices \union Lists

Busy == {c \in Clients : client[c].at # "idle"} \union {txs[t].by : t \in DOMAIN txs}
Used == {p \in Pairs : lot[p] # "clean"} \union {txs[t].pair : t \in DOMAIN txs}
        \union UNION {{PairOf(cand) : cand \in ToSet(client[c].queue)}
                        \union {call.pair : call \in ToSet(client[c].ops)} : c \in Clients}
Within(r, n) == started <= r /\ Len(txs) <= n
Kicks(modes) == \A c \in Clients : client[c].cmd = "kick" => client[c].mode \in modes
OnlyKicks    == \A c \in Clients : client[c].cmd \in {"none", "kick"}
Undonated    == \A p \in Pairs : lot[p] # "donated"
NoFaults     == /\ Undonated
                /\ \A c \in Clients : client[c].why = {}
                /\ \A t \in DOMAIN txs : txs[t].op = "kick" /\ txs[t].why = {}
Racing       == /\ \A p \in Pairs : lot[p] \notin {"donated", "sold", "empty"}
                /\ \A c \in Clients : client[c].why \subseteq {"late"}

OnePair     == \/ OnlyKicks /\ Kicks({"headless"}) /\ NoFaults
               \/ Within(2, 2) /\ Kicks({"interactive"}) /\ (Undonated \/ started <= 1)
TwoTokens   == Within(1, 2)
TwoAuctions == Within(1, 2) /\ OnlyKicks /\ Kicks({"interactive"}) /\ Undonated
TwoClients  == Within(2, 2) /\ OnlyKicks /\ Kicks({"headless"}) /\ Racing
Priced      == Within(1, 1) /\ OnlyKicks /\ Kicks({"headless"}) /\ NoFaults
Listed      == /\ Within(1, 1) /\ OnlyKicks /\ Kicks({"interactive", "headless"})
               /\ \A p \in Pairs : lot[p] = "clean"

Fits == LET used == Used IN
        IF Cardinality(Busy) <= 1
        THEN \/ market = One      /\ used \subseteq {<<a1, t1>>} /\ OnePair
             \/ market = Tokens   /\ used \subseteq {<<a1, t1>>, <<a1, t2>>} /\ TwoTokens
             \/ market = Auctions /\ used \subseteq {<<a1, t1>>, <<a2, t1>>} /\ TwoAuctions
             \/ market \in Prices /\ used \subseteq {<<a1, t1>>} /\ Priced
             \/ market \in Lists /\ Listed
        ELSE market = One /\ used \subseteq {<<a1, t1>>} /\ TwoClients

MCSpec == Init /\ [][Next /\ Fits']_vars

ClientSymmetry == Permutations(Clients)
=============================================================================
