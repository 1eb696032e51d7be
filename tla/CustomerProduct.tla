-------------------------- MODULE CustomerProduct --------------------------
(* ProductQueryService behind the customer agent's three product tools: rate   *)
(* limit, cache, catalogue reads in threads of their own, and passages of      *)
(* public documents whose visibility is looked up again after the search.      *)
(* The sessions are those of one account: they share a Redis cache, or have    *)
(* one in memory each. A request has one parameter set per operation.          *)
EXTENDS Integers, Sequences, FiniteSets

CONSTANTS Sessions, AsksFor, Skus, Tagged,    \* Tagged: the SKUs the public document is about
          Ttl, Window, Limit,        \* 300 s, 60 s and 60 requests in the code
          Slow, MaxTime, MaxAsks, MaxCatalogueChanges, MaxFaults  \* bounds; Slow: the longest query

ASSUME CustomerProductAssumption ==
  /\ Tagged \subseteq Skus /\ Sessions # {}
  /\ AsksFor \in [Sessions -> SUBSET {"compare", "use case", "keyword"}]
  /\ {Ttl, Window, Limit} \subseteq Nat \ {0} /\ {Slow, MaxTime, MaxAsks, MaxCatalogueChanges, MaxFaults} \subseteq Nat

VARIABLES clock, shared,             \* shared: Redis
          onSale, lastOnSale,        \* active products; when each was last active
          doc, lastVisible,          \* whether the document is visible, and is indexed
          query, cache, rate, admitted,
          answer,                    \* what the last step told a customer
          asks, catalogueChanges, faults

worldVars == <<onSale, lastOnSale, doc, lastVisible, catalogueChanges>>
productVars == <<clock, shared, asks, answer, query, cache, rate, admitted, faults, worldVars>>

\* Details are a comparison of any number of SKUs; a search is by use case, or
\* by keyword. The two searches are counted together and cached apart.
Queries == {"compare", "use case", "keyword"}
Operation(q) == IF q = "compare" THEN "compare" ELSE "search"
Never == 0 - 1
Nothing == [kind |-> "none", session |-> "", op |-> "compare", rows |-> {}, cites |-> FALSE, began |-> 0]
Uncounted == [count |-> 0, until |-> Never]
Uncached == [rows |-> {}, cites |-> FALSE, until |-> 0]
NoQuery == [pc |-> "idle", op |-> "compare", toRead |-> {}, rows |-> {}, toAsk |-> {},
         asked |-> {}, cites |-> FALSE, began |-> 0]

ProductInit ==
  /\ clock = 1 /\ shared \in BOOLEAN
  /\ onSale = Skus /\ lastOnSale = [s \in Skus |-> 1]
  /\ doc = [visible |-> TRUE, indexed |-> TRUE] /\ lastVisible = 1
  /\ query = [c \in Sessions |-> NoQuery]
  /\ cache = [k \in Sessions \X Queries |-> Uncached]
  /\ rate = [k \in Sessions \X {"compare", "search"} |-> Uncounted]
  /\ admitted = [k \in Sessions \X {"compare", "search"} |-> <<>>]
  /\ answer = Nothing /\ asks = 0 /\ catalogueChanges = 0 /\ faults = 0

\* Where a session's cache and counter are kept.
Home(c) == IF shared THEN CHOOSE h \in Sessions : TRUE ELSE c
Rests(c, told) == query' = [query EXCEPT ![c] = NoQuery] /\ answer' = told
Goes(c, state) == query' = [query EXCEPT ![c] = state] /\ answer' = Nothing
Empty(c, kind) == [Nothing EXCEPT !.kind = kind, !.session = c, !.op = query[c].op, !.began = query[c].began]

-----------------------------------------------------------------------------
(* Rate limit.                                                                *)

\* Counted by account and operation.
Subject(c, q) == <<Home(c), Operation(q)>>
Admit(c, q) == admitted' = [admitted EXCEPT ![Subject(c, q)] = Append(@, clock)]
Recent(c, q, window) == Cardinality({i \in DOMAIN admitted[Subject(c, q)] :
                                       admitted[Subject(c, q)][i] > clock - window})
Asking(c, q) == [NoQuery EXCEPT !.pc = "lookup", !.op = q, !.began = clock]
Refusal(c, q) == [Nothing EXCEPT !.kind = "refused", !.session = c, !.op = q, !.began = clock]

\* In memory: the times of the last window, under a lock.
AskMemory(c, q) ==
  /\ query[c].pc = "idle" /\ asks < MaxAsks /\ asks' = asks + 1
  /\ ~shared /\ c = CHOOSE h \in Sessions : TRUE  \* the others have nothing in common with it
  /\ IF Recent(c, q, Window) < Limit
     THEN Admit(c, q) /\ Goes(c, Asking(c, q))
     ELSE Rests(c, Refusal(c, q)) /\ UNCHANGED admitted
  /\ UNCHANGED <<clock, shared, cache, rate, faults, worldVars>>
\* Redis: INCR, then EXPIRE when the count is one; the count is the verdict.
AskRedis(c, q) ==
  /\ query[c].pc = "idle" /\ asks < MaxAsks /\ asks' = asks + 1 /\ shared
  /\ LET n == rate[Subject(c, q)].count + 1 IN
     /\ rate' = [rate EXCEPT ![Subject(c, q)] =
                   [count |-> n, until |-> IF n = 1 THEN Never ELSE @.until]]
     /\ IF n <= Limit
        THEN /\ Admit(c, q)
             /\ Goes(c, [Asking(c, q) EXCEPT !.pc = IF n = 1 THEN "expire" ELSE "lookup"])
        ELSE Rests(c, Refusal(c, q)) /\ UNCHANGED admitted
  /\ UNCHANGED <<clock, shared, cache, faults, worldVars>>
Expiry == clock + Window
ExpireRedis(c) ==
  /\ query[c].pc = "expire"
  /\ rate' = [rate EXCEPT ![Subject(c, query[c].op)].until = Expiry]
  /\ Goes(c, [query[c] EXCEPT !.pc = "lookup"])
  /\ UNCHANGED <<clock, shared, asks, cache, admitted, faults, worldVars>>
\* The connection or the process is lost between INCR and EXPIRE.
ExpireLost(c) ==
  /\ query[c].pc = "expire" /\ faults < MaxFaults /\ faults' = faults + 1
  /\ Rests(c, Empty(c, "error"))
  /\ UNCHANGED <<clock, shared, asks, cache, rate, admitted, worldVars>>

-----------------------------------------------------------------------------
(* One query: the cache, the catalogue, the documents, the cache.             *)

Cached(c) == cache[<<Home(c), query[c].op>>]
\* mutant: an entry is served until the next one replaces it
FreshOnce(c) == Cached(c).until > 0
Fresh(c) == Cached(c).until > clock
LookupHit(c) ==
  /\ query[c].pc = "lookup" /\ Fresh(c)
  /\ Rests(c, [kind |-> "hit", session |-> c, rows |-> Cached(c).rows, cites |-> Cached(c).cites,
               op |-> query[c].op, began |-> query[c].began])
  /\ UNCHANGED <<clock, shared, asks, cache, rate, admitted, faults, worldVars>>
\* A search by use case asks the documents first.
LookupMiss(c) ==
  /\ query[c].pc = "lookup" /\ ~Fresh(c)
  /\ Goes(c, [query[c] EXCEPT !.pc = IF query[c].op = "use case" THEN "ask" ELSE "read",
                             !.toRead = IF query[c].op = "use case" THEN {} ELSE Skus,
                             !.toAsk = IF query[c].op = "use case" THEN {"use case"} ELSE {}])
  /\ UNCHANGED <<clock, shared, asks, cache, rate, admitted, faults, worldVars>>
\* Parameters are checked after the request was counted; a store may fail.
QueryFails(c) ==
  /\ query[c].pc \in {"lookup", "read", "ask", "check", "store"}
  /\ query[c].pc # "lookup" => faults < MaxFaults
  /\ faults' = faults + IF query[c].pc = "lookup" THEN 0 ELSE 1
  /\ Rests(c, Empty(c, "error"))
  /\ UNCHANGED <<clock, shared, asks, cache, rate, admitted, worldVars>>

\* What remains of a query: a comparison asks for the documents of each row it
\* has read, and a query with nothing left to ask is stored.
Onward(q) ==
  IF q.pc = "read" /\ q.toRead = {}
  THEN IF q.op = "compare" /\ q.rows # {} THEN [q EXCEPT !.pc = "ask", !.toAsk = q.rows]
       ELSE [q EXCEPT !.pc = "store"]
  ELSE IF q.pc = "ask" /\ q.toAsk = {} THEN [q EXCEPT !.pc = "store"] ELSE q
\* The rows of what was read: inactive products are missing.
Shown(read) == read \cap onSale
\* get_product_by_sku runs once per SKU, list_products once for all.
ReadProducts(c, read) ==
  /\ query[c].pc = "read" /\ read # {} /\ read \subseteq query[c].toRead
  /\ IF query[c].op = "keyword" THEN read = query[c].toRead ELSE Cardinality(read) = 1
  /\ Goes(c, Onward([query[c] EXCEPT !.toRead = @ \ read, !.rows = @ \cup Shown(read)]))
  /\ UNCHANGED <<clock, shared, asks, cache, rate, admitted, faults, worldVars>>
\* The search answers from the index, or finds no evidence: row by row, in order.
AskDocuments(c, found) ==
  /\ query[c].pc = "ask" /\ (found => doc.indexed)
  /\ LET subject == CHOOSE s \in query[c].toAsk : TRUE IN
     Goes(c, Onward([query[c] EXCEPT !.pc = IF found THEN "check" ELSE "ask",
                                    !.toAsk = @ \ {subject},
                                    !.asked = IF found THEN {subject} ELSE {}]))
  /\ UNCHANGED <<clock, shared, asks, cache, rate, admitted, faults, worldVars>>
DocumentVisible(c) == doc.visible /\ (query[c].asked = {"use case"} \/ query[c].asked \subseteq Tagged)
CheckDocument(c) ==
  /\ query[c].pc = "check"
  /\ Goes(c, Onward([query[c] EXCEPT
        !.pc = IF DocumentVisible(c) /\ query[c].asked = {"use case"} THEN "read" ELSE "ask",
        !.cites = @ \/ DocumentVisible(c),
        !.toRead = IF DocumentVisible(c) /\ query[c].asked = {"use case"} THEN Tagged ELSE {},
        !.asked = {}]))
  /\ UNCHANGED <<clock, shared, asks, cache, rate, admitted, faults, worldVars>>
Store(c) ==
  /\ query[c].pc = "store"
  /\ cache' = [cache EXCEPT ![<<Home(c), query[c].op>>] =
                 [rows |-> query[c].rows, cites |-> query[c].cites, until |-> clock + Ttl]]
  /\ Rests(c, [kind |-> "fresh", session |-> c, rows |-> query[c].rows, cites |-> query[c].cites,
               op |-> query[c].op, began |-> query[c].began])
  /\ UNCHANGED <<clock, shared, asks, rate, admitted, faults, worldVars>>

-----------------------------------------------------------------------------
(* The staff, the indexer and time. An answer is looked at while it is new;    *)
(* Redis forgets a counter that expired, memory the times before the window.   *)

Toggle(s) ==
  /\ catalogueChanges < MaxCatalogueChanges /\ catalogueChanges' = catalogueChanges + 1
  /\ onSale' = IF s \in onSale THEN onSale \ {s} ELSE onSale \cup {s}
  /\ lastOnSale' = [lastOnSale EXCEPT ![s] = clock]
  /\ answer' = Nothing /\ UNCHANGED <<clock, shared, asks, query, cache, rate, admitted, faults, doc, lastVisible>>
WithdrawProduct ==
  /\ doc.visible /\ catalogueChanges < MaxCatalogueChanges /\ catalogueChanges' = catalogueChanges + 1
  /\ doc' = [doc EXCEPT !.visible = FALSE] /\ lastVisible' = clock
  /\ answer' = Nothing /\ UNCHANGED <<clock, shared, asks, query, cache, rate, admitted, faults, onSale, lastOnSale>>
Unindex ==
  /\ ~doc.visible /\ doc.indexed /\ doc' = [doc EXCEPT !.indexed = FALSE]
  /\ answer' = Nothing /\ UNCHANGED <<clock, shared, asks, query, cache, rate, admitted, faults, onSale, lastOnSale,
                 lastVisible, catalogueChanges>>
Tick ==
  /\ clock < MaxTime /\ clock' = clock + 1
  /\ \A c \in Sessions : query[c].pc # "idle" => clock' - query[c].began <= Slow
  /\ answer' = Nothing
  /\ rate' = [k \in DOMAIN rate |-> IF rate[k].until \in 0 .. clock' THEN Uncounted ELSE rate[k]]
  /\ admitted' = [k \in DOMAIN admitted |->
                    SelectSeq(admitted[k], LAMBDA t : t > clock' - Window - Slow)]
  /\ lastOnSale' = [s \in Skus |-> IF s \in onSale THEN clock' ELSE lastOnSale[s]]
  /\ lastVisible' = IF doc.visible THEN clock' ELSE lastVisible
  /\ UNCHANGED <<shared, asks, query, cache, faults, onSale, doc, catalogueChanges>>

ProductStep(c) ==
  \/ \E q \in AsksFor[c] : AskMemory(c, q) \/ AskRedis(c, q)
  \/ ExpireRedis(c) \/ ExpireLost(c) \/ LookupHit(c) \/ LookupMiss(c) \/ QueryFails(c)
  \/ \E read \in SUBSET Skus : ReadProducts(c, read)
  \/ CheckDocument(c) \/ Store(c)
  \/ \E found \in BOOLEAN : AskDocuments(c, found)
ProductNext ==
  \/ \E c \in Sessions : ProductStep(c)
  \/ \E s \in Skus : Toggle(s)
  \/ WithdrawProduct \/ Unindex \/ Tick
ProductSpec == ProductInit /\ [][ProductNext]_productVars

-----------------------------------------------------------------------------
(* Properties.                                                                *)

\* A product that is shown was on sale, and a document that is cited was
\* visible, within one cache life and one query (ProductCache, _public_product).
AnswersAreRecent ==
  /\ \A s \in answer.rows : clock - lastOnSale[s] < Ttl + Slow
  /\ answer.cites => clock - lastVisible < Ttl + Slow

=============================================================================
