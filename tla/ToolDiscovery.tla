---------------------------- MODULE ToolDiscovery ----------------------------
(***************************************************************************)
(* GET /v1/tools over a catalog that changes meanwhile                     *)
(* (internal/adapters/http/tool_discovery.go, internal/app/discovery.go).  *)
(* A client walks through the pages with the cursors it is given.  A       *)
(* request lists the exposed tools in one statement, asks ThinkPixelAG     *)
(* which of them the caller may see, and answers with the tools after the  *)
(* cursor.  GET /v1/tools/{tool_id} searches the same list for one key.    *)
(***************************************************************************)
EXTENDS ToolCatalog, Sequences

CONSTANTS
  Clients,     \* callers that walk, each with its identity
  Others,      \* other identities, which were given cursors too
  Limits,      \* page sizes they ask for
  CursorTTL,
  MaxTime,     \* bound on the clock
  Null

VARIABLES clock, walks

vars == <<versions, enabled, granted, clock, walks>>

(* A cursor is signed: a client presents one that was given to it or to    *)
(* another caller.                                                         *)
(* binding: the digest of the identity and the page size.                  *)
Cursor == [after : Keys, limit : Limits, binding : (Clients \union Others) \X Limits,
           expires : Nat]

ASSUME DiscoveryAssumption ==
  /\ Limits \subseteq Nat \ {0}
  /\ CursorTTL \in Nat \ {0}
  /\ MaxTime \in Nat
  /\ Clients \intersect Others = {}
  /\ Null \notin Clients \union Others \union Keys
  /\ Null \notin Cursor

(* from and limit: the page asked for; target: the one tool asked for.     *)
(* listed: the rows that ListExposedForDiscovery returned.  History of the *)
(* walk: shown, what the client was shown, and steady, the keys it asked   *)
(* for that are visible since the walk began.                              *)
Walk == [phase : {"idle", "asked", "listed", "ended"}, cursor : Cursor \union {Null},
         from : Keys \union {0}, limit : Limits \union {0}, target : Keys \union {Null},
         listed : SUBSET (Keys \X Definitions), shown : Seq(Keys \X Definitions),
         steady : SUBSET Keys]

NoWalk == [phase |-> "idle", cursor |-> Null, from |-> 0, limit |-> 0, target |-> Null,
           listed |-> {}, shown |-> <<>>, steady |-> {}]

Visible == Exposed \intersect granted

Init ==
  /\ CatalogInit
  /\ clock = 0
  /\ walks = [c \in Clients |-> NoWalk]

Become(c, walk) == walks' = [walks EXCEPT ![c] = walk]

(* The request fails; the client keeps the cursor it has, if any.          *)
Fail(c) ==
  Become(c, [NoWalk EXCEPT !.cursor = walks[c].cursor, !.shown = walks[c].shown,
                           !.steady = walks[c].steady])

-----------------------------------------------------------------------------
Binding(c, limit) == <<c, limit>>

(* decode and parsePage.                                                   *)
Accepted(c, cursor, limit) ==
  /\ clock < cursor.expires
  /\ cursor.limit = limit
  /\ cursor.binding = Binding(c, limit)

(* A walk begins without a cursor.                                         *)
First(c, limit) ==
  /\ walks[c].phase \in {"idle", "ended"}
  /\ Become(c, [NoWalk EXCEPT !.phase = "asked", !.limit = limit, !.steady = Visible])
  /\ UNCHANGED <<versions, enabled, granted, clock>>

(* GET /v1/tools/{tool_id}.                                                *)
Describe(c, k) ==
  /\ walks[c].phase \in {"idle", "ended"}
  /\ Become(c, [NoWalk EXCEPT !.phase = "asked", !.target = k,
                              !.steady = Visible \intersect {k}])
  /\ UNCHANGED <<versions, enabled, granted, clock>>

(* The cursors a client can present in the middle of its walk.             *)
Presentable(c) ==
  {walks[c].cursor} \union
  {[after |-> k, limit |-> l, binding |-> Binding(o, l), expires |-> walks[c].cursor.expires] :
     k \in Keys, o \in Others, l \in Limits}

(* It goes on with a cursor; the request may also name a page size.        *)
Continue(c, limit) ==
  /\ walks[c].phase = "idle" /\ walks[c].cursor # Null
  /\ \E cursor \in Presentable(c) :
      /\ Accepted(c, cursor, limit)
      /\ Become(c, [walks[c] EXCEPT !.phase = "asked", !.from = cursor.after, !.limit = limit])
  /\ UNCHANGED <<versions, enabled, granted, clock>>

(* A client whose cursor is refused or has expired starts again.           *)
GiveUp(c) ==
  /\ walks[c].cursor # Null /\ walks[c].phase = "idle"
  /\ Become(c, NoWalk)
  /\ UNCHANGED <<versions, enabled, granted, clock>>

(* The first half of Discover: the exposed tools.                          *)
List(c) ==
  /\ walks[c].phase = "asked"
  /\ \/ Become(c, [walks[c] EXCEPT !.phase = "listed",
                     !.listed = {<<k, versions[k].definition>> : k \in Exposed}])
     \/ Fail(c)
  /\ UNCHANGED <<versions, enabled, granted, clock>>

(* sort.Slice.                                                             *)
ByKey(tools) ==
  LET upTo[n \in 0..LastKey] ==
        IF n = 0 THEN <<>>
        ELSE IF \E t \in tools : t[1] = n
               THEN Append(upTo[n - 1], CHOOSE t \in tools : t[1] = n)
               ELSE upTo[n - 1]
  IN  upTo[LastKey]

(* Variant: the search stops at the tool of the cursor.                    *)
StartAtCursor(tools, key) ==
  CHOOSE n \in 0..Len(tools) : \A i \in 1..Len(tools) : i > n <=> tools[i][1] >= key

(* sort.Search: how many tools are not after the cursor.                   *)
Start(tools, key) ==
  CHOOSE n \in 0..Len(tools) : \A i \in 1..Len(tools) : i > n <=> tools[i][1] > key

(* Variant: the next page begins after the last tool there is.             *)
LastOfAll(tools, end) == tools[Len(tools)][1]

(* The cursor of the next page points to the last tool of this one.        *)
LastShown(tools, end) == tools[end][1]

(* A decision may only remove candidates.                                  *)
ValidateFor(allowed, candidates) == allowed \subseteq candidates

(* ThinkPixelAG answers about the candidates, or with all it knows.        *)
Allowed(candidates) == {granted \intersect candidates, granted}

(* The next cursor, if tools are left.                                     *)
NextCursor(c, tools, end, limit) ==
  IF end < Len(tools)
    THEN [after |-> LastShown(tools, end), limit |-> limit, binding |-> Binding(c, limit),
          expires |-> clock + CursorTTL]
    ELSE Null

(* One tool that cannot be projected fails the page.                       *)
ShowPage(c, visible) ==
  LET w == walks[c]
      tools == ByKey(visible)
      start == Start(tools, w.from)
      end == IF start + w.limit > Len(tools) THEN Len(tools) ELSE start + w.limit
      page == SubSeq(tools, start + 1, end)
      cursor == NextCursor(c, tools, end, w.limit)
  IN  IF \A i \in DOMAIN page : ProjectDiscoveryTool(Content[page[i][2]])
        THEN Become(c, [NoWalk EXCEPT !.phase = IF cursor = Null THEN "ended" ELSE "idle",
                                      !.cursor = cursor, !.shown = w.shown \o page,
                                      !.steady = w.steady])
        ELSE Fail(c)

(* The tool asked for, or not found.                                       *)
ShowTool(c, visible) ==
  LET found == {t \in visible : t[1] = walks[c].target}
  IN  IF \A t \in found : ProjectDiscoveryTool(Content[t[2]])
        THEN Become(c, [NoWalk EXCEPT !.phase = "ended", !.shown = ByKey(found),
                                      !.steady = walks[c].steady])
        ELSE Fail(c)

(* The second half: the decision of ThinkPixelAG is applied.               *)
Respond(c) ==
  LET listed == walks[c].listed
      candidates == {t[1] : t \in listed}
  IN  /\ walks[c].phase = "listed"
      /\ \E allowed \in Allowed(candidates) :
           LET visible == {t \in listed : t[1] \in allowed}
           IN  IF ~ValidateFor(allowed, candidates) THEN Fail(c)
               ELSE IF walks[c].target = Null THEN ShowPage(c, visible)
               ELSE ShowTool(c, visible)
      /\ UNCHANGED <<versions, enabled, granted, clock>>

(* ThinkPixelAG does not answer.                                           *)
RespondWithError(c) ==
  /\ walks[c].phase = "listed"
  /\ Fail(c)
  /\ UNCHANGED <<versions, enabled, granted, clock>>

(* The catalog changes, or time passes, while clients walk.                *)
Change ==
  /\ CatalogNext
  /\ walks' = [c \in Clients |->
                [walks[c] EXCEPT !.steady = @ \intersect (Visible')]]
  /\ UNCHANGED clock

Tick ==
  /\ clock < MaxTime
  /\ clock' = clock + 1
  /\ UNCHANGED <<versions, enabled, granted, walks>>

Next ==
  \/ \E c \in Clients, limit \in Limits :
       First(c, limit) \/ Continue(c, limit)
  \/ \E c \in Clients, k \in Keys : Describe(c, k)
  \/ \E c \in Clients : GiveUp(c) \/ List(c) \/ Respond(c) \/ RespondWithError(c)
  \/ Change
  \/ Tick

Spec == Init /\ [][Next]_vars

-----------------------------------------------------------------------------
(* What a client was shown.                                                *)
Shown(c) == {walks[c].shown[i] : i \in DOMAIN walks[c].shown}

(* A walk shows no tool twice and shows them in order, however versions    *)
(* are published, retired, exposed and withdrawn between two pages.        *)
WalkNeverRepeats ==
  \A c \in Clients : LET shown == walks[c].shown IN
    \A i, j \in DOMAIN shown : i < j => shown[i][1] < shown[j][1]

(* A walk that reached its end has shown every tool that was visible all   *)
(* the while: what others did to the catalog made it miss none.  A tool    *)
(* that is asked for by its key is found if it was visible.                *)
WalkIsComplete ==
  \A c \in Clients : walks[c].phase = "ended" =>
    walks[c].steady \subseteq {t[1] : t \in Shown(c)}

(* What a client was shown of a tool version stays true: the version was   *)
(* released, and a released version keeps its definition.                  *)
ShownIsReleased ==
  \A c \in Clients : \A t \in Shown(c) :
    versions[t[1]] \in {Row("published", t[2]), Row("retired", t[2])}
=============================================================================
