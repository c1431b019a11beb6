---------------------------- MODULE ServersView ----------------------------
(***************************************************************************)
(* The servers screen of the terminal UI (internal/tui/servers.go) beside  *)
(* the daemon it asks: grid of countries, list of a country's servers,     *)
(* searching, filters, viewport and the choice of a server.  The composition  *)
(* with the daemon is the list it sends, the config file both use and the  *)
(* connection reports; the IPC in between is the module Tui.               *)
(***************************************************************************)
EXTENDS Servers

CONSTANTS
    Queries,       \* what may be typed in the search box: the countries and
                   \* the server names it is a part of
    Toggles,       \* the filters whose keys are pressed
    Sizes,         \* the <<width, height>> the terminal may have
    Saved,         \* the config files the screen may start from
    Commands,      \* what another client may ask to connect to
    MaxAsks        \* bound: how often a server is asked for

VARIABLES
    servers,       \* m.allServers; <<>> while loading
    filters,       \* m.filterTor, m.filterStreaming, m.filterSecureCore, m.filterP2P
    lastCountry,   \* m.lastCountry
    vpnState,      \* m.vpnState
    connectedServer,
    mode,          \* m.mode: "grid" or "servers"
    grid, gridCursor, gridScrollY,
    filtered, listCountry, serverIdx, listScrollY,
    searching,
    size,          \* m.width, m.height
    cfg,           \* config.toml: the filters and last_country
    request,       \* the server last asked for, until the daemon reports
    asks           \* counted for MaxAsks

choice   == <<filters, lastCountry>>
gridPart == <<grid, gridCursor, gridScrollY>>
listPart == <<filtered, listCountry, serverIdx, listScrollY>>
link     == <<vpnState, connectedServer, request, asks>>
world    == <<servers, size, cfg>>

vvars == <<servers, filters, lastCountry, vpnState, connectedServer, mode, grid,
           gridCursor, gridScrollY, filtered, listCountry, serverIdx, listScrollY,
           searching, size, cfg, request, asks>>

ASSUME ScreenAssumption ==
    /\ Toggles \subseteq Features
    /\ Sizes \subseteq Nat \X Nat
    /\ Saved \subseteq [filters: SUBSET Features, lastCountry: {""} \cup STRING]
    /\ MaxAsks \in Nat

Tier == 2          \* MaxTier of the VPNInfo the TUI makes up in daemon mode

\* The empty query is a part of everything.
NoQuery == [countries |-> {s.country : s \in Range(Catalogue)},
            names     |-> {s.name : s \in Range(Catalogue)}]

-----------------------------------------------------------------------------
(* Layout *)

sidebarWidth == 24
cardOuterW == 18
cardOuterH == 4

AtLeast(n, low) == IF n < low THEN low ELSE n

\* calcCols, which SetSize and rebuildGrid store in gridCols.
GridCols == AtLeast((size[1] - sidebarWidth - 2) \div cardOuterW, 1)

VisibleRows == AtLeast((size[2] - 2) \div cardOuterH, 1)

VisibleListRows == AtLeast(size[2] - 4, 3)

\* One row too late.
ScrollTo_Mutant(at, scroll, rows) ==
    IF at < scroll THEN at
    ELSE IF at > scroll + rows THEN at - rows + 1
    ELSE scroll

\* The scroll position that shows row at, starting from the position scroll.
ScrollTo(at, scroll, rows) ==
    IF at < scroll THEN at
    ELSE IF at >= scroll + rows THEN at - rows + 1
    ELSE scroll

-----------------------------------------------------------------------------
(* The grid and the list *)

Entry(country, server, count) == [country |-> country, server |-> server, count |-> count]

\* A server's turn in the loop of rebuildGrid.
AddServer(entries, s) ==
    LET at == {i \in DOMAIN entries : entries[i].country = s.country}
    IN  IF at = {} THEN Append(entries, Entry(s.country, s, 1))
        ELSE [entries EXCEPT ![CHOOSE i \in at : TRUE] =
                Entry(@.country, IF s.load < @.server.load THEN s ELSE @.server, @.count + 1)]

\* The cards after the loop has seen the first servers of a list.
CardsOf(shown) ==
    LET cards[n \in 0 .. Len(shown)] ==
            IF n = 0 THEN <<>> ELSE AddServer(cards[n - 1], shown[n])
    IN  cards

\* rebuildGrid: countries in the order they first appear among the accessible
\* servers, each with its least loaded server.
GridOf(list, chosen) ==
    LET shown == FilterServers(list, Filter("", chosen, ""), Tier)
    IN  CardsOf(shown)[Len(shown)]

\* The entries at some positions of a list, as applySearch keeps them.
Kept(list, at) == Placed(list, [i \in at |-> 1 + Cardinality({j \in at : j < i})])

\* Off by one.
CursorIn_Mutant(entries) == IF gridCursor > Len(entries) THEN 0 ELSE gridCursor

CursorIn(entries) == IF gridCursor >= Len(entries) THEN 0 ELSE gridCursor

ShowGrid(entries) ==
    /\ grid' = entries
    /\ gridCursor' = CursorIn(entries)
    /\ UNCHANGED gridScrollY

\* The servers of a country that the filters leave.
ListOf(country, chosen) == FilterServers(servers, Filter(country, chosen, ""), Tier)

ShowList(list, country) ==
    /\ filtered' = list /\ listCountry' = country
    /\ serverIdx' = 0 /\ listScrollY' = 0

\* The list is not filtered again.
Refilter_Mutant(chosen) == UNCHANGED listPart

\* refilterList
Refilter(chosen) ==
    IF listCountry # "" THEN ShowList(ListOf(listCountry, chosen), listCountry)
    ELSE UNCHANGED listPart

-----------------------------------------------------------------------------
(* The screen is made, filled and resized *)

VInit ==
    /\ cfg \in Saved /\ size \in Sizes
    /\ servers = <<>> /\ vpnState = "disconnected" /\ connectedServer = ""
    /\ filters = cfg.filters /\ lastCountry = cfg.lastCountry
    /\ mode = "grid" /\ grid = <<>> /\ gridCursor = 0 /\ gridScrollY = 0
    /\ filtered = <<>> /\ listCountry = "" /\ serverIdx = 0 /\ listScrollY = 0
    /\ searching = FALSE
    /\ request = NoServer /\ asks = 0

\* A TUI started again: NewServersModel, LoadFilters, SetSize, and the state of
\* a daemon that is connected.
Restart ==
    /\ servers # <<>>
    /\ servers' = <<>>
    /\ IF vpnState = "connected" THEN UNCHANGED <<vpnState, connectedServer>>
       ELSE vpnState' = "disconnected" /\ connectedServer' = ""
    /\ filters' = cfg.filters /\ lastCountry' = cfg.lastCountry
    /\ mode' = "grid" /\ grid' = <<>> /\ gridCursor' = 0 /\ gridScrollY' = 0
    /\ filtered' = <<>> /\ listCountry' = "" /\ serverIdx' = 0 /\ listScrollY' = 0
    /\ searching' = FALSE
    /\ UNCHANGED <<size, cfg, request, asks>>

\* SetServers, with what the daemon lists.  A list that arrives while a search
\* is typed is shown whole.
SetServers ==
    /\ servers = <<>>
    /\ servers' = ServerList
    /\ ShowGrid(GridOf(ServerList, filters))
    /\ UNCHANGED <<choice, link, mode, listPart, searching, size, cfg>>

SetSize ==
    /\ \E s \in Sizes : size' = s
    /\ UNCHANGED <<choice, link, mode, gridPart, listPart, searching, servers, cfg>>

-----------------------------------------------------------------------------
(* Search *)

StartSearch ==
    /\ ~searching
    /\ searching' = TRUE
    /\ UNCHANGED <<choice, link, mode, gridPart, listPart, world>>

\* A key for the search box, and applySearch: q is the query then.  Its text is
\* not kept: it is only drawn until the next search empties it.
Type(q) ==
    /\ searching
    /\ IF mode = "servers" /\ listCountry # ""
       THEN LET list == ListOf(listCountry, filters)
            IN  /\ ShowList(Kept(list, {i \in DOMAIN list : list[i].name \in q.names}),
                            listCountry)
                /\ UNCHANGED gridPart
       ELSE LET cards == GridOf(servers, filters)
            IN  /\ ShowGrid(Kept(cards, {i \in DOMAIN cards : cards[i].country \in q.countries}))
                /\ UNCHANGED listPart
    /\ UNCHANGED <<searching, choice, link, mode, world>>

EscapeSearch ==
    /\ searching
    /\ searching' = FALSE
    /\ IF mode = "servers" /\ listCountry # ""
       THEN Refilter(filters) /\ UNCHANGED gridPart
       ELSE ShowGrid(GridOf(servers, filters)) /\ UNCHANGED listPart
    /\ UNCHANGED <<choice, link, mode, world>>

\* The query goes on narrowing what is shown.
EnterSearch ==
    /\ searching
    /\ searching' = FALSE
    /\ gridCursor' = IF mode = "grid" /\ grid # <<>> THEN 0 ELSE gridCursor
    /\ UNCHANGED <<grid, gridScrollY, choice, link, mode, listPart, world>>

-----------------------------------------------------------------------------
(* Filters *)

\* The grid is not kept in step from the list.
Toggle_Mutant(f) ==
    LET chosen == IF f \in filters THEN filters \ {f} ELSE filters \cup {f}
    IN  /\ ~searching
        /\ filters' = chosen
        /\ IF mode = "servers" THEN Refilter(chosen) /\ UNCHANGED gridPart
           ELSE ShowGrid(GridOf(servers, chosen)) /\ UNCHANGED listPart
        /\ cfg' = [cfg EXCEPT !.filters = chosen]
        /\ UNCHANGED <<lastCountry, link, mode, searching, servers, size>>

\* Keys t, s, c and p.  saveAndPersist reloads the file first, so what the
\* daemon wrote stays.
Toggle(f) ==
    LET chosen == IF f \in filters THEN filters \ {f} ELSE filters \cup {f}
    IN  /\ ~searching
        /\ filters' = chosen
        /\ IF mode = "servers" THEN Refilter(chosen) ELSE UNCHANGED listPart
        /\ ShowGrid(GridOf(servers, chosen))
        /\ cfg' = [cfg EXCEPT !.filters = chosen]
        /\ UNCHANGED <<lastCountry, link, mode, searching, servers, size>>

-----------------------------------------------------------------------------
(* Movement *)

InGrid == ~searching /\ mode = "grid"
InList == ~searching /\ mode = "servers"

\* ensureVisible after the cursor is set to c.
MoveGrid(c) ==
    /\ gridCursor' = c
    /\ gridScrollY' = ScrollTo(c \div GridCols, gridScrollY, VisibleRows)
    /\ UNCHANGED <<grid, listPart, choice, link, mode, searching, world>>

GridUp ==
    /\ InGrid
    /\ MoveGrid(IF gridCursor >= GridCols THEN gridCursor - GridCols ELSE gridCursor)

GridDown ==
    /\ InGrid
    /\ MoveGrid(IF gridCursor + GridCols < Len(grid) THEN gridCursor + GridCols
                ELSE IF gridCursor < Len(grid) - 1 THEN Len(grid) - 1 ELSE gridCursor)

GridLeft  == InGrid /\ gridCursor > 0 /\ MoveGrid(gridCursor - 1)
GridRight == InGrid /\ gridCursor < Len(grid) - 1 /\ MoveGrid(gridCursor + 1)

MoveList(i) ==
    /\ serverIdx' = i
    /\ listScrollY' = ScrollTo(i, listScrollY, VisibleListRows)
    /\ UNCHANGED <<filtered, listCountry, gridPart, choice, link, mode, searching, world>>

ListUp   == InList /\ serverIdx > 0 /\ MoveList(serverIdx - 1)
ListDown == InList /\ serverIdx < Len(filtered) - 1 /\ MoveList(serverIdx + 1)

OpenCountry ==
    /\ InGrid /\ gridCursor < Len(grid)
    /\ ShowList(ListOf(grid[gridCursor + 1].country, filters), grid[gridCursor + 1].country)
    /\ mode' = "servers"
    /\ UNCHANGED <<gridPart, choice, link, searching, world>>

\* The list left behind is drawn afresh before it is seen again: its leftovers
\* are dropped here.
CloseCountry ==
    /\ InList
    /\ mode' = "grid"
    /\ ShowList(<<>>, "")
    /\ UNCHANGED <<gridPart, choice, link, searching, world>>

-----------------------------------------------------------------------------
(* A server is asked for *)

Want(s) ==
    /\ asks < MaxAsks /\ asks' = asks + 1
    /\ request' = s

\* ConnectRequestMsg, as the App handles it.
Ask(s) ==
    /\ Want(s)
    /\ vpnState' = "connecting" /\ connectedServer' = s.name
    /\ UNCHANGED <<mode, gridPart, listPart, searching, filters, world>>

\* "q" on a card.
AskCountry ==
    /\ InGrid /\ gridCursor < Len(grid)
    /\ lastCountry' = grid[gridCursor + 1].country
    /\ Ask(grid[gridCursor + 1].server)

\* "enter" and "q" in a list.
AskListed(i) ==
    /\ InList /\ i < Len(filtered) /\ i \in {serverIdx, 0}
    /\ lastCountry' = filtered[i + 1].country
    /\ Ask(filtered[i + 1])

QuickConnectServer ==
    LET current  == IF vpnState = "connected" THEN connectedServer ELSE ""
        Best(c)  == FindFastestServer(servers, Filter(c, filters, current), Tier)
    IN  IF Best(lastCountry) = NoServer /\ lastCountry # "" THEN Best("")
        ELSE Best(lastCountry)

\* "Q" in both modes.
QuickConnect ==
    /\ ~searching
    /\ Ask(QuickConnectServer) /\ QuickConnectServer # NoServer
    /\ UNCHANGED lastCountry

\* doAutoConnect of a daemon that starts, and cmdConnect of another client.
AutoConnect ==
    /\ vpnState = "disconnected"
    /\ Want(AutoConnectServer(cfg.lastCountry, cfg.filters))
    /\ AutoConnectServer(cfg.lastCountry, cfg.filters) # NoServer
    /\ UNCHANGED <<vpnState, connectedServer, mode, gridPart, listPart, searching, choice, world>>

CommandConnect(p) ==
    /\ Requested(p) # NoServer
    /\ Want(Requested(p))
    /\ UNCHANGED <<vpnState, connectedServer, mode, gridPart, listPart, searching, choice, world>>

\* doConnect succeeds: the daemon saves the country and reports.
Connected ==
    /\ request # NoServer
    /\ vpnState' = "connected" /\ connectedServer' = request.name
    /\ request' = NoServer /\ UNCHANGED asks
    /\ cfg' = [cfg EXCEPT !.lastCountry = request.country]
    /\ UNCHANGED <<mode, gridPart, listPart, searching, choice, servers, size>>

Disconnected ==
    /\ vpnState # "disconnected" \/ request # NoServer
    /\ vpnState' = "disconnected" /\ connectedServer' = "" /\ request' = NoServer
    /\ UNCHANGED <<asks, mode, gridPart, listPart, searching, choice, world>>

\* A Connecting or Reconnecting event.
Busy ==
    /\ vpnState # "connecting"
    /\ vpnState' = "connecting"
    /\ UNCHANGED <<connectedServer, request, asks, mode, gridPart, listPart, searching, choice, world>>

-----------------------------------------------------------------------------
VNext ==
    \/ Restart \/ SetServers \/ SetSize
    \/ StartSearch \/ EscapeSearch \/ EnterSearch
    \/ \E q \in Queries \cup {NoQuery} : Type(q)
    \/ \E f \in Toggles : Toggle(f)
    \/ GridUp \/ GridDown \/ GridLeft \/ GridRight \/ ListUp \/ ListDown
    \/ OpenCountry \/ CloseCountry
    \/ AskCountry \/ QuickConnect
    \/ \E i \in 0..Len(filtered) : AskListed(i)
    \/ AutoConnect
    \/ \E p \in Commands : CommandConnect(p)
    \/ Connected \/ Disconnected \/ Busy

VSpec == VInit /\ [][VNext]_vvars

-----------------------------------------------------------------------------
(* Properties *)

GridEntry == [country: STRING, server: ServerRec, count: Nat]

\* Every part of the screen is of its type, and both cursors are on an entry
\* whenever there is one: grid and list shrink under the cursor when a filter,
\* a search or a new list removes entries (rebuildGrid, applySearch,
\* filterByCountry).
VTypeOK ==
    /\ servers \in {<<>>, ServerList}
    /\ filters \in SUBSET Features /\ lastCountry \in {""} \cup STRING
    /\ vpnState \in {"disconnected", "connecting", "connected"}
    /\ connectedServer \in {""} \cup NoQuery.names
    /\ mode \in {"grid", "servers"} /\ searching \in BOOLEAN
    /\ size \in Sizes
    /\ cfg \in [filters: SUBSET Features, lastCountry: {""} \cup STRING]
    /\ request \in {NoServer} \cup ServerRec /\ asks \in 0..MaxAsks
    /\ grid \in Seq(GridEntry) /\ filtered \in Seq(ServerRec)
    /\ gridScrollY \in Nat /\ listScrollY \in Nat
    /\ gridCursor \in 0..AtLeast(Len(grid) - 1, 0)
    /\ serverIdx \in 0..AtLeast(Len(filtered) - 1, 0)

\* The servers a client may be shown: what the daemon listed, under the filters.
Accessible(chosen) ==
    {s \in Range(servers) : s.online /\ EffectiveTier(s) <= Tier /\ chosen \subseteq s.features}

\* The grid tells the truth about every country on it under the filters now
\* set, whichever screen changed them (rebuildGrid, "keep grid in sync"): its
\* number of servers and the one of them with the lowest load; no country has
\* two cards and cards are in the order of their servers.
GridTells ==
    /\ \A i \in DOMAIN grid :
          LET all == {s \in Accessible(filters) : s.country = grid[i].country}
          IN  /\ grid[i].server \in all /\ grid[i].count = Cardinality(all)
              /\ \A s \in all : grid[i].server.load <= s.load
    /\ \A i, j \in DOMAIN grid : i < j => /\ grid[i].country # grid[j].country
                                         /\ grid[i].server.load <= grid[j].server.load

\* A server picked with enter or q, on a card or in a list, is one the filters
\* now set allow and the daemon can give: a screen left behind by a filter
\* toggled on the other one is never picked from (updateServerList).
PickedSuits ==
    [][AskCountry \/ (\E i \in 0..Len(filtered) : AskListed(i))
          => /\ request' \in Accessible(filters)
             /\ \E s \in Range(Catalogue) : s.name = request'.name /\ s.online
                                            /\ EffectiveTier(s) <= MaxTier]_vvars

\* What viewGrid shows, after it limits the scroll position to the last page.
GridTop ==
    LET last == AtLeast(((Len(grid) + GridCols - 1) \div GridCols) - VisibleRows, 0)
    IN  IF gridScrollY > last THEN last ELSE gridScrollY

GridCursorShown == gridCursor \div GridCols \in GridTop..(GridTop + VisibleRows - 1)

ListCursorShown == serverIdx \in listScrollY..(listScrollY + VisibleListRows - 1)

\* A movement key leaves the cursor where it can be seen, wherever a resize, a
\* filter or a search had left the viewport (ensureVisible, ensureListVisible).
MoveShowsCursor ==
    [][/\ (GridUp \/ GridDown \/ GridLeft \/ GridRight) => GridCursorShown'
       /\ (ListUp \/ ListDown) => ListCursorShown']_vvars

\* s is one of the best of a set of servers.
BestOf(s, S) == s \in S /\ \A t \in S : ~Before(t, s)

Offered(country, wanted) ==
    {s \in Range(Catalogue) : /\ s.online /\ EffectiveTier(s) <= MaxTier
                              /\ country \in {"", s.country} /\ wanted \subseteq s.features}

\* The best under the saved country and filters, then without the filters,
\* then without the country.
AutoTakesBest ==
    LET both == Offered(cfg.lastCountry, cfg.filters)
        there == Offered(cfg.lastCountry, {})
    IN  IF both # {} THEN BestOf(request', both)
        ELSE IF there # {} THEN BestOf(request', there)
        ELSE BestOf(request', Offered("", {}))

QuickTakesBest ==
    LET others == {s \in Accessible(filters) : vpnState = "connected" => s.name # connectedServer}
        near   == {s \in others : s.country = lastCountry}
    IN  BestOf(request', IF near # {} THEN near ELSE others)

\* A daemon that connects by itself takes the best server that honours the
\* saved country and filters, gives up the filters before the country, and the
\* country only when it has no server (doAutoConnect); Q takes the best one
\* that honours filters and last country and, while connected, another one
\* than the connected ("change server", quickConnectServer).
BestIsChosen ==
    [][/\ AutoConnect => AutoTakesBest
       /\ QuickConnect => QuickTakesBest]_vvars
=============================================================================
