---------------------------- MODULE BrowserSearch ----------------------------
(***************************************************************************)
(* One rate search on WebCargo's own page: the browser session that lends  *)
(* a page to each job, the form filled field by field, the wait for        *)
(* results that arrive while they are being counted, and the harvest of    *)
(* every date tab.                                                         *)
(*                                                                         *)
(* The page is external: it moves between any two steps of the search, and *)
(* a field may refuse what is done to it.  A poll is the unit of time.     *)
(***************************************************************************)
EXTENDS Integers, FiniteSets, Sequences

CONSTANTS
    Shipments,     \* the shipments a search may be asked for
    Suggest(_),    \* the airports WebCargo suggests for what is typed
    GoodsMenu,     \* the Goods Types it offers
    Catalog,       \* the reviewed labels an operator may pick from
    GeneralCargo,  \* general_cargo_label
    Harvests,      \* rates per date tab, as WebCargo may hold them
    Null,
    Stable,        \* COUNT_STABLE_SECONDS, in polls
    SettleMax,     \* COUNT_SETTLE_MAX_SECONDS, in polls
    Timeout,       \* search_timeout_seconds, in polls
    MaxPause,      \* polls between two changes of a page that is not done
    Attempts,      \* _AUTH_PROBE_ATTEMPTS
    MaxJobs        \* bound on the searches of one browser

ASSUME BrowserTimes == {Stable, SettleMax, Timeout, MaxPause, Attempts, MaxJobs} \subseteq Nat
ASSUME BrowserShipments == Null \notin Shipments /\ \A s \in Shipments : s.side \in Nat
ASSUME NullIsNoOutcome == Null \notin {"rates", "no rates"}
ASSUME BrowserHarvests == \A h \in Harvests : h \in Seq(Nat)

VARIABLES
    browser,   \* ManagedBrowser: state, and whether its handle is dead
    jobs,      \* searches so far
    query,     \* the shipment asked for, with its Goods Type
    step,      \* where run_rate_search is
    form,      \* what the page's form holds
    page,      \* what the results page shows, and since when
    tabs,      \* the provider's rates by date tab, and those that have arrived
    polls,     \* bookkeeping of the two waits
    rows,      \* rows read so far, by date tab
    outcome    \* what the job became

vars == <<browser, jobs, query, step, form, page, tabs, polls, rows, outcome>>

Total(s) ==
    LET sum[n \in 0 .. Len(s)] == IF n = 0 THEN 0 ELSE sum[n - 1] + s[n]
    IN  sum[Len(s)]

(***************************************************************************)
(* Airports                                                                *)
(***************************************************************************)

CanonicalIata == [delhi |-> "DEL", bombay |-> "BOM", mumbai |-> "BOM", chennai |-> "MAA"]
CountryAbbreviations == {"USA", "UAE", "KSA", "GBR", "PRC", "RSA"}

(* CanonicalLocationResolver: a place is a name and a code in parentheses, *)
(* either of which may be missing.  A name and a code that disagree are    *)
(* not guessed between, and a country is no code.                          *)
Resolve(place) ==
    LET named == IF place.name \in DOMAIN CanonicalIata THEN CanonicalIata[place.name] ELSE Null
        coded == IF place.code \in CountryAbbreviations THEN Null ELSE place.code
    IN  IF coded = Null THEN named
        ELSE IF named \in {Null, coded} THEN coded ELSE Null

(* _choose_option: the one that starts with the code, or the only one that *)
(* mentions it.                                                            *)
ChooseOption(token, options) ==
    LET exact == {o \in options : o.code = token}
        containing == {o \in options : token \in o.words}
    IN  IF Cardinality(exact) = 1 THEN exact
        ELSE IF Cardinality(containing) = 1 THEN containing ELSE {}

(* click_option takes the first whose text holds the chosen one's.         *)
Clickable(chosen, options) == {o \in options : chosen.words \subseteq o.words}

(***************************************************************************)
(* Goods Types                                                             *)
(***************************************************************************)

EffectiveCatalog == {l \in {GeneralCargo} \union Catalog : l # Null}

(* decide_goods_type, only_option, and the operator's pick.                *)
GoodsTypes(s) ==
    IF s.chemical = FALSE /\ s.general /\ ~s.special THEN {GeneralCargo} ELSE EffectiveCatalog

(***************************************************************************)
(* Figures                                                                 *)
(***************************************************************************)

(* Sides are in tenths of an inch; the form keeps whole inches.            *)
WholeInches(side) ==
    LET inches == (side + 9) \div 10 IN IF inches < 1 THEN 1 ELSE inches

(* What the page's "Shipment total" bar weighs.                            *)
GrossWeight(f) == IF f.mode = "total" THEN f.weight ELSE f.weight * f.pieces

(* Within a kilogram, or one in a hundred.                                 *)
GrossWeightMatches(seen, weight) ==
    /\ seen # Null
    /\ \/ seen - weight \in -1 .. 1
       \/ 100 * (seen - weight) \in -weight .. weight

(***************************************************************************)
(* The browser session                                                     *)
(***************************************************************************)

EmptyForm ==
    [origin |-> Null, destination |-> Null, date |-> "today", goods |-> Null, pieces |-> 1,
     side |-> 0, unit |-> "CM", weight |-> 0, mode |-> "unit", weightUnit |-> "KG", iata |-> "unset"]
NoPage == [shown |-> "none", idle |-> 0]
NoPolls == [count |-> 0, stable |-> 0, elapsed |-> 0, emptySeen |-> FALSE]
NoTabs == [holds |-> <<>>, arrived |-> <<>>]

Init ==
    /\ browser = [state |-> "STARTING", dead |-> TRUE]
    /\ jobs = 0
    /\ query = Null
    /\ step = "starting"
    /\ form = EmptyForm
    /\ page = NoPage
    /\ tabs = NoTabs
    /\ polls = NoPolls
    /\ rows = <<>>
    /\ outcome = Null

(* The job's page is closed whatever happens, and the browser is ready for *)
(* the next unless the session is over.                                    *)
EndOn(result, dead) ==
    /\ step' = "idle"
    /\ outcome' = result
    /\ browser' = [state |-> IF browser.state = "PROCESSING" THEN "READY" ELSE browser.state, dead |-> dead]
    /\ form' = EmptyForm
    /\ page' = NoPage
    /\ polls' = NoPolls
    /\ UNCHANGED <<jobs, query, tabs, rows>>

End(result) == EndOn(result, browser.dead)

Goto(next) ==
    /\ step' = next
    /\ UNCHANGED <<browser, jobs, query, page, tabs, polls, rows, outcome>>

(* The worker's start: the session is looked for before any job runs.  A   *)
(* login page is believed when it was seen often enough, and leaves no     *)
(* mark on the session, so that the next probe is a real one.              *)
ProbePasses ==
    /\ step = "starting"
    /\ step' = "idle"
    /\ browser' = [state |-> "READY", dead |-> FALSE]
    /\ polls' = NoPolls
    /\ UNCHANGED <<jobs, query, form, page, tabs, rows, outcome>>

ProbeFindsLogin ==
    /\ step = "starting"
    /\ LET attempts == polls.elapsed + 1
       IN  /\ polls' = [polls EXCEPT !.elapsed = attempts]
           /\ step' = IF attempts >= Attempts THEN "stopped" ELSE step
           /\ outcome' = IF attempts >= Attempts THEN "WebCargoSessionLost" ELSE outcome
    /\ browser' = [state |-> "READY", dead |-> FALSE]
    /\ UNCHANGED <<jobs, query, form, page, tabs, rows>>

(* The retries of an unreachable page end at a deadline.                   *)
ProbeUnreachable ==
    /\ step = "starting"
    /\ step' = "stopped"
    /\ outcome' = "WebCargoUnreachable"
    /\ browser' = [state |-> "READY", dead |-> FALSE]
    /\ UNCHANGED <<jobs, query, form, page, tabs, polls, rows>>

(* An operator's one attempt, that does not reach the form.                *)
SignInFails ==
    /\ step = "starting"
    /\ polls.elapsed = 0
    /\ step' = "stopped"
    /\ outcome' = "WebCargoSessionLost"
    /\ browser' = [state |-> "SESSION_EXPIRED", dead |-> FALSE]
    /\ UNCHANGED <<jobs, query, form, page, tabs, polls, rows>>

(* Both places are resolved before a page is asked for; an expired session *)
(* refuses the job at once.                                                *)
StartJob(s) ==
    /\ step = "idle"
    /\ jobs < MaxJobs
    /\ jobs' = jobs + 1
    /\ \E goods \in GoodsTypes(s) : query' = [shipment |-> s, goods |-> goods]
    /\ \E h \in Harvests : tabs' = [holds |-> h, arrived |-> [i \in DOMAIN h |-> 0]]
    /\ rows' = <<>>
    /\ LET refused == IF Null \in {Resolve(s.origin), Resolve(s.destination)}
                      THEN "UnresolvedLocation"
                      ELSE IF browser.state = "SESSION_EXPIRED" THEN "PermanentFailure" ELSE Null
       IN  /\ outcome' = refused
           /\ step' = IF refused = Null THEN "page" ELSE "idle"
           /\ browser' = [browser EXCEPT !.state = IF refused = Null THEN "PROCESSING" ELSE @]
    /\ UNCHANGED <<form, page, polls>>

(* A dead handle is launched again, once.                                  *)
NewPage ==
    /\ step = "page"
    /\ \/ ~browser.dead /\ Goto("authenticate") /\ UNCHANGED form
       \/ /\ step' = "authenticate"
          /\ browser' = [browser EXCEPT !.dead = FALSE]
          /\ UNCHANGED <<jobs, query, form, page, tabs, polls, rows, outcome>>

LaunchFails ==
    /\ step \in {"starting", "page"}
    /\ step' = IF step = "page" THEN "idle" ELSE "stopped"
    /\ outcome' = "TransientFailure"
    /\ browser' = [state |-> "BROWSER_FAILED", dead |-> TRUE]
    /\ UNCHANGED <<jobs, query, form, page, tabs, polls, rows>>

BrowserDies ==
    /\ step = "idle"
    /\ ~browser.dead
    /\ browser' = [browser EXCEPT !.dead = TRUE]
    /\ UNCHANGED <<jobs, query, step, form, page, tabs, polls, rows, outcome>>

(***************************************************************************)
(* The form                                                                *)
(***************************************************************************)

VerifyAuthenticated == step = "authenticate" /\ Goto("origin") /\ UNCHANGED form

Unreachable == step = "authenticate" /\ End("WebCargoUnreachable")

(* The search form never shows: no later job drives at the login page.     *)
SessionLost ==
    /\ step = "authenticate"
    /\ step' = "idle"
    /\ outcome' = "WebCargoSessionLost"
    /\ browser' = [browser EXCEPT !.state = "SESSION_EXPIRED"]
    /\ UNCHANGED <<jobs, query, form, page, tabs, polls, rows>>

(* A click, a fill or a script that the page, or a dead browser, refuses.   *)
DriverFails == step \notin {"starting", "stopped", "idle", "page"} /\ \E dead \in {FALSE, TRUE} : EndOn("DriverError", dead)

NextField == [origin |-> "destination", destination |-> "date"]

FillLocation(field) ==
    LET token == Resolve(query.shipment[field])
        options == Suggest(token)
    IN  /\ step = field
        /\ \E chosen \in ChooseOption(token, options) : \E o \in Clickable(chosen, options) :
             form' = [form EXCEPT ![field] = o.code]
        /\ Goto(NextField[field])

(* No unique suggestion by the deadline: there is none, or it is late.     *)
LocationNotOffered == step \in DOMAIN NextField /\ End("UnresolvedLocation")

FillDepartureDate ==
    /\ step = "date"
    /\ form' = [form EXCEPT !.date = query.shipment.date]
    /\ Goto("goods")

DateNotConfirmed == step = "date" /\ End("ContractViolation")

(* The option is matched exactly, and what the select then shows must be   *)
(* the option or its name.                                                 *)
SelectGoodsType ==
    /\ step = "goods"
    /\ \E chosen \in {g \in GoodsMenu : g.label = query.goods} :
         \E o \in Clickable(chosen, GoodsMenu) :
            /\ chosen.label = o.label \/ chosen.name = o.name
            /\ form' = [form EXCEPT !.goods = o.label]
    /\ Goto("measures")

GoodsNotSelected == step = "goods" /\ End("PermanentFailure")

FillMeasures ==
    /\ step = "measures"
    /\ form' = [form EXCEPT !.pieces = query.shipment.pieces, !.side = WholeInches(query.shipment.side)]
    /\ Goto("dimension unit")

(* The unit is selected, and read back.                                    *)
SetDimensionUnit ==
    /\ step = "dimension unit"
    /\ form' = [form EXCEPT !.unit = "IN"]
    /\ Goto("weight unit")

(* The unit reads "KG" whether the weight is per piece or not.             *)
SetWeightTotalKg ==
    /\ step = "weight unit"
    /\ \E mode \in {"unit", "total"} : form' = [form EXCEPT !.mode = mode, !.weightUnit = "KG"]
    /\ Goto("weight")

UnitNotSelected == step \in {"dimension unit", "weight unit"} /\ End("ContractViolation")

FillWeight ==
    /\ step = "weight"
    /\ form' = [form EXCEPT !.weight = query.shipment.weight]
    /\ Goto("gross weight")

(* Mutant: the unit in the select is believed.                             *)
MutGrossWeightTotal == step = "gross weight" /\ Goto("iata") /\ UNCHANGED form

(* The page's own total decides.                                           *)
GrossWeightTotal ==
    /\ step = "gross weight"
    /\ GrossWeightMatches(GrossWeight(form), query.shipment.weight)
    /\ Goto("iata")
    /\ UNCHANGED form

(* "Total" is clicked, twice at most, and may not engage.                  *)
ClickTotal ==
    /\ step = "gross weight"
    /\ polls.elapsed < 2
    /\ \E mode \in {form.mode, "total"} : form' = [form EXCEPT !.mode = mode]
    /\ polls' = [polls EXCEPT !.elapsed = @ + 1]
    /\ UNCHANGED <<browser, jobs, query, step, page, tabs, rows, outcome>>

GrossWeightWrong ==
    /\ step = "gross weight"
    /\ polls.elapsed = 2
    /\ End("ContractViolation")

SelectIata ==
    /\ step = "iata"
    /\ form' = [form EXCEPT !.iata = "set"]
    /\ Goto("search")

IataNotSelected == step = "iata" /\ End("ContractViolation")

ClickSearch ==
    /\ step = "search"
    /\ step' = "results"
    /\ page' = [shown |-> "blank", idle |-> 0]
    /\ polls' = NoPolls
    /\ UNCHANGED <<browser, jobs, query, form, tabs, rows, outcome>>

(***************************************************************************)
(* The results page, as it moves                                           *)
(***************************************************************************)

Show(what) == page' = [shown |-> what, idle |-> 0]
Flicker(what) == page' = [page EXCEPT !.shown = what]
Arrived == Total(tabs.arrived)
Done == tabs.arrived = tabs.holds

(* "No results" may flash before the search starts loading.                *)
PageLoads ==
    \/ page.shown = "blank" /\ Show("empty") /\ UNCHANGED tabs
    \/ page.shown \in {"blank", "empty"} /\ Arrived = 0 /\ Show("loading") /\ UNCHANGED tabs
    \/ page.shown = "loading" /\ Total(tabs.holds) = 0 /\ Show("final empty") /\ UNCHANGED tabs

(* Rates arrive on some date, and the count follows.                       *)
RatesArrive ==
    /\ page.shown \in {"loading", "count", "refreshing"}
    /\ ~Done
    /\ \E i \in DOMAIN tabs.holds :
        /\ tabs.arrived[i] < tabs.holds[i]
        /\ \E n \in tabs.arrived[i] + 1 .. tabs.holds[i] : tabs' = [tabs EXCEPT !.arrived[i] = n]
    /\ Show("count")

CountRefreshes ==
    \/ page.shown = "count" /\ ~Done /\ Flicker("refreshing") /\ UNCHANGED tabs
    \/ page.shown = "refreshing" /\ Flicker("count") /\ UNCHANGED tabs

PageMoves ==
    /\ step \in {"results", "full list", "first count", "count", "rows"}
    /\ PageLoads \/ RatesArrive \/ CountRefreshes
    /\ UNCHANGED <<browser, jobs, query, step, form, polls, rows, outcome>>

AtRest == page.shown = "final empty" \/ (page.shown = "count" /\ Done)

(* A page that is not done moves before long, and a flash is over before   *)
(* it could be seen twice.                                                 *)
CanPoll ==
    /\ AtRest \/ page.idle < MaxPause
    /\ page.shown = "empty" => ~polls.emptySeen

Waits(p) ==
    /\ polls' = [p EXCEPT !.elapsed = @ + 1]
    /\ page' = [page EXCEPT !.idle = IF @ < MaxPause THEN @ + 1 ELSE @]
    /\ UNCHANGED <<browser, jobs, query, step, form, tabs, rows, outcome>>

(***************************************************************************)
(* The waits, and the harvest                                              *)
(***************************************************************************)

ShowsEmpty == page.shown \in {"empty", "final empty"}

Settled == step = "results" /\ page.shown = "count" /\ Goto("full list") /\ UNCHANGED form

(* "No rates" counts when it is seen twice running.                        *)
NoRates ==
    /\ step = "results"
    /\ CanPoll
    /\ ShowsEmpty /\ polls.emptySeen
    /\ End("no rates")

AwaitResults ==
    /\ step = "results"
    /\ CanPoll
    /\ page.shown # "count"
    /\ ~(ShowsEmpty /\ polls.emptySeen)
    /\ polls.elapsed < Timeout
    /\ Waits([polls EXCEPT !.emptySeen = ShowsEmpty])

ResultsTimeOut ==
    /\ step = "results"
    /\ page.shown # "count"
    /\ ~(ShowsEmpty /\ polls.emptySeen)
    /\ polls.elapsed = Timeout
    /\ End("ContractViolation")

EnsureFullList == step = "full list" /\ Goto("first count") /\ UNCHANGED form
NoFullList == step = "full list" /\ End("ContractViolation")

FirstCount ==
    /\ step = "first count"
    /\ page.shown = "count"
    /\ step' = "count"
    /\ polls' = [NoPolls EXCEPT !.count = Arrived]
    /\ UNCHANGED <<browser, jobs, query, form, page, tabs, rows, outcome>>

NoCountStated == step = "first count" /\ page.shown # "count" /\ End("ContractViolation")

(* A count that moved, or is not shown, is not stable yet.                 *)
AwaitStableCount ==
    /\ step = "count"
    /\ CanPoll
    /\ polls.stable < Stable
    /\ polls.elapsed < SettleMax
    /\ Waits(IF page.shown = "refreshing" THEN [polls EXCEPT !.stable = 0]
             ELSE IF Arrived # polls.count THEN [polls EXCEPT !.stable = 0, !.count = Arrived]
             ELSE [polls EXCEPT !.stable = @ + 1])

(* Mutant: the first count is taken.                                       *)
MutCountSettled == step = "count" /\ Goto("rows") /\ UNCHANGED form

(* Stable for long enough, or read as it is.                               *)
CountSettled ==
    /\ step = "count"
    /\ polls.stable >= Stable \/ polls.elapsed >= SettleMax
    /\ Goto("rows")
    /\ UNCHANGED form

(* One tab more: a tab that is slow to change shows the rows of the one    *)
(* before.                                                                 *)
ReadTab ==
    /\ step = "rows"
    /\ Len(rows) < Len(tabs.holds)
    /\ LET i == Len(rows) + 1
       IN  \E n \in {tabs.arrived[i]} \union (IF i > 1 /\ tabs.arrived[i] > 0 THEN {rows[i - 1]} ELSE {}) :
             rows' = Append(rows, n)
    /\ UNCHANGED <<browser, jobs, query, step, form, page, tabs, polls, outcome>>

RatesComplete ==
    /\ step = "rows"
    /\ Len(rows) = Len(tabs.holds)
    /\ Total(rows) = polls.count
    /\ End("rates")

RatesIncomplete ==
    /\ step = "rows"
    /\ Len(rows) = Len(tabs.holds)
    /\ Total(rows) # polls.count
    /\ End("ContractViolation")

-----------------------------------------------------------------------------

Next ==
    \/ ProbePasses \/ ProbeFindsLogin \/ ProbeUnreachable \/ SignInFails
    \/ \E s \in Shipments : StartJob(s)
    \/ NewPage \/ LaunchFails \/ BrowserDies
    \/ VerifyAuthenticated \/ Unreachable \/ SessionLost \/ DriverFails
    \/ \E field \in DOMAIN NextField : FillLocation(field)
    \/ LocationNotOffered
    \/ FillDepartureDate \/ DateNotConfirmed
    \/ SelectGoodsType \/ GoodsNotSelected
    \/ FillMeasures \/ SetDimensionUnit \/ SetWeightTotalKg \/ UnitNotSelected
    \/ FillWeight \/ GrossWeightTotal \/ ClickTotal \/ GrossWeightWrong
    \/ SelectIata \/ IataNotSelected \/ ClickSearch
    \/ PageMoves
    \/ Settled \/ NoRates \/ AwaitResults \/ ResultsTimeOut
    \/ EnsureFullList \/ NoFullList
    \/ FirstCount \/ NoCountStated \/ AwaitStableCount \/ CountSettled
    \/ ReadTab \/ RatesComplete \/ RatesIncomplete

Spec == Init /\ [][Next]_vars

(***************************************************************************)
(* What the theorems rest on, of WebCargo's page                           *)
(***************************************************************************)

(* A list of suggestions is finite, and the text of an airport's own is    *)
(* within no other's.                                                      *)
SuggestionsArePlain ==
    \A s \in Shipments, field \in {"origin", "destination"} :
        LET options == Suggest(Resolve(s[field]))
        IN  /\ IsFiniteSet(options)
            /\ \A own \in options :
                  own.code = Resolve(s[field]) => Clickable(own, options) = {own}

(* Of two Goods Types with one name, neither's text is within the other's. *)
MenuIsPlain ==
    \A chosen \in GoodsMenu : \A o \in Clickable(chosen, GoodsMenu) :
        o.name = chosen.name => o.label = chosen.label

(* A count that stands still for as long as the search waits is final, and *)
(* the longest wait outlasts the arrival of every rate.                    *)
WaitsAreLongEnough ==
    /\ MaxPause < Stable
    /\ \A h \in Harvests : MaxPause * (Total(h) + 1) + 1 + Stable <= SettleMax

(***************************************************************************)
(* Properties                                                              *)
(***************************************************************************)

(* The airport with the place's code, if WebCargo lists it, once; else an   *)
(* airport of any code, if its text alone among those listed mentions it.  *)
IsAirportOf(code, place) ==
    LET token == Resolve(place)
        mentions == {o \in Suggest(token) : token \in o.words}
    IN  IF Cardinality({o \in Suggest(token) : o.code = token}) = 1 THEN code = token
        ELSE \E o \in mentions : o.code = code /\ mentions = {o}

(* Whatever the page did to the fields on the way, a search that runs is   *)
(* for the shipment: between the airports its words name, as far as        *)
(* WebCargo lists them, on its date, under its Goods Type, with boxes no   *)
(* smaller than its own, and with the weight WebCargo prices within the    *)
(* tolerance of its total, on a session nobody has found signed out.       *)
SearchIsTheShipments ==
    step = "results" =>
        /\ browser.state = "PROCESSING"
        /\ IsAirportOf(form.origin, query.shipment.origin)
        /\ IsAirportOf(form.destination, query.shipment.destination)
        /\ form.date = query.shipment.date
        /\ form.goods = query.goods
        /\ form.pieces = query.shipment.pieces
        /\ form.unit = "IN" /\ 10 * form.side >= query.shipment.side
        /\ form.weightUnit = "KG"
        /\ GrossWeightMatches(GrossWeight(form), query.shipment.weight)

(* What is presented as the whole answer is: as many rates as WebCargo has, *)
(* and "no rates" only when it has none.  The rates come in while they are *)
(* counted and read, a count disappears, a "no results" flashes, a tab is  *)
(* slow: the search then waits, or fails.                                  *)
ResultsAreWhole ==
    /\ outcome = "rates" => Total(rows) = Total(tabs.holds)
    /\ outcome = "no rates" => Total(tabs.holds) = 0

(* pages.py: a count that is still moving when it is read can only fail    *)
(* the search, never present a partial set as complete.                    *)
PartialIsRefused == outcome = "rates" => Total(rows) = Total(tabs.holds)
=============================================================================
