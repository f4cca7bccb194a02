--------------------------- MODULE MarketHistory ---------------------------
(***************************************************************************)
(* Historical data as the dataset builders use it: the exchange publishes  *)
(* day by day, renames and lists securities; a builder takes the universe  *)
(* of a past day (reading daily Bhavcopies through a cache on disk),       *)
(* resolves every instrument to what the provider lists today, downloads   *)
(* and builds each (ml/datasets/multi_symbol.py) and joins the results; a  *)
(* backfill downloads, validates and stores one dataset.  The process may  *)
(* die at any step.  An ISIN and an instrument id belong to one security,  *)
(* their first component; neither code nor provider can see that.          *)
(***************************************************************************)
EXTENDS SecurityLineage, PointInTimeUniverse, HistoryStore

CONSTANTS Securities, Symbols, Turnover,
          LastDay,             \* bound: days published
          Archives, MappedOn   \* bounds: days whose masters are archived, and
                               \* days the provider's instruments are taken on

Days == 1..LastDay

ListingRecords == [id : Securities \X Nat, symbol : Symbols, isin : Securities \X (1..2)]

ASSUME HistoryAssumption ==
  /\ LastDay \in Nat \ {0} /\ Turnover \in [Securities -> [Days -> Nat]]
  /\ Archives \subseteq SUBSET Days /\ MappedOn \subseteq Days
  /\ None \notin ListingRecords

VARIABLES today, listing,   \* the exchange: date, and its listed records
          retained,         \* records of symbols given up it still publishes
          master,           \* day -> records published
          changes,          \* symbol changes announced
          cache,            \* day -> Bhavcopy file: absent, empty, torn
                            \* (no archive), whole
          job

exchangeVars == <<today, listing, retained, master, changes>>
vars == <<exchangeVars, cache, job, storeVars>>

Idle == [pc |-> "idle"]

-----------------------------------------------------------------------------
(* The exchange                                                            *)

LiveRecords(l) == {l[s] : s \in {x \in Securities : l[x] # None}}
Listed(l)      == {r.symbol : r \in LiveRecords(l)}
Rec(s, id, symbol, isin) == [id |-> <<s, id>>, symbol |-> symbol, isin |-> <<s, isin>>]

(* One snapshot has a symbol once and an id once.                          *)
Published(d, l, kept) ==
  {[day |-> d, live |-> TRUE, deleted |-> FALSE,
    id |-> r.id, symbol |-> r.symbol, isin |-> r.isin] : r \in LiveRecords(l)}
  \cup {[day |-> d, live |-> FALSE, deleted |-> r.deleted,
          id |-> r.id, symbol |-> r.symbol, isin |-> r.isin]
           : r \in {k \in kept : k.symbol \notin Listed(l)}}

Rows(d) == {[day |-> d, id |-> r.id, value |-> Turnover[r.isin[1]][d]]
              : r \in {x \in master[d] : x.live}}

Init ==
  /\ today = 1
  /\ listing \in {l \in [Securities -> {None} \cup
                              {Rec(s, 1, x, 1) : s \in Securities, x \in Symbols}] :
                   /\ \A s \in Securities : l[s] # None => l[s].isin[1] = s
                   /\ \A s, t \in Securities :
                        s # t /\ l[s] # None /\ l[t] # None => l[s].symbol # l[t].symbol}
  /\ retained = {} /\ changes = {}
  /\ master = [d \in Days |-> IF d = 1 THEN Published(1, listing, {}) ELSE {}]
  /\ cache = [d \in Days |-> "absent"]
  /\ job = Idle
  /\ StoreInit

NextDay(l, kept, announced) ==
  /\ today < LastDay
  /\ today' = today + 1
  /\ listing' = l /\ retained' = kept /\ changes' = announced
  /\ master' = IF today' \in Sessions
               THEN [master EXCEPT ![today'] = Published(today', l, kept)] ELSE master
  /\ UNCHANGED <<cache, job, storeVars>>

QuietDay == NextDay(listing, retained, changes)

List(s, symbol) ==
  /\ listing[s] = None /\ symbol \notin Listed(listing)
  /\ NextDay([listing EXCEPT ![s] = Rec(s, 1, symbol, 1)], retained, changes)

(* A renamed security keeps its id, or gets a new one beside the old       *)
(* record; its ISIN may change with it.                                    *)
Rename(s, symbol, keeps, deleted, isin) ==
  /\ listing[s] # None /\ symbol \notin Listed(listing)
  /\ LET old == listing[s]
         new == Rec(s, old.id[2] + (IF keeps THEN 0 ELSE 1), symbol, isin)
     IN NextDay([listing EXCEPT ![s] = new],
                IF keeps THEN retained
                ELSE retained \cup {[deleted |-> deleted, id |-> old.id,
                                     symbol |-> old.symbol, isin |-> old.isin]},
                changes \cup {[old |-> old.symbol, new |-> symbol, day |-> today + 1]})

Exchange ==
  \/ QuietDay
  \/ \E s \in Securities, symbol \in Symbols :
       \/ List(s, symbol)
       \/ \E keeps, deleted \in BOOLEAN, isin \in 1..2 : Rename(s, symbol, keeps, deleted, isin)

-----------------------------------------------------------------------------
(* The builder                                                             *)

Archive(days) == UNION {master[d] : d \in days}
Mapper(day)   == [x \in {r.symbol : r \in {y \in master[day] : y.live}} |->
                    (CHOOSE r \in master[day] : r.symbol = x).isin]

(* The universe of a published day, with the Security Masters archived and *)
(* the provider's instruments listed on the day the mapping was made.      *)
StartBuild(asOf, archived, mapped) ==
  /\ job.pc = "idle"
  /\ master[asOf] # {} /\ EnoughSessions(asOf)
  /\ job' = [pc |-> "reading", asOf |-> asOf, archived |-> archived, mapper |-> Mapper(mapped),
             left |-> SessionsBefore(asOf), rows |-> {},
             universe |-> {}, pending |-> {}, instruments |-> {}, failures |-> {}]
  /\ UNCHANGED <<exchangeVars, cache, storeVars>>

Reading == job.pc = "reading" /\ job.left # {}
Session == CHOOSE d \in job.left : \A x \in job.left : d <= x
HaveRows == job' = [job EXCEPT !.pc = "reading", !.left = @ \ {Session},
                               !.rows = @ \cup Rows(Session)]
Fail     == job' = [job EXCEPT !.pc = "failed"]

ReadAnything ==   \* mutant: an empty or truncated file is a day without rows
  /\ Reading /\ cache[Session] # "absent"
  /\ IF cache[Session] = "whole" THEN HaveRows ELSE job' = [job EXCEPT !.left = @ \ {Session}]
  /\ UNCHANGED <<exchangeVars, cache, storeVars>>
(* A file with something in it is read; when it is no archive the build    *)
(* fails.                                                                  *)
ReadCached ==
  /\ Reading /\ cache[Session] \in {"whole", "torn"}
  /\ IF cache[Session] = "whole" THEN HaveRows ELSE Fail
  /\ UNCHANGED <<exchangeVars, cache, storeVars>>

(* An empty file is removed, and downloaded again like one that is not     *)
(* there; the payload is written into the file itself.                     *)
Download ==
  /\ Reading /\ cache[Session] \in {"absent", "empty"}
  /\ \/ /\ cache' = [cache EXCEPT ![Session] = "empty"]
        /\ job' = [job EXCEPT !.pc = "writing"]
     \/ /\ cache' = [cache EXCEPT ![Session] = "absent"]
        /\ Fail
  /\ UNCHANGED <<exchangeVars, storeVars>>

(* Whatever came with a good status is kept, before it is looked at: one   *)
(* that is no archive fails this build, and every build that reads it.     *)
Written ==
  /\ job.pc = "writing"
  /\ \/ cache' = [cache EXCEPT ![Session] = "whole"] /\ HaveRows
     \/ cache' = [cache EXCEPT ![Session] = "torn"] /\ Fail
  /\ UNCHANGED <<exchangeVars, storeVars>>

(* build_point_in_time_universe once every session is read: the records    *)
(* selected, of which those the provider lists by ISIN are to be built.    *)
SelectUniverse ==
  /\ job.pc = "reading" /\ job.left = {}
  /\ LET selected == Selected(master[job.asOf], job.asOf, job.rows)
         listed   == {job.mapper[x] : x \in DOMAIN job.mapper}
         bridged  == Bridged(selected, listed)
     IN job' = [job EXCEPT !.pc = IF bridged = {} THEN "failed" ELSE "instruments",
                           !.universe = selected, !.pending = bridged]
  /\ UNCHANGED <<exchangeVars, cache, storeVars>>

(* One instrument: its identity is resolved, its candles are ingested, its *)
(* dataset is built; any of them may fail it, and it alone.                *)
Resolved(pit) ==
  Resolve(Identity(pit), job.asOf, job.mapper, changes, Archive(job.archived))

InstrumentRaising(pit, answer) ==   \* mutant: an instrument that cannot be resolved ends the build
  /\ job.pc = "instruments" /\ pit \in job.pending
  /\ LET symbol == Resolved(pit)
     IN job' = CASE symbol = None -> [job EXCEPT !.pc = "failed", !.pending = @ \ {pit},
                         !.failures = @ \cup {[pit |-> pit, stage |-> "IDENTITY_RESOLUTION"]}]
                 [] symbol # None /\ answer # "built" -> [job EXCEPT !.pending = @ \ {pit},
                         !.failures = @ \cup {[pit |-> pit, stage |-> answer]}]
                 [] OTHER -> [job EXCEPT !.pending = @ \ {pit},
                         !.instruments = @ \cup {[pit |-> pit, symbol |-> symbol]}]
  /\ UNCHANGED <<exchangeVars, cache, storeVars>>
Instrument(pit, answer) ==
  /\ job.pc = "instruments" /\ pit \in job.pending
  /\ LET symbol == Resolved(pit)
         stage  == IF symbol = None THEN "IDENTITY_RESOLUTION" ELSE answer
     IN job' = [job EXCEPT !.pending = @ \ {pit},
                  !.failures = IF stage = "built" THEN @ ELSE @ \cup {[pit |-> pit, stage |-> stage]},
                  !.instruments = IF stage = "built" THEN @ \cup {[pit |-> pit, symbol |-> symbol]}
                                  ELSE @]
  /\ UNCHANGED <<exchangeVars, cache, storeVars>>

(* The rows of all instruments are joined by time and symbol: two datasets *)
(* under one symbol refuse the whole.                                      *)
Joinable(instruments) ==
  /\ instruments # {}
  /\ \A i, j \in instruments : i.symbol = j.symbol => i = j

Combine ==
  /\ job.pc = "instruments" /\ job.pending = {}
  /\ job' = [job EXCEPT !.pc = IF Joinable(job.instruments) THEN "built" ELSE "failed"]
  /\ UNCHANGED <<exchangeVars, cache, storeVars>>

(* The result, or the error, is the caller's.                              *)
Return ==
  /\ job.pc \in {"built", "failed"}
  /\ job' = Idle
  /\ UNCHANGED <<exchangeVars, cache, storeVars>>

-----------------------------------------------------------------------------
(* The backfill                                                            *)

(* ingest with a destination: the provider delivers candles started by     *)
(* now; they are stored only when valid as of now, or as of no time.       *)
Ingest(bars, now, bounded, suspended) ==
  /\ job.pc = "idle"
  /\ \A s \in BagToSet(bars) : NotAfter(s, now)
  /\ LET asOf == IF bounded THEN {now} ELSE {}
     IN /\ Valid(bars, asOf, suspended)
        /\ WriteTemporary(Dataset(bars, asOf, suspended))
  /\ job' = [pc |-> "saving"]
  /\ UNCHANGED <<exchangeVars, cache>>

Store ==
  /\ job.pc = "saving"
  /\ Replace
  /\ job' = Idle
  /\ UNCHANGED <<exchangeVars, cache>>

Crash ==
  /\ job.pc \notin {"idle", "built", "failed"}
  /\ IF job.pc = "writing"
     THEN \E left \in {"empty", "torn"} : cache' = [cache EXCEPT ![Session] = left]
     ELSE UNCHANGED cache
  /\ Abandon
  /\ job' = Idle
  /\ UNCHANGED exchangeVars

Deliveries == {[s \in starts |-> IF s = twice THEN 2 ELSE 1]
                 : starts \in SUBSET ((today - 1..today) \X Slots),
                   twice \in {None} \cup ({today} \X Slots)}

Next ==
  \/ Exchange
  \/ \E asOf \in 1..today, mapped \in MappedOn, archived \in Archives :
       master[mapped] # {} /\ StartBuild(asOf, archived, mapped)
  \/ ReadCached
  \/ Download
  \/ Written
  \/ SelectUniverse
  \/ job.pc = "instruments" /\
       \E pit \in job.pending, answer \in {"built", "HISTORICAL_INGESTION", "PHASE9_BUILD"} :
          Instrument(pit, answer)
  \/ Combine
  \/ Return
  \/ \E bars \in Deliveries, slot \in 0..SlotsPerDay + 1,
        bounded \in BOOLEAN, suspended \in {{}, {today}} :
       Ingest(bars, <<today, slot>>, bounded, suspended)
  \/ Store
  \/ Crash

Spec == Init /\ [][Next]_vars

-----------------------------------------------------------------------------
(* Properties                                                              *)

Selecting == job.pc \in {"instruments", "built"}

(* Point in time: whenever a universe is built, and through whatever       *)
(* crashes and half-written files, it is the one anybody could have known  *)
(* on the morning of its day: the records published that day whose id had  *)
(* traded enough in the sessions before it.                                *)
Traded(r, asOf) ==
  {d \in Sessions : /\ d < asOf /\ Cardinality({x \in Sessions : d < x /\ x < asOf}) < Lookback
                    /\ \E x \in master[d] : x.live /\ x.id = r.id}
UniverseIsPointInTime ==
  Selecting =>
    job.universe =
      {r \in master[job.asOf] :
         LET days == Traded(r, job.asOf)
         IN /\ Cardinality(days) >= MinCompleted
            /\ MapThenSumSet(LAMBDA d : Turnover[r.isin[1]][d], days)
                 >= MinAverage * Cardinality(days)}

(* Fail closed: an instrument that was built is the security of the record *)
(* in the universe, however symbols were given up, taken over, or ISINs    *)
(* changed in the meantime, and however sparse the evidence archived.      *)
(* Only a record the exchange retained of a symbol that was given up may   *)
(* turn into another security: that of the symbol announced in its place,  *)
(* when one of the two symbols was given up a second time.                 *)
IsTheSecurity(i) == job.mapper[i.symbol][1] = i.pit.isin[1]
GivenUpTwice(i) ==
  \E c, again \in changes :
    /\ c.old = i.pit.symbol /\ c.new = i.symbol /\ c.day <= job.asOf
    /\ again # c /\ again.old \in {c.old, c.new}
ResolvedIsTheSecurity ==
  Selecting =>
    \A i \in job.instruments : IsTheSecurity(i) \/ (~i.pit.live /\ GivenUpTwice(i))

(* Every instrument to be built has exactly one result, or one failure     *)
(* with its stage, and a build that comes to joining fails only when       *)
(* nothing was built, or another security than the record's: apart from    *)
(* that no instrument costs another its dataset.                           *)
EachAccountedOnce ==
  job.pc \in {"instruments", "built", "failed"} /\ job.universe # {} =>
    LET built  == {i.pit : i \in job.instruments}
        failed == {f.pit : f \in job.failures}
    IN /\ built \cap failed = {} /\ (built \cup failed) \cap job.pending = {}
       /\ Cardinality(job.instruments) = Cardinality(built)
       /\ built \cup failed \cup job.pending
            = {r \in job.universe : \E x \in DOMAIN job.mapper : job.mapper[x] = r.isin}
       /\ job.pc = "failed" => built = {} \/ \E i \in job.instruments : ~IsTheSecurity(i)

(* The stored file is a whole dataset, whatever step the process died in:  *)
(* a session partly there was the one open when it was fetched, so the     *)
(* last, or one the instrument did not trade in.                           *)
StoredWasValidated ==
  file # NoFile =>
    \A s \in file.bars :
      /\ s[1] \in TradingDays
      /\ \/ \A slot \in Slots : <<s[1], slot>> \in file.bars
         \/ s[1] \in file.suspended
         \/ \E t \in file.asOf : /\ t[1] = s[1] /\ t[2] \in Slots
                                 /\ \A x \in file.bars : NotAfter(x, t)
=============================================================================
