------------------------------ MODULE PriceCatalog ------------------------------
(***************************************************************************)
(* The API price catalog (resources/ai/pricing_catalog.py): releases are   *)
(* fetched in two requests, verified and installed in two files, by a      *)
(* background thread and by the sampling loop's forced refresh, while      *)
(* prices are looked up.  A release is [version, text, periods]; text      *)
(* stands for all bytes, so that its digest is the pair of version and     *)
(* text.  References, rates and the wording of errors are left out.        *)
(***************************************************************************)
EXTENDS Naturals, Sequences, FiniteSets, SequencesExt

CONSTANTS
    Releases,          \* what the release server may offer as the latest
    Bundled,           \* the catalog of the installation
    MaxPublications,   \* changes of the latest release
    MaxPriceFaults     \* restarts, damaged files, failed writes

ASSUME PriceCatalogAssumption ==
    /\ \A r \in Releases \cup {Bundled} : r.version \in Nat \ {0}
    /\ MaxPriceFaults \in Nat

Refreshers == {"command", "thread"}
Damaged == [version |-> 0]       \* absent, unreadable or invalid
Nobody == "nobody"

VARIABLES
    latest,            \* the release on the server
    active,            \* _catalog
    catalogFile, previousFile,
    age,               \* of the last check: 0 new, 1 past MISSING_MODEL_CHECK_SECONDS,
                       \* 2 past PERIODIC_CHECK_SECONDS, unknown, or in the future
    refreshLock,       \* holder of _refresh_lock
    refreshing,        \* _refreshing
    refresher,         \* per refresher [pc, manifest, base, fetched]
    highest,           \* observer: highest version that was ever active
    publications, priceFaults,
    damaged            \* observer: a file was damaged

priceVars == <<latest, active, catalogFile, previousFile, age, refreshLock, refreshing, refresher,
               highest, publications, priceFaults, damaged>>
onDisk == <<catalogFile, previousFile>>
outside == <<latest, publications>>

Resting == [pc |-> "idle", manifest |-> Damaged, base |-> Damaged, fetched |-> Damaged]

----------------------------------------------------------------------------
\* PricingCatalog.from_bytes: no inverted period, and per model no two that overlap; the
\* last one may be open.
Valid(release) ==
    LET byStart == SortSeq(release.periods, LAMBDA p, q : p.from < q.from)
    IN  /\ release.periods # <<>>
        /\ \A i \in DOMAIN byStart : byStart[i].open \/ byStart[i].from <= byStart[i].until
        /\ \A i \in 1 .. Len(byStart) - 1 : ~byStart[i].open /\ byStart[i].until < byStart[i + 1].from

\* price_for: the first period that holds the day.
Covering(catalog, day) ==
    SelectSeq(catalog.periods, LAMBDA p : p.from <= day /\ (p.open \/ day <= p.until))

\* A day of a valid catalog has one price: comparing the neighbours among the sorted periods
\* is enough (pricing_catalog.py:187).  No state is involved; TLC evaluates it as an assumption.
DaysHaveOnePrice ==
    \A r \in Releases \cup {Bundled} : Valid(r) =>
        \A p \in ToSet(r.periods) : Len(Covering(r, p.from)) = 1

Digest(release) == <<release.version, release.text>>

\* _load_best_available: the highest version; of equal ones the first.
Best(candidates) ==
    LET best == CHOOSE i \in DOMAIN candidates :
                    \A j \in DOMAIN candidates :
                        \/ candidates[j].version < candidates[i].version
                        \/ candidates[j].version = candidates[i].version /\ i <= j
    IN  candidates[best]

----------------------------------------------------------------------------
Move(w, pc) == refresher' = [refresher EXCEPT ![w].pc = pc]
At(w, pc) == refresher[w].pc = pc
Fault == priceFaults < MaxPriceFaults /\ priceFaults' = priceFaults + 1

\* schedule_refresh_if_due, at a start (2) or when a model has no price (1).
ScheduleRefresh(interval) ==
    /\ ~refreshing /\ age >= interval
    /\ refreshing' = TRUE
    /\ Move("thread", "begin")
    /\ UNCHANGED <<latest, active, onDisk, age, refreshLock, highest, publications, priceFaults, damaged>>

\* The command of the desktop.
ForceRefresh ==
    /\ At("command", "idle")
    /\ Move("command", "begin")
    /\ UNCHANGED <<outside, active, onDisk, age, refreshLock, refreshing, highest, priceFaults, damaged>>

\* Another refresh is under way, or this one is no longer due.
BeginPriceRefresh(w) ==
    /\ At(w, "begin")
    /\ IF refreshLock # Nobody THEN Move(w, "leave") /\ UNCHANGED refreshLock
       ELSE IF w = "thread" /\ age = 0 THEN Move(w, "leave") /\ UNCHANGED refreshLock
       ELSE Move(w, "manifest") /\ refreshLock' = w
    /\ UNCHANGED <<outside, active, onDisk, age, refreshing, highest, priceFaults, damaged>>

FetchManifest(w) ==
    /\ At(w, "manifest")
    /\ refresher' = [refresher EXCEPT ![w] =
            [pc |-> IF Digest(latest) = Digest(active) THEN "note"
                    ELSE IF latest.version = active.version THEN "failed" ELSE "catalog",
             manifest |-> latest, base |-> active, fetched |-> Damaged]]
    /\ UNCHANGED <<outside, active, onDisk, age, refreshLock, refreshing, highest, priceFaults, damaged>>

FetchFails(w) ==
    /\ At(w, "manifest") \/ At(w, "catalog")
    /\ Move(w, "failed")
    /\ UNCHANGED <<outside, active, onDisk, age, refreshLock, refreshing, highest, priceFaults, damaged>>

\* mutant: an older version is as good
AnyVersion(catalog, manifest, base) == Digest(catalog) = Digest(manifest) /\ Valid(catalog)

\* What a download must be to be installed.
Verified(catalog, manifest, base) ==
    /\ Digest(catalog) = Digest(manifest)
    /\ Valid(catalog)
    /\ catalog.version >= base.version

\* The server may have moved on since the manifest was fetched.
FetchCatalog(w) ==
    /\ At(w, "catalog")
    /\ refresher' = [refresher EXCEPT
            ![w].fetched = latest,
            ![w].pc = IF Verified(latest, refresher[w].manifest, refresher[w].base)
                      THEN "keep" ELSE "failed"]
    /\ UNCHANGED <<outside, active, onDisk, age, refreshLock, refreshing, highest, priceFaults, damaged>>

\* The installed file becomes the previous one if it is worth keeping.
KeepPrevious(w) ==
    /\ At(w, "keep")
    /\ previousFile' = IF catalogFile # Damaged THEN catalogFile ELSE previousFile
    /\ Move(w, "install")
    /\ UNCHANGED <<outside, active, catalogFile, age, refreshLock, refreshing, highest, priceFaults, damaged>>

InstallCatalog(w) ==
    /\ At(w, "install")
    /\ catalogFile' = refresher[w].fetched
    /\ Move(w, "activate")
    /\ UNCHANGED <<outside, active, previousFile, age, refreshLock, refreshing, highest, priceFaults, damaged>>

Activate(w) ==
    /\ At(w, "activate")
    /\ active' = refresher[w].fetched
    /\ highest' = IF active'.version > highest THEN active'.version ELSE highest
    /\ Move(w, "note")
    /\ UNCHANGED <<outside, onDisk, age, refreshLock, refreshing, priceFaults, damaged>>

\* _write_state, after a success or a failure: the next check waits.
NoteCheck(w) ==
    /\ At(w, "note") \/ At(w, "failed")
    /\ age' = 0
    /\ refreshLock' = Nobody
    /\ Move(w, "leave")
    /\ UNCHANGED <<outside, active, onDisk, refreshing, highest, priceFaults, damaged>>

\* A file cannot be written; when the state is the second to fail the error leaves refresh.
PriceWriteFails(w) ==
    /\ Fault
    /\ \/ /\ At(w, "keep") \/ At(w, "install") \/ At(w, "note")
          /\ Move(w, "failed") /\ UNCHANGED refreshLock
       \/ /\ At(w, "failed")
          /\ Move(w, "leave") /\ refreshLock' = Nobody
    /\ UNCHANGED <<outside, active, onDisk, age, refreshing, highest, damaged>>

\* _background_refresh resets its flag last.
LeaveRefresh(w) ==
    /\ At(w, "leave")
    /\ refresher' = [refresher EXCEPT ![w] = Resting]
    /\ refreshing' = IF w = "thread" THEN FALSE ELSE refreshing
    /\ UNCHANGED <<outside, active, onDisk, age, refreshLock, highest, priceFaults, damaged>>

----------------------------------------------------------------------------
PublishRelease ==
    /\ publications < MaxPublications
    /\ latest' \in Releases \ {latest}
    /\ publications' = publications + 1
    /\ UNCHANGED <<active, onDisk, age, refreshLock, refreshing, refresher, highest, priceFaults, damaged>>

\* Hours pass, or the clock is set back.
TimePasses ==
    /\ age < 2 /\ age' = age + 1
    /\ UNCHANGED <<outside, active, onDisk, refreshLock, refreshing, refresher, highest, priceFaults, damaged>>

DamageFile ==
    /\ Fault
    /\ \/ catalogFile' = Damaged /\ UNCHANGED previousFile
       \/ previousFile' = Damaged /\ UNCHANGED catalogFile
    /\ onDisk' # onDisk
    /\ damaged' = TRUE
    /\ UNCHANGED <<outside, active, age, refreshLock, refreshing, refresher, highest>>

\* The Agent ends at any point and starts again; threads and locks are gone.
RestartPrices ==
    /\ Fault
    /\ active' = Best(<<Bundled, catalogFile, previousFile>>)
    /\ highest' = IF active'.version > highest THEN active'.version ELSE highest
    /\ refreshLock' = Nobody /\ refreshing' = FALSE
    /\ refresher' = [w \in Refreshers |-> Resting]
    /\ UNCHANGED <<outside, onDisk, age, damaged>>

PriceInit ==
    /\ latest \in Releases
    /\ active = Bundled /\ catalogFile = Damaged /\ previousFile = Damaged
    /\ age = 2 /\ refreshLock = Nobody /\ refreshing = FALSE
    /\ refresher = [w \in Refreshers |-> Resting]
    /\ highest = Bundled.version /\ publications = 0 /\ priceFaults = 0 /\ damaged = FALSE

PriceNext ==
    \/ \E interval \in {1, 2} : ScheduleRefresh(interval)
    \/ ForceRefresh \/ PublishRelease \/ TimePasses \/ DamageFile \/ RestartPrices
    \/ \E w \in Refreshers :
        \/ BeginPriceRefresh(w) \/ FetchManifest(w) \/ FetchFails(w) \/ FetchCatalog(w)
        \/ KeepPrevious(w) \/ InstallCatalog(w) \/ Activate(w)
        \/ NoteCheck(w) \/ PriceWriteFails(w) \/ LeaveRefresh(w)

PriceSpec == PriceInit /\ [][PriceNext]_priceVars

----------------------------------------------------------------------------
\* The values of the manager's state; the thread runs under its flag (_refreshing).
PriceTypeOK ==
    /\ latest \in Releases /\ active \in Releases \cup {Bundled}
    /\ {catalogFile, previousFile} \subseteq Releases \cup {Damaged}
    /\ age \in 0 .. 2 /\ refreshing \in BOOLEAN
    /\ refreshLock \in Refreshers \cup {Nobody}
    /\ refresher["thread"].pc # "idle" => refreshing

\* Prices never go back to an older release, through a forced refresh beside the periodic
\* one, withdrawn and replaced releases, failures and restarts between any two writes; a
\* damaged file may cost the newest release, but never leads to a mix of two or to one that
\* was not verified (pricing_catalog.py:304, :348).
PricesNeverGoBack ==
    /\ damaged \/ active.version = highest
    /\ \A catalog \in {active, catalogFile, previousFile} \ {Damaged, Bundled} :
        Valid(catalog) /\ catalog.version > Bundled.version
    /\ ~damaged /\ active # Bundled => catalogFile.version >= active.version
=================================================================================
