----------------------------- MODULE EventDriven -----------------------------
(* Event-driven invalidation, be/routers/s216_event_driven.py: a GET that    *)
(* misses stores the row in Redis and registers the key under its tags; a    *)
(* PUT changes the row in memory and publishes the key; a background         *)
(* listener deletes what is published, a key or all keys of a tag. One       *)
(* action is the code between two awaits of one coroutine, and one command   *)
(* of the pipeline (transaction=False). The counters of GET /stats and the   *)
(* event log are left out: nothing reads them back.                          *)
EXTENDS Naturals, Sequences, Functions

CONSTANTS
    Items,      \* products and orders
    Tags,       \* tag groups
    TagsOf,     \* the tags of each item, in the order they are registered
    Gets, Puts, \* requests, each served once
    Seed,       \* the row as the module is loaded; then its last PUT names it
    Absent,     \* no such key in Redis; no message in hand
    TTL,        \* life of an entry, PRODUCT_TTL and ORDER_TTL
    SLACK,      \* life of a tag set beyond that, 120 s in the code
    MaxManual,  \* bound: POST /invalidate/... and POST /reset
    MaxFailures \* bound: failed calls and restarts in a behaviour

ASSUME EventDrivenAssumption ==
    /\ Items \cap Tags = {}
    /\ Gets \cap Puts = {}
    /\ Seed \notin Puts
    /\ Absent \notin Puts \cup {Seed} \cup Items \cup Tags
    /\ TagsOf \in [Items -> Seq(Tags)]
    /\ TTL \in Nat \ {0}
    /\ SLACK \in Nat
    /\ MaxManual \in Nat
    /\ MaxFailures \in Nat

Callers == Gets \cup Puts
Rows == Puts \cup {Seed}
Names == Items \cup Tags

(* The two channels: the name of a key, be it an entry's or a tag set's, and *)
(* a tag.                                                                    *)
Messages == [kind : {"key"}, name : Names] \cup [kind : {"tag"}, name : Tags]
Key(n) == [kind |-> "key", name |-> n]

VARIABLES
    row,        \* _PRODUCTS and _ORDERS, in process memory
    cached,     \* Redis: the row stored under each item's key, or Absent
    ttl,        \* Redis: the remaining life of that key
    tags,       \* Redis: the members of ei216:tags:<tag>
    tagTtl,     \* Redis: the remaining life of that set; 0 while it has none
    channel,    \* published, and not yet received by the listener
    listener,   \* where _invalidation_listener is
    handling,   \* the key or the tag it is working on
    found,      \* the members its SMEMBERS returned
    stage, item, \* where each request is, and what it is about
    val,        \* the row a GET has read and not yet stored
    untagged,   \* the tags a GET has yet to register
    wipe,       \* the keys POST /reset has found and not yet deleted
    manual,     \* requests of the administrator so far
    failures,   \* failures so far
    excused,    \* history: the entry was outdated when it was stored, or an
                \* invalidation of it was lost
    orphaned,   \* history: the entry lost a tag to a deletion, or its GET
                \* ended before it was registered
    lapsed      \* history: a tag set ended after the SADD of the entry's key
                \* and before the EXPIRE

redis == <<cached, ttl, tags, tagTtl>>
listening == <<listener, handling, found>>
request == <<stage, item, val, untagged>>
bounds == <<manual, failures>>
history == <<excused, orphaned, lapsed>>
edVars == <<row, redis, channel, listening, request, wipe, bounds, history>>

EDInit ==
    /\ row = [i \in Items |-> Seed]
    /\ cached = [i \in Items |-> Absent]
    /\ ttl = [i \in Items |-> 0]
    /\ tags = [t \in Tags |-> {}]
    /\ tagTtl = [t \in Tags |-> 0]
    /\ channel = <<>>
    /\ listener = "starting"
    /\ handling = Absent
    /\ found = {}
    /\ stage = [r \in Callers |-> "new"]
    /\ item \in [Callers -> Items]
    /\ val = [r \in Callers |-> Seed]
    /\ untagged = [r \in Callers |-> <<>>]
    /\ wipe = {}
    /\ manual = 0 /\ failures = 0
    /\ excused = [i \in Items |-> FALSE]
    /\ orphaned = [i \in Items |-> FALSE]
    /\ lapsed = [i \in Items |-> FALSE]

Advance(r, from, to) ==
    /\ stage[r] = from
    /\ stage' = [stage EXCEPT ![r] = to]

Subscribed == listener \notin {"starting", "off"}

(* Keys and tag sets disappear, and the entries that lose a tag by it.       *)
Forget(items, sets) ==
    /\ cached' = [i \in Items |-> IF i \in items THEN Absent ELSE cached[i]]
    /\ ttl' = [i \in Items |-> IF i \in items THEN 0 ELSE ttl[i]]
    /\ tags' = [t \in Tags |-> IF t \in sets THEN {} ELSE tags[t]]
    /\ tagTtl' = [t \in Tags |-> IF t \in sets THEN 0 ELSE tagTtl[t]]

LosesTag(i, sets) == cached[i] # Absent /\ \E t \in sets : i \in tags[t]

----------------------------------------------------------------------------
(* GET /product/{id} and GET /order/{id}.                                    *)
ReadHit(r) ==
    /\ Advance(r, "new", "done")
    /\ cached[item[r]] # Absent
    /\ UNCHANGED <<row, redis, channel, listening, item, val, untagged, wipe,
                   bounds, history>>

ReadMiss(r) ==
    /\ Advance(r, "new", "load")
    /\ cached[item[r]] = Absent
    /\ UNCHANGED <<row, redis, channel, listening, item, val, untagged, wipe,
                   bounds, history>>

(* Mutant: what is stored is read from Redis.                                *)
LoadFromRedis(r) ==
    /\ Advance(r, "load", "fill")
    /\ val' = [val EXCEPT ![r] = cached[item[r]]]
    /\ UNCHANGED <<row, redis, channel, listening, item, untagged, wipe, bounds,
                   history>>

Load(r) ==
    /\ Advance(r, "load", "fill")
    /\ val' = [val EXCEPT ![r] = row[item[r]]]
    /\ UNCHANGED <<row, redis, channel, listening, item, untagged, wipe, bounds,
                   history>>

(* _cache_set_with_tags: SETEX, then SADD and EXPIRE for each tag, commands  *)
(* of one pipeline that other clients' commands may come between.            *)
Fill(r) ==
    /\ Advance(r, "fill", "tag")
    /\ cached' = [cached EXCEPT ![item[r]] = val[r]]
    /\ ttl' = [ttl EXCEPT ![item[r]] = TTL]
    /\ untagged' = [untagged EXCEPT ![r] = TagsOf[item[r]]]
    /\ excused' = [excused EXCEPT ![item[r]] = val[r] # row[item[r]]]
    /\ orphaned' = [orphaned EXCEPT ![item[r]] = FALSE]
    /\ lapsed' = [lapsed EXCEPT ![item[r]] = FALSE]
    /\ val' = [val EXCEPT ![r] = Seed]
    /\ UNCHANGED <<row, tags, tagTtl, channel, listening, item, wipe, bounds>>

(* SADD makes a set without an expiry, or leaves the set's as it is.          *)
Register(r) ==
    /\ Advance(r, "tag", "expire")
    /\ untagged[r] # <<>>
    /\ tags' = [tags EXCEPT ![Head(untagged[r])] = @ \cup {item[r]}]
    /\ UNCHANGED <<row, cached, ttl, tagTtl, channel, listening, item, val, untagged,
                   wipe, bounds, history>>

(* Mutant: EXPIRE with NX, so that a later entry does not prolong the set.    *)
ProlongOnce(r) ==
    /\ Advance(r, "expire", "tag")
    /\ tagTtl' = [tagTtl EXCEPT ![Head(untagged[r])] =
                      IF tags[Head(untagged[r])] # {} /\ @ = 0 THEN TTL + SLACK ELSE @]
    /\ untagged' = [untagged EXCEPT ![r] = Tail(@)]
    /\ UNCHANGED <<row, cached, ttl, tags, channel, listening, item, val, wipe, bounds,
                   history>>

(* EXPIRE has no effect on a set that has ended, or was deleted, meanwhile.  *)
Prolong(r) ==
    /\ Advance(r, "expire", "tag")
    /\ tagTtl' = [tagTtl EXCEPT ![Head(untagged[r])] =
                      IF tags[Head(untagged[r])] # {} THEN TTL + SLACK ELSE @]
    /\ untagged' = [untagged EXCEPT ![r] = Tail(@)]
    /\ UNCHANGED <<row, cached, ttl, tags, channel, listening, item, val, wipe, bounds,
                   history>>

Answer(r) ==
    /\ Advance(r, "tag", "done")
    /\ untagged[r] = <<>>
    /\ UNCHANGED <<row, redis, channel, listening, item, val, untagged, wipe,
                   bounds, history>>

(* PUT /product/{id} and PUT /order/{id}: the row at once, then PUBLISH.     *)
Update(r) ==
    /\ Advance(r, "new", "publish")
    /\ row' = [row EXCEPT ![item[r]] = r]
    /\ UNCHANGED <<redis, channel, listening, item, val, untagged, wipe, bounds,
                   history>>

(* PUBLISH reaches those who are subscribed, and nobody later.               *)
Deliver(m) == channel' = IF Subscribed THEN Append(channel, m) ELSE channel

Publish(r) ==
    /\ Advance(r, "publish", "done")
    /\ Deliver(Key(item[r]))
    /\ excused' = [excused EXCEPT ![item[r]] = @ \/ ~Subscribed]
    /\ UNCHANGED <<row, redis, listening, item, val, untagged, wipe, bounds,
                   orphaned, lapsed>>

(* A call of the request raises, and what it has done so far stays.          *)
Raise(r) ==
    /\ failures < MaxFailures
    /\ stage[r] \in {"fill", "tag", "expire", "publish"}
    /\ stage' = [stage EXCEPT ![r] = "done"]
    /\ failures' = failures + 1
    /\ val' = [val EXCEPT ![r] = Seed]
    /\ untagged' = [untagged EXCEPT ![r] = <<>>]
    /\ excused' = [excused EXCEPT ![item[r]] = @ \/ stage[r] = "publish"]
    /\ orphaned' = [orphaned EXCEPT ![item[r]] = @ \/ stage[r] \in {"tag", "expire"}]
    /\ UNCHANGED <<row, redis, channel, listening, item, wipe, manual, lapsed>>

----------------------------------------------------------------------------
(* _invalidation_listener: the rounds of its loop.                           *)
EndRound ==
    /\ listener' = "idle"
    /\ handling' = Absent
    /\ found' = {}

Subscribe ==
    /\ listener = "starting"
    /\ listener' = "idle"
    /\ UNCHANGED <<row, redis, channel, handling, found, request, wipe, bounds, history>>

Receive ==
    /\ listener = "idle"
    /\ channel # <<>>
    /\ handling' = Head(channel).name
    /\ listener' = Head(channel).kind
    /\ channel' = Tail(channel)
    /\ UNCHANGED <<row, redis, found, request, wipe, bounds, history>>

(* Mutant: DEL of another name than the entry's.                             *)
DeleteOtherKey ==
    /\ listener = "key"
    /\ EndRound
    /\ UNCHANGED <<row, redis, channel, request, wipe, bounds, history>>

DeleteKey ==
    /\ listener = "key"
    /\ Forget({handling}, {handling})
    /\ EndRound
    /\ orphaned' = [i \in Items |-> orphaned[i] \/ LosesTag(i, {handling} \cap Tags)]
    /\ UNCHANGED <<row, channel, request, wipe, bounds, excused, lapsed>>

(* A tag: SMEMBERS, DEL of the members, DEL of the set.                      *)
ReadTag ==
    /\ listener = "tag"
    /\ \/ tags[handling] = {} /\ EndRound
       \/ /\ tags[handling] # {}
          /\ found' = tags[handling]
          /\ listener' = "entries"
          /\ UNCHANGED handling
    /\ UNCHANGED <<row, redis, channel, request, wipe, bounds, history>>

DeleteEntries ==
    /\ listener = "entries"
    /\ listener' = "set"
    /\ Forget(found, {})
    /\ UNCHANGED <<row, channel, handling, found, request, wipe, bounds, history>>

DeleteSet ==
    /\ listener = "set"
    /\ Forget({}, {handling})
    /\ EndRound
    /\ orphaned' = [i \in Items |-> orphaned[i] \/ LosesTag(i, {handling})]
    /\ UNCHANGED <<row, channel, request, wipe, bounds, excused, lapsed>>

(* An exception leaves the loop, and nothing starts the listener again: what *)
(* is on its way is lost.                                                    *)
Undelivered(i) ==
    \/ Key(i) \in Range(channel)
    \/ listener = "key" /\ handling = i

ListenerFails ==
    /\ failures < MaxFailures
    /\ listener # "off"
    /\ listener' = "off"
    /\ channel' = <<>>
    /\ handling' = Absent
    /\ found' = {}
    /\ failures' = failures + 1
    /\ excused' = [i \in Items |-> excused[i] \/ Undelivered(i)]
    /\ UNCHANGED <<row, redis, request, wipe, manual, orphaned, lapsed>>

----------------------------------------------------------------------------
(* POST /invalidate/key, for any key, and POST /invalidate/tag/{tag}.         *)
Invalidate(m) ==
    /\ manual < MaxManual
    /\ manual' = manual + 1
    /\ Deliver(m)
    /\ UNCHANGED <<row, redis, listening, request, wipe, failures, history>>

(* POST /reset: KEYS, then one DEL of what it returned.                      *)
ResetScan ==
    /\ manual < MaxManual
    /\ wipe = {}
    /\ wipe' = {i \in Items : cached[i] # Absent} \cup {t \in Tags : tags[t] # {}}
    /\ manual' = manual + 1
    /\ UNCHANGED <<row, redis, channel, listening, request, failures, history>>

ResetDelete ==
    /\ wipe # {}
    /\ wipe' = {}
    /\ Forget(wipe \cap Items, wipe \cap Tags)
    /\ orphaned' = [i \in Items |-> orphaned[i] \/ LosesTag(i, wipe \cap Tags)]
    /\ UNCHANGED <<row, channel, listening, request, bounds, excused, lapsed>>

(* Time passes, and keys expire, but for a set that no EXPIRE has reached.   *)
Less(n) == IF n = 0 THEN 0 ELSE n - 1

Lapses(i) ==
    /\ ttl[i] > 1
    /\ \E r \in Gets :
           /\ item[r] = i /\ stage[r] = "expire"
           /\ i \in tags[Head(untagged[r])] /\ tagTtl[Head(untagged[r])] = 1

Tick ==
    /\ \/ \E i \in Items : ttl[i] > 0
       \/ \E t \in Tags : tagTtl[t] > 0
    /\ ttl' = [i \in Items |-> Less(ttl[i])]
    /\ cached' = [i \in Items |-> IF ttl[i] <= 1 THEN Absent ELSE cached[i]]
    /\ tagTtl' = [t \in Tags |-> Less(tagTtl[t])]
    /\ tags' = [t \in Tags |-> IF tagTtl[t] = 1 THEN {} ELSE tags[t]]
    /\ lapsed' = [i \in Items |-> lapsed[i] \/ Lapses(i)]
    /\ UNCHANGED <<row, channel, listening, request, wipe, bounds, excused, orphaned>>

(* The process restarts: the rows are the seeded ones again, Redis keeps the *)
(* entries, and what was published meanwhile is lost.                        *)
Restart ==
    /\ failures < MaxFailures
    /\ failures' = failures + 1
    /\ row' = [i \in Items |-> Seed]
    /\ channel' = <<>>
    /\ listener' = "starting"
    /\ handling' = Absent
    /\ found' = {}
    /\ stage' = [r \in Callers |-> IF stage[r] = "new" THEN "new" ELSE "done"]
    /\ val' = [r \in Callers |-> Seed]
    /\ untagged' = [r \in Callers |-> <<>>]
    /\ wipe' = {}
    /\ excused' = [i \in Items |-> TRUE]
    /\ orphaned' = [i \in Items |->
            orphaned[i] \/ \E r \in Gets : item[r] = i /\ stage[r] \in {"tag", "expire"}]
    /\ UNCHANGED <<redis, item, manual, lapsed>>

Continue(r) ==
    \/ Load(r) \/ Fill(r) \/ Register(r) \/ Prolong(r) \/ Answer(r)
    \/ Publish(r)
Listen ==
    \/ Subscribe \/ Receive \/ DeleteKey
    \/ ReadTag \/ DeleteEntries \/ DeleteSet

EDNext ==
    \/ \E r \in Gets : ReadHit(r) \/ ReadMiss(r)
    \/ \E r \in Puts : Update(r)
    \/ \E r \in Callers : Continue(r) \/ Raise(r)
    \/ Listen
    \/ ListenerFails
    \/ \E m \in Messages : Invalidate(m)
    \/ ResetScan \/ ResetDelete
    \/ Tick
    \/ Restart

EDSpec == EDInit /\ [][EDNext]_edVars

----------------------------------------------------------------------------
EDTypeOK ==
    /\ row \in [Items -> Rows]
    /\ cached \in [Items -> Rows \cup {Absent}]
    /\ ttl \in [Items -> 0 .. TTL]
    /\ tags \in [Tags -> SUBSET Items]
    /\ tagTtl \in [Tags -> 0 .. TTL + SLACK]
    /\ channel \in Seq(Messages)
    /\ listener \in {"starting", "idle", "key", "tag", "entries", "set", "off"}
    /\ handling \in Names \cup {Absent}
    /\ found \subseteq Items
    /\ stage \in [Callers -> {"new", "load", "fill", "tag", "expire", "publish", "done"}]
    /\ item \in [Callers -> Items]
    /\ val \in [Callers -> Rows]
    /\ untagged \in [Callers -> Seq(Tags)]
    /\ wipe \subseteq Names
    /\ manual \in 0 .. MaxManual
    /\ failures \in 0 .. MaxFailures
    /\ excused \in [Items -> BOOLEAN]
    /\ orphaned \in [Items -> BOOLEAN]
    /\ lapsed \in [Items -> BOOLEAN]

(* A stale entry is about to be invalidated: a PUT has yet to publish its    *)
(* key, or the key is on its way to the listener or in its hands. Otherwise  *)
(* the entry was stored outdated, by a GET that a PUT overtook, or its       *)
(* invalidation was lost, with the listener or the process.                  *)
Coherent(i) == cached[i] \in {Absent, row[i]}
Unpublished(i) == \E r \in Puts : item[r] = i /\ stage[r] = "publish"

StaleIsPending ==
    \A i \in Items :
        Coherent(i) \/ excused[i] \/ Unpublished(i) \/ Undelivered(i)

(* An entry that a tag does not lead to lost the tag to a deletion that      *)
(* raced its registration, was never registered to the end, or was added to  *)
(* a set that ended before the EXPIRE which follows the SADD. Once that      *)
(* EXPIRE is through, expiry takes no tag from a living entry: the sets      *)
(* outlive the entries.                                                      *)
Registering(i) == \E r \in Gets : item[r] = i /\ stage[r] \in {"tag", "expire"}
Listed(i) == \A t \in Range(TagsOf[i]) : i \in tags[t]

TagsReachEntries ==
    \A i \in Items :
        cached[i] # Absent => Listed(i) \/ Registering(i) \/ orphaned[i] \/ lapsed[i]
============================================================================
