---------------------------- MODULE DisplayQueue ----------------------------
(***************************************************************************)
(* The overlay page behind the transport (OverlayClient): the queue of     *)
(* cards, the chain of timers that shows them one after the other, the     *)
(* sound of a draw, and the reload to a new build, which waits for a quiet *)
(* moment.  The page's own polling loop is left out: the transport says    *)
(* "connected" when it starts and never takes it back.  Durations are left *)
(* open: a timer that is armed may fire at any time.                       *)
(***************************************************************************)
EXTENDS Naturals, FiniteSets, SequencesExt

CONSTANTS Batch,       \* draws of one redemption, the sound groups
          Size,        \* cards of a batch
          Version,     \* builds that are deployed
          MaxRecords,  \* MAX_RELOAD_COOLDOWN_RECORDS
          MaxThrows,   \* bound: exceptions while a card is prepared or shown
          MaxSwitches, \* bound: changes of the streamer in the same page
          MaxLapses    \* bound: cooldowns that run out

VARIABLES
    p,            \* the refs and the state of the page
    records,      \* session storage: builds reloaded to, oldest first
    left,         \* cards of a batch that have not arrived
    came,         \* history: number of cards that arrived
    shown,        \* history: cards that came on the screen, in order
    gone,         \* history: cards given up, or cleared by a switch
    reloads,      \* history: reloads to each build
    throws, lapses

vars == <<p, records, left, came, shown, gone, reloads, throws, lapses>>

None == "none"
Card == [nr : 1..(Size * Cardinality(Batch)), batch : Batch, sound : BOOLEAN]
Task == [kind : {"image", "show", "hide", "next"}, card : Card,
         gen : 0..MaxSwitches]
      \cup [kind : {"retry"}]

TypeOK ==
    /\ p \in [queue : Seq(Card), displaying : BOOLEAN, tasks : SUBSET Task,
              anim : SUBSET Task, card : SUBSET Card,
              visible : BOOLEAN, gen : 0..MaxSwitches, played : SUBSET Batch,
              sounding : BOOLEAN, sounds : [Batch -> Nat],
              version : Version, scheduled : BOOLEAN, timer : BOOLEAN,
              target : Version \cup {None}]
    /\ p.timer => p.scheduled /\ p.target # None
    /\ records \in Seq([version : Version, fresh : BOOLEAN])
    /\ left \in [Batch -> 0..Size] /\ came \in Nat
    /\ shown \in Seq(Nat) /\ gone \subseteq 1..came
    /\ reloads \in [Version -> Nat]
    /\ throws \in 0..MaxThrows /\ lapses \in 0..MaxLapses

Loaded(version) ==
    [queue |-> <<>>, displaying |-> FALSE, tasks |-> {}, anim |-> {},
     card |-> {}, visible |-> FALSE, gen |-> 0, played |-> {},
     sounding |-> FALSE, sounds |-> [b \in Batch |-> 0],
     version |-> version, scheduled |-> FALSE, timer |-> FALSE,
     target |-> None]

Init ==
    /\ \E v \in Version : p = Loaded(v)
    /\ records = <<>> /\ left = [b \in Batch |-> Size] /\ came = 0
    /\ shown = <<>> /\ gone = {} /\ reloads = [v \in Version |-> 0]
    /\ throws = 0 /\ lapses = 0
-----------------------------------------------------------------------------
(* Mutant: the queue goes idle without giving the lock back.               *)
ProcessedLocked(q) ==
    IF q.queue = <<>> THEN q
    ELSE [q EXCEPT !.queue = Tail(@), !.displaying = TRUE,
                   !.tasks = @ \cup {[kind |-> "image", card |-> Head(q.queue),
                                      gen |-> q.gen]}]
\* processQueue, up to its wait for the image
Processed(q) ==
    IF q.queue = <<>> THEN [q EXCEPT !.displaying = FALSE]
    ELSE [q EXCEPT !.queue = Tail(@), !.displaying = TRUE,
                   !.tasks = @ \cup {[kind |-> "image", card |-> Head(q.queue),
                                      gen |-> q.gen]}]

\* The chain goes on with the next timer, whose handle is kept.
Chained(q, t, kind) ==
    LET n == [t EXCEPT !.kind = kind]
    IN  [q EXCEPT !.tasks = (@ \ {t}) \cup {n}, !.anim = {n}]

\* handleQueueError
Caught(q, t) == [q EXCEPT !.tasks = (@ \ {t}) \cup {[kind |-> "retry"]}]

(* A batch arrives, whole or as the part that a page of the history holds; *)
(* at most one card of what arrives bears the sound.                       *)
Arrive(b, k, s) ==
    LET cards == [i \in 1..k |-> [nr |-> came + i, batch |-> b, sound |-> i = s]]
        q     == [p EXCEPT !.queue = @ \o cards]
    IN  /\ p' = IF p.displaying THEN q ELSE Processed(q)
        /\ came' = came + k /\ left' = [left EXCEPT ![b] = @ - k]
        /\ UNCHANGED <<records, shown, gone, reloads, throws, lapses>>

(* The image is loaded, failed, too slow, or cancelled by a cleanup.       *)
ImageReady(t) ==
    /\ t.kind = "image"
    /\ p' = IF t.gen # p.gen THEN [p EXCEPT !.tasks = @ \ {t}]
            ELSE Chained([p EXCEPT !.card = {t.card}, !.visible = FALSE],
                         t, "show")
    /\ UNCHANGED <<records, left, came, shown, gone, reloads, throws, lapses>>

\* playGachaSound
Sounded(q, b) ==
    [q EXCEPT !.played = @ \cup {b}, !.sounding = TRUE, !.sounds[b] = @ + 1]
Show(t) ==
    /\ t.kind = "show"
    /\ p' = LET q == [p EXCEPT !.visible = TRUE]
            IN  Chained(IF t.card.sound /\ t.card.batch \notin p.played
                        THEN Sounded(q, t.card.batch) ELSE q,
                        t, "hide")
    /\ shown' = Append(shown, t.card.nr)
    /\ UNCHANGED <<records, left, came, gone, reloads, throws, lapses>>

Hide(t) ==
    /\ t.kind = "hide"
    /\ p' = Chained([p EXCEPT !.visible = FALSE], t, "next")
    /\ UNCHANGED <<records, left, came, shown, gone, reloads, throws, lapses>>

\* The card is taken off, or one was given up: on to the next of the queue.
GoOn(t) ==
    /\ t.kind \in {"next", "retry"}
    /\ p' = Processed([p EXCEPT !.tasks = @ \ {t},
                                !.card = IF t.kind = "next" THEN {} ELSE @])
    /\ UNCHANGED <<records, left, came, shown, gone, reloads, throws, lapses>>

(* An exception before the card is set, or at the choice of its sound.     *)
Throw(t) ==
    /\ t.kind \in {"image", "show"} /\ (t.kind = "image" => t.gen = p.gen)
    /\ throws < MaxThrows /\ throws' = throws + 1
    /\ p' = Caught(IF t.kind = "show"
                   THEN [p EXCEPT !.visible = TRUE,
                                  !.played = IF t.card.sound
                                             THEN @ \cup {t.card.batch} ELSE @]
                   ELSE p, t)
    /\ gone' = gone \cup {t.card.nr}
    /\ UNCHANGED <<records, left, came, shown, reloads, lapses>>

\* The sound ends, or its expected end passes.
SoundEnds ==
    /\ p.sounding /\ p' = [p EXCEPT !.sounding = FALSE]
    /\ UNCHANGED <<records, left, came, shown, gone, reloads, throws, lapses>>

(* The streamer of the page changes: the cleanups of its two effects.      *)
(* What is left of the old streamer's batches does not arrive any more.    *)
Switch ==
    /\ p.gen < MaxSwitches
    /\ p' = [p EXCEPT !.gen = @ + 1, !.queue = <<>>, !.displaying = FALSE,
                      !.played = {}, !.sounds = [b \in Batch |-> 0],
                      !.tasks = @ \ p.anim, !.anim = {}, !.timer = FALSE]
    /\ left' = [b \in Batch |-> IF left[b] < Size THEN 0 ELSE left[b]]
    /\ gone' = gone \cup (1..came \ ToSet(shown))
    /\ UNCHANGED <<records, came, shown, reloads, throws, lapses>>
-----------------------------------------------------------------------------
\* checkOverlayVersion: an answer of the config or the history names a build.
Report(v) ==
    /\ v # p.version /\ ~p.scheduled
    /\ p' = [p EXCEPT !.scheduled = TRUE, !.timer = TRUE, !.target = v]
    /\ UNCHANGED <<records, left, came, shown, gone, reloads, throws, lapses>>

(* Mutant: only a card that is on the screen defers the reload.            *)
MidDisplayVisible == p.visible
MidDisplay == p.displaying \/ p.queue # <<>> \/ p.visible \/ p.sounding

CooledDown == \A i \in DOMAIN records :
    records[i].version = p.target => ~records[i].fresh

\* upsertReloadCooldownRecord
Upserted(v) ==
    LET rs == Append(SelectSeq(records, LAMBDA r : r.version # v),
                     [version |-> v, fresh |-> TRUE])
    IN  IF Len(rs) > MaxRecords THEN Tail(rs) ELSE rs

\* attemptReload during a display: the timer is armed again.
Defer == /\ p.timer /\ MidDisplay /\ UNCHANGED vars

\* attemptReload within the cooldown of the build
Skip ==
    /\ p.timer /\ ~MidDisplay /\ ~CooledDown
    /\ p' = [p EXCEPT !.scheduled = FALSE, !.timer = FALSE]
    /\ UNCHANGED <<records, left, came, shown, gone, reloads, throws, lapses>>

\* attemptReload: while a deployment rolls, any build may answer.
Reload ==
    /\ p.timer /\ ~MidDisplay /\ CooledDown
    /\ \E v \in Version : p' = [Loaded(v) EXCEPT !.gen = p.gen]
    /\ records' = Upserted(p.target)
    /\ reloads' = [reloads EXCEPT ![p.target] = @ + 1]
    /\ UNCHANGED <<left, came, shown, gone, throws, lapses>>

\* RELOAD_COOLDOWN_MS pass for the oldest record.
Lapse ==
    /\ lapses < MaxLapses /\ lapses' = lapses + 1
    /\ \E i \in DOMAIN records :
        /\ records[i].fresh /\ \A j \in 1..(i - 1) : ~records[j].fresh
        /\ records' = [records EXCEPT ![i].fresh = FALSE]
    /\ UNCHANGED <<p, left, came, shown, gone, reloads, throws>>

Fire(t) == ImageReady(t) \/ Show(t) \/ Hide(t) \/ GoOn(t)
Next ==
    \/ \E b \in Batch : \E k \in 1..left[b] : \E s \in 0..k : Arrive(b, k, s)
    \/ \E t \in p.tasks : Fire(t) \/ Throw(t)
    \/ SoundEnds \/ Switch \/ Defer \/ Skip \/ Reload \/ Lapse
    \/ \E v \in Version : Report(v)

Spec == Init /\ [][Next]_vars
-----------------------------------------------------------------------------
Live == {t \in p.tasks : t.kind = "image" => t.gen = p.gen}

(* One card is shown at a time: the lock isDisplaying is held exactly      *)
(* while one chain of timers is under way, and cards wait only under it.   *)
(* A lock that stays without a chain silences the page for good (issue     *)
(* 999); a chain without the lock shows two cards over each other.         *)
OneChain ==
    /\ Cardinality(Live) = IF p.displaying THEN 1 ELSE 0
    /\ p.queue # <<>> => p.displaying

(* Cards come on the screen in the order in which they arrived, each once. *)
ShownInOrder ==
    \A i \in 1..(Len(shown) - 1) : shown[i] < shown[i + 1]

(* The sound of a batch is played once, also when its cards arrive in      *)
(* several parts, each with a card that bears the sound.                   *)
SoundOnce == \A b \in Batch : p.sounds[b] <= 1

(* A reload takes no card away: whatever has arrived was shown before, or  *)
(* given up.                                                               *)
ReloadsQuietly ==
    reloads' # reloads => /\ 1..came \subseteq ToSet(shown) \cup gone
                          /\ ~p.visible /\ Live = {}

(* While a deployment rolls and two builds answer in turn, the page is     *)
(* reloaded to each once, and again only after a cooldown.                 *)
ReloadBounded == \A v \in Version : reloads[v] <= 1 + lapses

=============================================================================
