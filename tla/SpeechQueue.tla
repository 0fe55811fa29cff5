----------------------------- MODULE SpeechQueue -----------------------------
(***************************************************************************)
(* SpeechQueue of app.js: the narrations the browser reads out, the urgent *)
(* ones first.  Each utterance calls back when it ends and when it is      *)
(* cancelled, and the call takes whatever is active by then for its own.   *)
(* A narration is modelled by its priority.                                *)
(***************************************************************************)
EXTENDS Naturals, Sequences, FiniteSets

CONSTANTS
    None,            \* null
    Limit            \* narrations that wait

ASSUME SpeechAssumption == Limit \in Nat \ {0}

Priorities == {"high", "normal"}

ASSUME SilenceAssumption == None \notin Priorities

VARIABLES
    voice,           \* voiceEnabled(), and the browser can speak
    items,
    active,
    utterances       \* utterances whose callback is to come

speechVars == <<voice, items, active, utterances>>

-----------------------------------------------------------------------------
\* this.items.slice(-this.limit)
Newest(q) == IF Len(q) > Limit THEN SubSeq(q, Len(q) - Limit + 1, Len(q)) ELSE q

IsHigh(p) == p = "high"

\* next(), once the other assignments have left q waiting, a active and n
\* utterances to call back.
Resume(q, a, n) ==
    \/ /\ a # None \/ q = << >>
       /\ items' = q /\ active' = a /\ utterances' = n
    \/ /\ a = None /\ q # << >>
       /\ items' = Tail(q) /\ active' = Head(q) /\ utterances' = n + 1

\* this.items.filter(x => x.priority === "high"): narrations are told apart by
\* their priority only, so that what is left is as many urgent ones as there
\* were.
Urgent(q) == [n \in 1..Cardinality({i \in DOMAIN q : IsHigh(q[i])}) |-> "high"]

\* What enqueue keeps of the queue: an urgent narration drives out the others.
KeepsAll(p) == items                                                        \* mutant
Keeps(p) == IF IsHigh(p) THEN Urgent(items) ELSE items

Enqueue(p) ==
    /\ \/ /\ voice
          /\ Resume(Newest(Append(Keeps(p), p)), IF IsHigh(p) THEN None ELSE active, utterances)
       \/ /\ ~voice
          /\ UNCHANGED <<items, active, utterances>>
    /\ UNCHANGED voice

ClearSpeech == items' = << >> /\ active' = None /\ UNCHANGED utterances

StaysActive == active                                                       \* mutant
AfterCallback == None

\* The callback of an utterance.  Without anything active, markSpoken raises.
Done ==
    /\ utterances > 0
    /\ \/ /\ active # None
          /\ Resume(items, AfterCallback, utterances - 1)
       \/ /\ active = None
          /\ utterances' = utterances - 1
          /\ UNCHANGED <<items, active>>
    /\ UNCHANGED voice

ToggleVoice ==
    /\ voice' = ~voice
    /\ IF voice THEN ClearSpeech ELSE UNCHANGED <<items, active, utterances>>

StopSpeaking == ClearSpeech /\ UNCHANGED voice

SpeechInit == voice \in BOOLEAN /\ items = << >> /\ active = None /\ utterances = 0

-----------------------------------------------------------------------------
\* As long as an urgent narration waits, an urgent one is being read and no
\* other waits before it, whichever utterances were cancelled and call back
\* late.
HighFirst ==
    \A i \in DOMAIN items : IsHigh(items[i]) =>
        active = "high" /\ \A j \in 1..i : IsHigh(items[j])

\* What waits is read out or dropped in the end.
AlwaysDrains == []<>(active = None /\ items = << >>)
=============================================================================
