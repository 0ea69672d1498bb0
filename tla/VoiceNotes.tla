----------------------------- MODULE VoiceNotes -----------------------------
(***************************************************************************)
(* Voice notes of a chat: announced, transcribed outside of the event      *)
(* loop, and handed to the message handler as a message; until then a      *)
(* reply of /clear cancels them.                                           *)
(*                                                                         *)
(* Sources: messaging/voice.py, the voice handlers of                      *)
(* messaging/platforms/telegram.py and discord.py, /clear in               *)
(* messaging/commands.py, and what messaging/handler.py does with a        *)
(* message until it is a node of a tree.                                   *)
(*                                                                         *)
(* Granularity.  An action runs from one suspension of a coroutine to the  *)
(* next.  The registry's lock is never held across a suspension, so taking *)
(* it never suspends, and asking for a note and completing it is one step. *)
(* A node of a tree is a node of TreeQueue; here it can only be cleared.   *)
(*                                                                         *)
(* No name is one of Transcript's: ChatProofs extends both.                *)
(***************************************************************************)
EXTENDS FiniteSets

CONSTANTS
    Notes,      \* voice messages
    Platforms   \* of "telegram" and "discord"

ASSUME PlatformsAssumption == Platforms \subseteq {"telegram", "discord"}

VARIABLES
    platform,   \* the platform of the chat
    stage,      \* where the handler of a note is, or how it ended
    chat,       \* messages in the chat that are still there
    pending,    \* the keys of _pending; an entry is of the note of its key
    cancelled,  \* history: notes that a command was told it has cancelled
    missed,     \* history: where a note was, and whether it was cancelled, when a command
                \* was told that there is nothing to clear
    clearing,   \* messages that commands of /clear go on to delete
    wiping,     \* the messages a global /clear goes on to delete
    undeleted   \* history: messages whose deletion has failed

voiceVars == <<platform, stage, chat, pending, cancelled, missed, clearing, wiping,
               undeleted>>

Voice(n) == <<"voice", n>>
Status(n) == <<"status", n>>
Pair(n) == {Voice(n), Status(n)}
Messages == UNION {Pair(n) : n \in Notes}

\* A global /clear is not under way.
NoWipe == {<<"none", "none">>}

Stages == {"unsent", "announcing", "announced", "transcribing", "handed", "discarding",
           "refused", "node", "cleared", "dropped", "failed"}
Working == {"announcing", "announced", "transcribing", "handed", "discarding"}

VoiceTypeOK ==
    /\ platform \in Platforms
    /\ stage \in [Notes -> Stages]
    /\ chat \subseteq Messages /\ pending \subseteq Messages
    /\ cancelled \subseteq Notes /\ missed \subseteq Stages \X BOOLEAN
    /\ clearing \subseteq Messages
    /\ wiping \in (SUBSET Messages) \cup {NoWipe}
    /\ undeleted \subseteq Messages

VoiceInit ==
    /\ platform \in Platforms
    /\ stage = [n \in Notes |-> "unsent"]
    /\ chat = {} /\ pending = {} /\ cancelled = {} /\ missed = {}
    /\ clearing = {} /\ wiping = NoWipe /\ undeleted = {}

Goes(n, to) == stage' = [stage EXCEPT ![n] = to]

\* Messages are deleted as far as the platform lets the bot: a failure is swallowed.
Delete(messages) ==
    \E failed \in SUBSET (messages \cap chat) :
        /\ chat' = chat \ (messages \ failed)
        /\ undeleted' = undeleted \cup failed

-----------------------------------------------------------------------------
(* The registry.                                                           *)

register(n) == pending' = pending \cup Pair(n)

complete(n) == pending' = pending \ Pair(n)

\* Mutant: only the key that was asked for is taken out.
MutantCancel(m) == m \in pending /\ pending' = pending \ {m}

\* cancel, of an entry that is there.
cancel(m) == m \in pending /\ pending' = pending \ Pair(m[2])

\* Mutant: nobody asks whether the note was cancelled meanwhile.
MutantIsPending(n) == TRUE

is_pending(n) == Voice(n) \in pending

-----------------------------------------------------------------------------
(* A note.                                                                 *)

\* Telegram's updates are handled one after the other, Discord's concurrently.
Free ==
    platform = "telegram" =>
        /\ \A n \in Notes : stage[n] \notin Working
        /\ clearing = {} /\ wiping = NoWipe

\* A voice message is sent.  Its status message is asked for, unless voice notes are
\* disabled or the sender or the channel is not allowed.
_on_telegram_voice(n) ==
    /\ stage[n] = "unsent" /\ Free
    /\ \E to \in {"announcing", "refused"} : Goes(n, to)
    /\ chat' = chat \cup {Voice(n)}
    /\ UNCHANGED <<platform, pending, cancelled, missed, clearing, wiping, undeleted>>

\* The limiter has sent the status message, or could not.
StatusSent(n) ==
    /\ stage[n] = "announcing"
    /\ \/ Goes(n, "announced") /\ chat' = chat \cup {Status(n)}
       \/ Goes(n, "refused") /\ UNCHANGED chat
    /\ UNCHANGED <<platform, pending, cancelled, missed, clearing, wiping, undeleted>>

\* The handler goes on: the note is registered and a thread gets to transcribe it.
StartTranscription(n) ==
    /\ stage[n] = "announced" /\ Goes(n, "transcribing")
    /\ register(n)
    /\ UNCHANGED <<platform, chat, cancelled, missed, clearing, wiping, undeleted>>

\* The text is there: it is handed on as a message, if nobody has cancelled the note.
Transcribed(n) ==
    /\ stage[n] = "transcribing"
    /\ IF is_pending(n)
         THEN Goes(n, "handed") /\ complete(n)
         ELSE Goes(n, "discarding") /\ UNCHANGED pending
    /\ UNCHANGED <<platform, chat, cancelled, missed, clearing, wiping, undeleted>>

\* The status message of a cancelled note is deleted.
Discard(n) ==
    /\ stage[n] = "discarding" /\ Goes(n, "dropped")
    /\ Delete({Status(n)})
    /\ UNCHANGED <<platform, pending, cancelled, missed, clearing, wiping>>

\* The download or the transcription fails: the user is told, the registry is not.
TranscriptionFails(n) ==
    /\ stage[n] = "transcribing" /\ Goes(n, "failed")
    /\ UNCHANGED <<platform, chat, pending, cancelled, missed, clearing, wiping, undeleted>>

\* The status message is edited, or cannot be: the message becomes a node of a tree.
handle_message(n) ==
    /\ stage[n] = "handed"
    /\ \E to \in {"node", "failed"} : Goes(n, to)
    /\ UNCHANGED <<platform, chat, pending, cancelled, missed, clearing, wiping, undeleted>>

-----------------------------------------------------------------------------
(* Commands.                                                               *)

\* What a command may reply to: messages that have been in the chat.
Replyable(m) ==
    stage[m[2]] \notin {"unsent"} \cup (IF m = Status(m[2]) THEN {"announcing", "refused"}
                                                            ELSE {})

\* Mutant: only the message that was replied to is deleted.
MutantToDelete(m) == {m}

\* The messages of a cancelled note that a command deletes.
ToDelete(m) == Pair(m[2])

\* /clear in reply to a message that is in no tree, but that of a pending note.
ClearPending(m) ==
    /\ Free /\ Replyable(m) /\ stage[m[2]] # "node"
    /\ cancel(m)
    /\ cancelled' = cancelled \cup {m[2]}
    /\ clearing' = clearing \cup ToDelete(m)
    /\ UNCHANGED <<platform, stage, chat, missed, wiping, undeleted>>

\* /clear in reply to a message that is unknown.
ClearNothing(m) ==
    /\ Free /\ Replyable(m) /\ stage[m[2]] # "node"
    /\ m \notin pending
    /\ missed' = missed \cup {<<stage[m[2]], m[2] \in cancelled>>}
    /\ UNCHANGED <<platform, stage, chat, pending, cancelled, clearing, wiping, undeleted>>

\* /clear in reply to a message of a tree: the branch goes, with its messages.
_handle_clear_branch(m) ==
    /\ Free /\ stage[m[2]] = "node" /\ Goes(m[2], "cleared")
    /\ clearing' = clearing \cup Pair(m[2])
    /\ UNCHANGED <<platform, chat, pending, cancelled, missed, wiping, undeleted>>

\* A command's messages are deleted, best-effort.
_delete_message_ids ==
    /\ clearing # {} /\ clearing' = {}
    /\ Delete(clearing)
    /\ UNCHANGED <<platform, stage, pending, cancelled, missed, wiping>>

\* A global /clear collects the messages it knows: of the notes that were handed on the
\* voice messages are in the log, and both of those in the trees.
GlobalClear ==
    /\ Free /\ wiping = NoWipe
    /\ wiping' = {Voice(n) : n \in {k \in Notes : stage[k] \in {"handed", "node"}}}
                   \cup {Status(n) : n \in {k \in Notes : stage[k] = "node"}}
    /\ UNCHANGED <<platform, stage, chat, pending, cancelled, missed, clearing, undeleted>>

\* It deletes them, and puts new, empty trees in the place of the old ones.
ReplaceTrees ==
    /\ wiping # NoWipe /\ wiping' = NoWipe
    /\ Delete(wiping)
    /\ stage' = [n \in Notes |-> IF stage[n] = "node" THEN "cleared" ELSE stage[n]]
    /\ UNCHANGED <<platform, pending, cancelled, missed, clearing>>

Handles(n) == StatusSent(n) \/ StartTranscription(n) \/ Discard(n) \/ handle_message(n)

VoiceNext ==
    \/ \E n \in Notes :
         \/ _on_telegram_voice(n) \/ Handles(n)
         \/ Transcribed(n) \/ TranscriptionFails(n)
    \/ \E m \in Messages : ClearPending(m) \/ ClearNothing(m) \/ _handle_clear_branch(m)
    \/ _delete_message_ids \/ GlobalClear \/ ReplaceTrees

VoiceSpec == VoiceInit /\ [][VoiceNext]_voiceVars

\* Handlers and commands go on, and a transcription ends one way or the other.
FairSpec ==
    /\ VoiceSpec
    /\ \A n \in Notes : /\ WF_voiceVars(Handles(n))
                        /\ WF_voiceVars(Transcribed(n) \/ TranscriptionFails(n))
    /\ WF_voiceVars(_delete_message_ids) /\ WF_voiceVars(ReplaceTrees)

-----------------------------------------------------------------------------
(* Properties.                                                             *)

\* What the user is told of a /clear is true.  A note that is said to be cancelled never
\* reaches the message handler, whenever its transcription ends; and that there is nothing to
\* clear is said of a note that is still under way, and not cancelled, in two gaps only:
\* before it is registered, and between the registry, which has completed it, and the trees,
\* which do not have it yet.  On Telegram a /clear waits for the note that is being handled
\* (commands.py handle_clear_command).
ClearKeepsItsWord ==
    /\ \A n \in cancelled : stage[n] \notin {"handed", "node", "cleared"}
    /\ \A miss \in missed : miss # <<"transcribing", FALSE>>
    /\ platform = "telegram" => \A miss \in missed : miss[1] \notin Working

\* The two keys of a note are there together.  A note that is being transcribed is in the
\* registry unless it was cancelled, and of all others only one that failed may be: the
\* entries it leaves are the only ones that outlive a note (voice.py register, cancel,
\* complete).
OnlyFailedStayPending ==
    \A n \in Notes :
        /\ Voice(n) \in pending <=> Status(n) \in pending
        /\ stage[n] = "transcribing" => (Voice(n) \in pending <=> n \notin cancelled)
        /\ Voice(n) \in pending => stage[n] \in {"transcribing", "failed"}

\* Every note is settled, whatever is cleared meanwhile: it is refused, handed on, or has
\* failed with a word to the user; and of one that was cancelled every message is deleted,
\* but for those whose deletion was tried and failed.
EveryNoteSettles ==
    \A n \in Notes :
        /\ stage[n] # "unsent" ~> stage[n] \notin Working
        /\ n \in cancelled ~> Pair(n) \cap chat \subseteq undeleted

=============================================================================
