-------------------------------- MODULE Settings --------------------------------
(***************************************************************************)
(* What one user keeps in ui_settings (repositories/settings_repo.py).     *)
(* Saved views, alert rules and notifications are lists, one JSON row      *)
(* each; every operation loads it, changes its copy and writes the whole   *)
(* row back, so requests and the alert task interleave between the two.    *)
(* The secret of an external push channel is stored encrypted under the    *)
(* key of the environment, or as plain text without one; it is shown to    *)
(* the browser as a placeholder, which a form left alone sends back and    *)
(* which then means "as before".                                           *)
(***************************************************************************)
EXTENDS Integers, Sequences

CONSTANTS Ids,     \* ids of views and rules, dedupe keys of notifications
          Procs,   \* requests and tasks
          Cap,     \* max_items of a save: 500 notifications, 200 of the others
          MaxOps,  \* bound on the operations begun
          Secrets, \* secrets users type in
          EnvKeys  \* values EXTERNAL_PUSH_SECRET_KEY takes over restarts

VARIABLES items,  \* the stored rows
          call,   \* what each process is in the middle of
          events, \* notify operations begun, by id
          begun,  \* operations begun
          ideal,  \* what the rows would be were each operation one step
          clean,  \* lists of which no two operations have overlapped
          key,    \* the environment's key, or "none"
          stored, \* the secret of the channel: [form, value, under]
          typed,  \* the last secret typed in
          ruined  \* since then, an untouched form was saved under another key

listVars == <<items, call, events, begun, ideal, clean>>
secretVars == <<key, stored, typed, ruined>>
vars == <<listVars, secretVars>>

Kinds == {"views", "rules", "notes"}
Ops == [views |-> {"view", "delete"}, rules |-> {"rule", "delete", "trigger"}, notes |-> {"notify", "read", "unread"}]
\* enabled in a payload: set, cleared, or left out
Choices == {"on", "off", "keep"}
Idle == [at |-> "idle", kind |-> "rules", op |-> "delete", id |-> "", value |-> "keep", copy |-> <<>>]

New(id) == [id |-> id, on |-> "on", mark |-> FALSE, count |-> 0]
HasId(list, id) == \E i \in DOMAIN list : list[i].id = id
First(list, id) == CHOOSE i \in DOMAIN list : list[i].id = id /\ \A j \in 1..i-1 : list[j].id # id
BaseOf(list, id) == IF HasId(list, id) THEN list[First(list, id)] ELSE New(id)

\* [item for item in items if the id is another one]
Without(list, id) ==
    LET kept[n \in 0..Len(list)] == IF n = 0 THEN <<>>
                                    ELSE IF list[n].id = id THEN kept[n - 1] ELSE Append(kept[n - 1], list[n])
    IN kept[Len(list)]

\* upsert_saved_view: the new item goes to the head, in place of the old one.
ViewUpserted(list, id) == <<BaseOf(list, id)>> \o Without(list, id)

\* upsert_alert_rule: fields the payload leaves out, and last_triggered_at, stay.
RuleUpserted(list, id, v) ==
    LET base == BaseOf(list, id)
    IN <<[base EXCEPT !.on = IF v = "keep" THEN @ ELSE v]>> \o Without(list, id)

\* upsert_notification: the one with the dedupe key keeps its read mark and is
\* counted once more.
SlipNoted(list, id) ==
    LET base == BaseOf(list, id) IN <<[base EXCEPT !.count = @ + 1]>> \o list
Noted(list, id) ==
    LET base == BaseOf(list, id) IN <<[base EXCEPT !.count = @ + 1]>> \o Without(list, id)

\* mark_notification_read and update_alert_rule_trigger_state change the first
\* item of the id in place.
Marked(list, id, m) == IF HasId(list, id) THEN [list EXCEPT ![First(list, id)].mark = m] ELSE list

Changed(list, op, id, v) == CASE op = "view" -> ViewUpserted(list, id)
                              [] op = "rule" -> RuleUpserted(list, id, v)
                              [] op = "notify" -> Noted(list, id)
                              [] op = "delete" -> Without(list, id)
                              [] op \in {"trigger", "read"} -> Marked(list, id, TRUE)
                              [] op = "unread" -> Marked(list, id, FALSE)

\* An operation on an item that is not there writes nothing.
Writes(list, op, id) == op \in {"view", "rule", "notify"} \/ HasId(list, id)

Shortened(list) == SubSeq(list, 1, IF Len(list) < Cap THEN Len(list) ELSE Cap)

ListInit ==
    /\ items = [k \in Kinds |-> <<>>]
    /\ call = [p \in Procs |-> Idle]
    /\ events = [id \in Ids |-> 0]
    /\ begun = 0
    /\ ideal = [k \in Kinds |-> <<>>]
    /\ clean = Kinds

Load(p, k, op, id, v) ==
    /\ call[p].at = "idle"
    /\ begun < MaxOps
    /\ begun' = begun + 1
    /\ events' = IF op = "notify" THEN [events EXCEPT ![id] = @ + 1] ELSE events
    /\ call' = IF Writes(items[k], op, id)
               THEN [call EXCEPT ![p] = [at |-> "save", kind |-> k, op |-> op, id |-> id, value |-> v, copy |-> items[k]]]
               ELSE call
    /\ clean' = IF \E q \in Procs : call[q].at = "save" /\ call[q].kind = k THEN clean \ {k} ELSE clean
    /\ UNCHANGED <<items, ideal>>

\* _save_user_setting_list: the copy as it was loaded, changed and cut to Cap.
Save(p) ==
    LET c == call[p] IN
    /\ c.at = "save"
    /\ items' = [items EXCEPT ![c.kind] = Shortened(Changed(c.copy, c.op, c.id, c.value))]
    /\ ideal' = [ideal EXCEPT ![c.kind] = Shortened(Changed(@, c.op, c.id, c.value))]
    /\ call' = [call EXCEPT ![p] = Idle]
    /\ UNCHANGED <<events, begun, clean>>

\* The request dies between the load and the save: the row stays as it was.
Die(p) == /\ call[p].at = "save"
          /\ call' = [call EXCEPT ![p] = Idle]
          /\ UNCHANGED <<items, events, begun, ideal, clean>>

ListNext == \E p \in Procs :
    \/ \E k \in Kinds, id \in Ids : \E op \in Ops[k], v \in Choices : (v = "keep" \/ op = "rule") /\ Load(p, k, op, id, v)
    \/ Save(p) \/ Die(p)

-------------------------------------------------------------------------------
Empty == ""
Placeholder == "***configured***"
Plain(v) == [form |-> "plain", value |-> v, under |-> "none"]

\* _encrypt_external_push_secret; without a key the value is stored as it is.
Sealed(v) == IF key = "none" THEN Plain(v) ELSE [form |-> "sealed", value |-> v, under |-> key]

\* _decrypt_external_push_secret: nothing comes out under another key.
Opened(s) == IF s.form = "plain" \/ s.under = key THEN s.value ELSE Empty

\* _external_push_channel_for_read for the browser, with the redaction.
Shown(s) == IF s.form = "sealed" \/ s.value # Empty THEN Placeholder ELSE Empty

\* _external_push_payload_config: the placeholder leaves the base as it is.
Merged(base, v) == IF v = Placeholder THEN base ELSE v

SecretInit ==
    /\ key \in EnvKeys \cup {"none"}
    /\ stored = Plain(Empty)
    /\ typed = Empty
    /\ ruined = FALSE

\* A restart with another environment.
Rekey == /\ key' \in (EnvKeys \cup {"none"}) \ {key}
         /\ UNCHANGED <<stored, typed, ruined>>

\* upsert_external_push_channel: the base is what the stored secret opens to; the
\* result is sealed anew.  The form sends what was typed, or what it was shown.
Edit == \E v \in Secrets \cup {Empty, Shown(stored)} :
            /\ stored' = Sealed(Merged(Opened(stored), v))
            /\ typed' = IF v = Placeholder THEN typed ELSE v
            /\ ruined' = (v = Placeholder /\ (ruined \/ Opened(stored) # typed))
            /\ UNCHANGED key

SecretNext == Rekey \/ Edit

Init == ListInit /\ SecretInit
Next == (ListNext /\ UNCHANGED secretVars) \/ (SecretNext /\ UNCHANGED listVars)

Spec == Init /\ [][Next]_vars

-------------------------------------------------------------------------------
Item == [id : Ids, on : {"on", "off"}, mark : BOOLEAN, count : Nat]
TypeOK ==
    /\ \A k \in Kinds : items[k] \in Seq(Item) /\ Len(items[k]) <= Cap
    /\ \A p \in Procs : call[p].at \in {"idle", "save"} /\ call[p].copy \in Seq(Item)
    /\ events \in [Ids -> Nat] /\ begun \in 0..MaxOps /\ clean \subseteq Kinds

(* No list ever holds two items with one id or dedupe key, whatever stale     *)
(* copies are written back.                                                    *)
UniqueItems == \A k \in Kinds : \A i, j \in DOMAIN items[k] : items[k][i].id = items[k][j].id => i = j

(* occurrence_count may lose an event to an overlapping save but never counts  *)
(* one that did not happen.                                                    *)
CountsAreReal == \A i \in DOMAIN items["notes"] : items["notes"][i].count <= events[items["notes"][i].id]

(* A list no two operations of which overlapped is what the operations make of *)
(* it one after the other, whatever overlapped on the other lists and whoever  *)
(* died half way.                                                              *)
SerialListIsExact == \A k \in clean : items[k] = ideal[k]

(* The secret a dispatch reads is the one last typed in, through any number of *)
(* forms sent back untouched and restarts, as long as the key is that of the   *)
(* last save and no untouched form was saved while the key was another one.    *)
SecretSurvivesEdits == (~ruined /\ stored.under \in {"none", key}) => Opened(stored) = typed
===============================================================================
