------------------------------ MODULE Authoring ------------------------------
(* What an operation's author has in hand (src/src/operations.rs): a spec is    *)
(* rendered into a service and a timer file; get_operation reconstructs an      *)
(* editable spec from the files and from what systemd has enabled; authors      *)
(* change a field or two of it and update with the rest, some of them late.     *)
(* How a plan is applied is PlanApply; here it is one step.                     *)
EXTENDS Integers, SequencesExt

CONSTANTS
    Agent,
    Char,     \* what words are written with; a blank is the only whitespace
    Name,     \* what is not spelt out: units, variables, titles, restart policies, times
    None,
    Programs, \* the files there are to run; none appears or goes away
    Specs,    \* what operations are created with
    Edits,    \* the changes authors make: some fields with their new values
    MaxEdits, \* bound on the changes made and on the switches thrown
    Fitting   \* whether every update fits the units there are (Fits, below)

Network == "network-online.target"
Kind == {"simple", "oneshot", "oneshot-linger"}

ASSUME AuthoringAssumption ==
    /\ {" ", "\"", "'", "\\", "$", "%", "=", ":"} \subseteq Char
    /\ {"PATH", "unit", Network} \subseteq Name
    /\ MaxEdits \in Nat /\ Fitting \in BOOLEAN

VARIABLES
    service, \* the service file, line by line
    timer,   \* the timer file
    linked,  \* which of the two systemd has enabled
    draft,   \* the editable spec each author holds
    meant,   \* history: what each author means by it
    intent,  \* history: what the author of the last create or update meant
    edits

authoringVars == <<service, timer, linked, draft, meant, intent, edits>>

-----------------------------------------------------------------------------
(* Words, one character after the other *)

Text == Seq(Char)

\* What a loop makes of s: step[<<a, x>>] follows a at the element x.
Scanned(step, start, s) ==
    LET after[k \in 0..Len(s)] == IF k = 0 THEN start ELSE step[<<after[k - 1], s[k]>>]
    IN  after[Len(s)]

EscapedChar(c) ==
    IF c \in {"\\", "\"", "$"} THEN <<"\\", c>> ELSE IF c = "%" THEN <<"%", "%">> ELSE <<c>>

Escaped(w) == Scanned([p \in Text \X Char |-> p[1] \o EscapedChar(p[2])], <<>>, w)

\* The backquote is one more, which no string can hold here.
Quoting == {" ", "\"", "'", "\\", "$", "|", "&", ";", "(", ")", "<", ">",
            "{", "}", "[", "]", "*", "?", "#", "~", "="}

\* quote_word
QuoteWord(w) ==
    LET e == Escaped(w)
    IN  IF e = <<>> \/ ToSet(e) \cap Quoting # {} THEN <<"\"">> \o e \o <<"\"">> ELSE e

\* The words of ws, with the character c between them.
Joined(c, ws) ==
    IF ws = <<>> THEN <<>>
    ELSE Scanned([p \in Text \X Text |-> p[1] \o <<c>> \o p[2]], Head(ws), Tail(ws))

\* exec_line
ExecLine(ws) == Joined(" ", [n \in DOMAIN ws |-> QuoteWord(ws[n])])

\* A backslash or a percent sign is held until the next character is seen.
Holding == [out : Text, held : Text]
Released(acc) == acc.out \o acc.held

\* Variant of Escapes that leaves the percent signs alone.
EscapesOnce(held, c) == held = <<"\\">> /\ c \in {"\\", "$", "\""}

Escapes(held, c) ==
    (held = <<"\\">> /\ c \in {"\\", "$", "\""}) \/ (held = <<"%">> /\ c = "%")

UnescapeNext(acc, c) ==
    IF Escapes(acc.held, c) THEN [out |-> Append(acc.out, c), held |-> <<>>]
    ELSE IF c \in {"\\", "%"} THEN [out |-> Released(acc), held |-> <<c>>]
    ELSE [out |-> Append(Released(acc), c), held |-> <<>>]

\* unescape_exec_word
Unescaped(w) ==
    Released(Scanned([p \in Holding \X Char |-> UnescapeNext(p[1], p[2])],
                     [out |-> <<>>, held |-> <<>>], w))

Splitting == [words : Seq(Text), cur : Text, quoted : BOOLEAN]
Ended(acc) == IF acc.cur = <<>> THEN acc.words ELSE Append(acc.words, acc.cur)

\* Every quotation mark opens or closes, and empty words are lost.
SplitNext(acc, c) ==
    IF c = "\"" THEN [acc EXCEPT !.quoted = ~@]
    ELSE IF c = " " /\ ~acc.quoted THEN [acc EXCEPT !.words = Ended(acc), !.cur = <<>>]
    ELSE [acc EXCEPT !.cur = Append(@, c)]

\* split_exec
SplitExec(line) ==
    LET words == Ended(Scanned([p \in Splitting \X Char |-> SplitNext(p[1], p[2])],
                               [words |-> <<>>, cur |-> <<>>, quoted |-> FALSE], line))
    IN  [n \in DOMAIN words |-> Unescaped(words[n])]

Parting == [words : Seq(Text), cur : Text]
PartNext(acc, c) ==
    IF c = ":" THEN [words |-> Append(acc.words, acc.cur), cur |-> <<>>]
    ELSE [acc EXCEPT !.cur = Append(@, c)]

\* What a list of paths is joined with takes it apart again.
SplitPath(text) ==
    LET parts == Scanned([p \in Parting \X Char |-> PartNext(p[1], p[2])],
                         [words |-> <<>>, cur |-> <<>>], text)
    IN  Append(parts.words, parts.cur)

\* Lines are read without the blanks at their ends.
Blank == " "
LastInked(s) ==
    CHOOSE n \in 0..Len(s) : (n > 0 => s[n] # Blank) /\ \A k \in (n + 1)..Len(s) : s[k] = Blank
Trimmed(s) == SubSeq(s, 1, LastInked(s))

-----------------------------------------------------------------------------
(* Specs and files *)

Maybe == Name \cup {None}
Schedule == [type : {"calendar"}, calendar : Name, persistent : BOOLEAN]
            \cup [type : {"interval"}, boot : Maybe, active : Maybe, inactive : Maybe,
                  persistent : BOOLEAN]
Variable == [key : Name, value : Text] \* a spec has them in the order of their keys

\* The fields of a spec.
Field == [kind |-> Kind, title |-> Maybe, description |-> Maybe, exec |-> Seq(Text),
          env |-> Seq(Variable), path |-> Seq(Text), after |-> Seq(Name), network |-> BOOLEAN,
          restart |-> Maybe, schedule |-> Schedule \cup {None}, enabled |-> BOOLEAN \cup {None}]
Sent == [kind : Kind, title : Maybe, description : Maybe, exec : Seq(Text), env : Seq(Variable),
         path : Seq(Text), after : Seq(Name), network : BOOLEAN, restart : Maybe,
         schedule : Schedule \cup {None}, enabled : BOOLEAN \cup {None}]

Line == [key : Name, text : Text]
Service == [title : Maybe, description : Maybe, type : {"simple", "oneshot"}, linger : BOOLEAN,
            exec : Text, environment : Seq(Line), after : Seq(Name), wants : BOOLEAN,
            restart : Maybe, install : BOOLEAN]
Timer == [calendar : Maybe, boot : Maybe, active : Maybe, inactive : Maybe, persistent : BOOLEAN]

ASSUME SpecsAssumption ==
    /\ None \notin Name /\ None \notin BOOLEAN /\ None \notin Schedule
    /\ None \notin Sent /\ None \notin Service /\ None \notin Timer
    /\ Specs \subseteq Sent
    /\ \A edit \in Edits : \A f \in DOMAIN edit : f \in DOMAIN Field /\ edit[f] \in Field[f]

Timed(spec) == spec.schedule # None

Absolute(w) == w # <<>> /\ w[1] = "/"

\* What parse_spec and parse_schedule accept of what an author sends (every unit
\* named in an After is one they allow; validate_abs_path) ...
Accepted(sent) ==
    /\ sent.kind \in Kind
    /\ sent.exec # <<>> /\ \A n \in DOMAIN sent.exec : sent.exec[n] # <<>>
    /\ Absolute(sent.exec[1]) /\ sent.exec[1] \in Programs
    /\ \A n \in DOMAIN sent.path : Absolute(sent.path[n])
    /\ Timed(sent) => sent.kind = "oneshot"
    /\ sent.restart \in {None, "no"} \/ sent.kind = "simple"
    /\ (Timed(sent) /\ sent.schedule.type = "interval") =>
          sent.schedule.boot # None /\ {sent.schedule.active, sent.schedule.inactive} # {None}

\* ... and make of it; None is a refusal.
Parsed(sent) ==
    IF ~Accepted(sent) THEN None
    ELSE [sent EXCEPT
            !.restart = IF sent.kind = "simple" THEN @ ELSE None,
            !.description = IF @ # None THEN @ ELSE IF sent.title # None THEN sent.title ELSE "unit",
            !.enabled = IF @ = None THEN TRUE ELSE @]

\* NormalizedSpec::has_install
HasInstall(spec) == Timed(spec) \/ spec.kind \in {"simple", "oneshot-linger"}

\* The unit that `enabled` is about, if there is one.
Switch(spec) == IF Timed(spec) THEN {"timer"} ELSE IF HasInstall(spec) THEN {"service"} ELSE {}

\* Nothing that the files have to enable is missing from the spec, and what the
\* spec disables can be enabled.
Fits(spec, svc, tim) ==
    /\ tim # None => Timed(spec)
    /\ svc.install => HasInstall(spec) /\ ~Timed(spec)
    /\ spec.enabled \/ HasInstall(spec)

\* The Environment= lines of a path and of a variable.
PathLines(path) == IF path = <<>> THEN <<>> ELSE <<[key |-> "PATH", text |-> Joined(":", path)]>>
VariableLine(v) == [key |-> v.key, text |-> QuoteWord(v.value)]

\* render_service
RenderService(spec) ==
    [title |-> spec.title, description |-> spec.description,
     type |-> IF spec.kind = "simple" THEN "simple" ELSE "oneshot",
     linger |-> spec.kind = "oneshot-linger",
     exec |-> ExecLine(spec.exec),
     environment |-> PathLines(spec.path) \o [n \in DOMAIN spec.env |-> VariableLine(spec.env[n])],
     after |-> IF spec.network /\ Network \notin ToSet(spec.after) THEN Append(spec.after, Network) ELSE spec.after,
     wants |-> spec.network,
     restart |-> spec.restart,
     install |-> ~Timed(spec) /\ HasInstall(spec)]

\* render_timer: one line for each thing the schedule says.
RenderTimer(spec) ==
    IF ~Timed(spec) THEN None
    ELSE [calendar |-> IF spec.schedule.type = "calendar" THEN spec.schedule.calendar ELSE None,
          boot |-> IF spec.schedule.type = "interval" THEN spec.schedule.boot ELSE None,
          active |-> IF spec.schedule.type = "interval" THEN spec.schedule.active ELSE None,
          inactive |-> IF spec.schedule.type = "interval" THEN spec.schedule.inactive ELSE None,
          persistent |-> spec.schedule.persistent]

-----------------------------------------------------------------------------
(* Reading the files back *)

\* infer_kind
Inferred(svc, tim) ==
    IF tim # None THEN "oneshot"
    ELSE IF svc.type = "simple" THEN "simple"
    ELSE IF svc.linger THEN "oneshot-linger" ELSE "oneshot"

\* schedule_view
ScheduleView(tim) ==
    IF tim = None THEN None
    ELSE IF tim.calendar # None
    THEN [type |-> "calendar", calendar |-> tim.calendar, persistent |-> tim.persistent]
    ELSE [type |-> "interval", boot |-> tim.boot, active |-> tim.active,
          inactive |-> tim.inactive, persistent |-> tim.persistent]

\* parse_environment_assignment, over the lines: the first PATH is the path, the
\* values keep the quotes and escapes they are written with (unquote_env_value
\* looks for quotes around the whole assignment, name included) and never end in a
\* blank.
Environment == [path : Seq(Text), env : Seq(Variable)]
ReadLine(acc, line) ==
    IF line.key = "PATH" /\ acc.path = <<>> THEN [acc EXCEPT !.path = SplitPath(Trimmed(line.text))]
    ELSE [acc EXCEPT !.env = Append(@, [key |-> line.key, value |-> line.text])]
ReadEnvironment(lines) ==
    Scanned([p \in Environment \X Line |-> ReadLine(p[1], p[2])],
            [path |-> <<>>, env |-> <<>>], lines)

\* The units of After= but those to be left out, each once.
Noted(left, units, unit) == IF unit \in ToSet(units) \cup left THEN units ELSE Append(units, unit)
ReadAfter(units, left) == Scanned([p \in Seq(Name) \X Name |-> Noted(left, p[1], p[2])], <<>>, units)

\* enablement_is_on: a unit without an [Install] section is static.
IsEnabled ==
    LET unit == IF timer # None THEN "timer" ELSE "service"
    IN  unit \in linked \/ (unit = "service" /\ ~service.install)

\* editable_spec_json
Editable ==
    [kind |-> Inferred(service, timer), title |-> service.title,
     description |-> service.description,
     exec |-> SplitExec(service.exec),
     env |-> ReadEnvironment(service.environment).env,
     path |-> ReadEnvironment(service.environment).path,
     after |-> ReadAfter(service.after, IF service.wants THEN {Network} ELSE {}),
     network |-> service.wants, restart |-> service.restart,
     schedule |-> ScheduleView(timer), enabled |-> IsEnabled]

-----------------------------------------------------------------------------
(* The verbs *)

\* plan-create and its apply
Create(spec) ==
    /\ Parsed(spec) # None
    /\ service = None /\ (Timed(spec) => timer = None)
    /\ service' = RenderService(Parsed(spec))
    /\ timer' = IF Timed(spec) THEN RenderTimer(Parsed(spec)) ELSE timer
    /\ linked' = IF Parsed(spec).enabled THEN linked \cup Switch(spec) ELSE linked
    /\ intent' = Parsed(spec)
    /\ UNCHANGED <<draft, meant, edits>>

\* get_operation
Get(a) ==
    /\ service # None
    /\ draft' = [draft EXCEPT ![a] = Editable]
    /\ meant' = [meant EXCEPT ![a] = intent]
    /\ UNCHANGED <<service, timer, linked, intent, edits>>

Amended(spec, edit) == [f \in DOMAIN spec |-> IF f \in DOMAIN edit THEN edit[f] ELSE spec[f]]

\* The author changes a field of it.
Edit(a, edit) ==
    /\ draft[a] # None /\ edits < MaxEdits
    /\ draft' = [draft EXCEPT ![a] = Amended(@, edit)]
    /\ meant' = [meant EXCEPT ![a] = Amended(@, edit)]
    /\ edits' = edits + 1
    /\ UNCHANGED <<service, timer, linked, intent>>

\* plan-update and its apply: only the files the spec calls for are looked at and
\* written, so a timer that it no longer calls for stays.
Update(a) ==
    /\ draft[a] # None /\ service # None
    /\ LET spec == Parsed(draft[a])
       IN  /\ spec # None
           /\ Fitting => Fits(spec, service, timer)
           /\ service' = RenderService(spec)
           /\ timer' = IF Timed(spec) THEN RenderTimer(spec) ELSE timer
           /\ linked' = IF spec.enabled THEN linked \cup Switch(spec) ELSE linked \ Switch(spec)
    /\ intent' = Parsed(meant[a])
    /\ draft' = [draft EXCEPT ![a] = None]
    /\ meant' = [meant EXCEPT ![a] = None]
    /\ UNCHANGED edits

\* plan-change, enable or disable: the unit of an operation that can be enabled.
Toggle ==
    /\ service # None /\ edits < MaxEdits
    /\ LET unit == IF timer # None THEN "timer" ELSE "service"
       IN  /\ unit = "timer" \/ service.install
           /\ linked' = (linked \ {unit}) \cup ({unit} \ linked)
           /\ intent' = [intent EXCEPT !.enabled = unit \notin linked]
    /\ edits' = edits + 1
    /\ UNCHANGED <<service, timer, draft, meant>>

\* Variant of Retire: the files go, nothing is disabled.
RetireUnlinks ==
    /\ service # None \/ timer # None
    /\ service' = None /\ timer' = None /\ intent' = None
    /\ UNCHANGED <<linked, draft, meant, edits>>

\* plan-retire and its apply
Retire ==
    /\ service # None \/ timer # None
    /\ service' = None /\ timer' = None /\ linked' = {} /\ intent' = None
    /\ UNCHANGED <<draft, meant, edits>>

AuthoringInit ==
    /\ service = None /\ timer = None /\ linked = {} /\ intent = None
    /\ draft = [a \in Agent |-> None] /\ meant = draft
    /\ edits = 0

AuthoringNext ==
    \/ \E spec \in Specs : Create(spec)
    \/ \E a \in Agent : Get(a) \/ Update(a) \/ \E edit \in Edits : Edit(a, edit)
    \/ Toggle \/ Retire

AuthoringSpec == AuthoringInit /\ [][AuthoringNext]_authoringVars

-----------------------------------------------------------------------------
(* Properties *)

\* The files, what is enabled and the editable specs have their types, whatever is
\* written and edited; nothing is enabled without its file.
AuthoringTypeOK ==
    /\ service \in Service \cup {None} /\ timer \in Timer \cup {None}
    /\ linked \subseteq (IF service # None THEN {"service"} ELSE {})
                         \cup (IF timer # None THEN {"timer"} ELSE {})
    /\ draft \in [Agent -> Sent \cup {None}]
    /\ edits \in 0..MaxEdits

\* What an update with `sent` writes and enables; None if it is refused.
Outcome(sent) ==
    LET spec == Parsed(sent)
    IN  IF spec = None THEN None
        ELSE [service |-> RenderService(spec), timer |-> RenderTimer(spec),
              enabled |-> IF spec.enabled THEN Switch(spec) ELSE {}]

\* README.md:281-284, "so an agent can change one field and plan-update without
\* dropping the rest": after any edits of any authors, whoever enables and disables
\* meanwhile and however old the editable spec, an update with what get_operation
\* gave and a field changed is the update with the spec as its author meant it, and
\* the files and the enabled units are that spec's.
EditsKeepTheRest ==
    /\ IF intent = None THEN service = None
       ELSE [service |-> service, timer |-> timer, enabled |-> linked] = Outcome(intent)
    /\ \A a \in Agent :
          IF draft[a] = None THEN meant[a] = None
          ELSE meant[a] # None /\ Outcome(draft[a]) = Outcome(meant[a])
=============================================================================
