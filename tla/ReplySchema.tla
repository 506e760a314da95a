----------------------------- MODULE ReplySchema -----------------------------
(***************************************************************************)
(* How the web front end reads the server's replies.  Every request names  *)
(* the schema its reply must have; the bundled zod checks the object field *)
(* by field and copies it.  It has two ways of doing so: an interpreter,   *)
(* and a function that it writes and compiles for the schema, which is     *)
(* used where the page may evaluate code.  The two are separate code.      *)
(*                                                                         *)
(* A field's type is a base (text, unknown, or an object with fields of    *)
(* its own) in wrappers, the outermost first: optional, nullable, default. *)
(***************************************************************************)
EXTENDS Naturals, Sequences, SequencesExt

CONSTANTS Schemas,   \* the schemas of the page: [fields, open]
          Bodies     \* the objects a server may send

VARIABLES engine,    \* "compiled" or "interpreted", as the page may evaluate code
          reply,     \* what was asked for and what came: [schema, status, body]
          outcome    \* what the caller got: [ok, data, issues]

vars == <<engine, reply, outcome>>

Value(is) == [is |-> is]
Undefined == Value("undefined")
Null == Value("null")
Default == Value("default")
Object(of) == [is |-> "object", of |-> of]
Has(v, key) == key \in DOMAIN v.of
Get(v, key) == IF Has(v, key) THEN v.of[key] ELSE Undefined
With(of, key, v) == [k \in DOMAIN of \cup {key} |-> IF k = key THEN v ELSE of[k]]
Without(type) == [type EXCEPT !.wraps = Tail(@)]

(* The empty object, the outcome of no field, and the two simplest outcomes:
   a value as it is, and an issue with it. *)
Fresh == Object([k \in {} |-> Null])
Fine(v) == [value |-> v, issues |-> <<>>]
Wrong(v) == [value |-> v, issues |-> <<<<>>>>]

RECURSIVE OptIn(_), OptOut(_)
(* Whether a field may be missing from the object that comes in. *)
OptIn(type) ==
  CASE type.wraps = <<>> -> "required"
    [] type.wraps # <<>> /\ Head(type.wraps) = "default" -> "defaulted"
    [] type.wraps # <<>> /\ Head(type.wraps) = "nullable" -> OptIn(Without(type))
    [] OTHER -> IF OptIn(Without(type)) = "defaulted" THEN "defaulted" ELSE "optional"
(* Whether it may be missing from the one that goes out. *)
OptOut(type) ==
  /\ type.wraps # <<>>
  /\ \/ Head(type.wraps) = "optional"
     \/ Head(type.wraps) = "nullable" /\ OptOut(Without(type))

(* The issues of a field are the issues of the object, a key further down. *)
Prefixed(key, issues) == [i \in 1..Len(issues) |-> <<key>> \o issues[i]]
Push(acc, key, r) == [acc EXCEPT !.issues = @ \o Prefixed(key, r.issues)]
Missing(acc, key) == [acc EXCEPT !.issues = Append(@, <<key>>)]
Set(acc, key, v) == [acc EXCEPT !.value.of = With(@, key, v)]

-----------------------------------------------------------------------------
(* The interpreter: what becomes of the result r of the field of this key. *)
Interpreted(acc, key, type, r, present) ==
  LET pushed == Push(acc, key, r)
      in == OptIn(type)
      left == OptOut(type) /\ \/ in = "optional"
                              \/ in = "defaulted" /\ r.issues # <<>>
  IN  CASE ~present /\ left -> acc
        [] ~present /\ in = "required" -> IF r.issues = <<>> THEN Missing(acc, key) ELSE pushed
        [] present \/ (~left /\ in # "required") ->
             IF r.value # Undefined \/ present THEN Set(pushed, key, r.value) ELSE pushed

(* The compiled function, for a field that may be missing on both sides, *)
CompiledOptional(acc, key, type, r, present) ==
  IF r.issues # <<>> /\ ~present THEN acc
  ELSE IF present \/ (OptIn(type) = "defaulted" /\ r.value # Undefined)
  THEN Set(Push(acc, key, r), key, r.value)
  ELSE Push(acc, key, r)

(* for one that may be missing only on the way in, *)
CompiledDefaulted(acc, key, r, present) ==
  IF r.value = Undefined /\ ~present THEN Push(acc, key, r)
  ELSE Set(Push(acc, key, r), key, r.value)

(* Faulty: a value that may be anything may also be missing. *)
FaultyCompiledPlain(acc, key, r, present) ==
  IF present THEN Set(Push(acc, key, r), key, r.value) ELSE Push(acc, key, r)

(* and for all the others. *)
CompiledPlain(acc, key, r, present) ==
  LET pushed == Push(acc, key, r)
  IN  IF present THEN Set(pushed, key, r.value)
      ELSE IF r.issues = <<>> THEN Missing(pushed, key)
      ELSE pushed

Compiled(acc, key, type, r, present) ==
  CASE OptIn(type) # "required" /\ OptOut(type) -> CompiledOptional(acc, key, type, r, present)
    [] OptIn(type) # "required" /\ ~OptOut(type) -> CompiledDefaulted(acc, key, r, present)
    [] OTHER -> CompiledPlain(acc, key, r, present)

-----------------------------------------------------------------------------
RECURSIVE Run(_, _, _)

(* A key that the schema does not name: kept if the schema is open. *)
Rest(schema, v, acc) ==
  LET named == {schema.fields[i].key : i \in 1..Len(schema.fields)}
      unknown == [wraps |-> <<>>, base |-> "unknown"]
  IN  IF ~schema.open THEN acc
      ELSE FoldLeft(LAMBDA a, key : Interpreted(a, key, unknown, Fine(v.of[key]), TRUE), acc,
                    SetToSeq(DOMAIN v.of \ named))

(* An object, the fields in the order of the schema. *)
RunObject(how, schema, v) ==
  LET Field(acc, field) ==
        LET r == Run(how, field.type, Get(v, field.key))
        IN  IF how = "compiled" THEN Compiled(acc, field.key, field.type, r, Has(v, field.key))
            ELSE Interpreted(acc, field.key, field.type, r, Has(v, field.key))
  IN  IF v.is # "object" THEN Wrong(v)
      ELSE Rest(schema, v, FoldLeft(Field, Fine(Fresh), schema.fields))

Run(how, type, v) ==
  LET inner == Run(how, Without(type), v)
      wrap == IF type.wraps = <<>> THEN "none" ELSE Head(type.wraps)
  IN  CASE wrap = "optional" /\ v = Undefined ->
             IF OptIn(Without(type)) = "defaulted" /\ inner.issues = <<>> THEN inner ELSE Fine(Undefined)
        [] wrap = "nullable" /\ v = Null -> Fine(v)
        [] wrap = "default" /\ v = Undefined -> Fine(Default)
        [] wrap = "default" /\ v # Undefined ->
             IF inner.value = Undefined THEN [inner EXCEPT !.value = Default] ELSE inner
        [] wrap = "none" /\ type.base = "unknown" -> Fine(v)
        [] wrap = "none" /\ type.base = "text" -> IF v.is = "text" THEN Fine(v) ELSE Wrong(v)
        [] wrap = "none" /\ type.base = "object" -> RunObject(how, type, v)
        [] OTHER -> inner

-----------------------------------------------------------------------------
NoReply == [status |-> "none"]
NoOutcome == [ok |-> FALSE, data |-> Undefined, issues |-> <<>>]

Init == engine \in {"compiled", "interpreted"} /\ reply = NoReply /\ outcome = NoOutcome

(* The caller gets the data of a reply that is as the schema says; another one
   is an error, *)
Fetch(schema, body) ==
  LET parsed == RunObject(engine, schema, body)
  IN  /\ reply = NoReply
      /\ reply' = [status |-> "ok", schema |-> schema, body |-> body]
      /\ outcome' = IF parsed.issues = <<>> THEN [ok |-> TRUE, data |-> parsed.value, issues |-> <<>>]
                    ELSE [ok |-> FALSE, data |-> Undefined, issues |-> parsed.issues]
      /\ UNCHANGED engine

(* and so is a request that is refused, whose body is looked at for a message. *)
Refuse(schema, body) ==
  /\ reply = NoReply
  /\ reply' = [status |-> "refused", schema |-> schema, body |-> body]
  /\ outcome' = NoOutcome
  /\ UNCHANGED engine

Next ==
  \E schema \in Schemas :
    \/ \E body \in Bodies : Fetch(schema, body)
    \/ Refuse(schema, Fresh)

Spec == Init /\ [][Next]_vars

-----------------------------------------------------------------------------
(* What a schema says, without its way of checking it. *)
RECURSIVE Conforms(_, _), Copy(_, _)
Wrapped(type, wraps) == ToSet(type.wraps) \cap wraps # {}
ObjectConforms(schema, v) ==
  v.is = "object" /\ \A i \in 1..Len(schema.fields) :
                       Conforms(schema.fields[i].type, Get(v, schema.fields[i].key))
Conforms(type, v) ==
  IF v = Undefined THEN Wrapped(type, {"optional", "default"})
  ELSE \/ type.base = "unknown"
       \/ v = Null /\ Wrapped(type, {"nullable"})
       \/ type.base = "text" /\ v.is = "text"
       \/ type.base = "object" /\ ObjectConforms(type, v)

ObjectCopy(schema, v) ==
  LET TypeOf(key) == LET i == SelectInSeq(schema.fields, LAMBDA f : f.key = key) IN schema.fields[i].type
      named == {schema.fields[i].key : i \in 1..Len(schema.fields)}
      kept == (DOMAIN v.of \cap named)
                \cup (IF schema.open THEN DOMAIN v.of \ named ELSE {})
                \cup {key \in named : Wrapped(TypeOf(key), {"default"})}
  IN  Object([key \in kept |-> IF key \in named THEN Copy(TypeOf(key), Get(v, key)) ELSE v.of[key]])
Copy(type, v) ==
  CASE v = Undefined -> Default
    [] v.is = "object" /\ type.base = "object" -> ObjectCopy(type, v)
    [] OTHER -> v

(* Whichever way the page reads replies, the caller gets data exactly for the
   replies that are as the schema says, with the defaults filled in and nothing
   in it that the schema does not let through, and otherwise an error that
   names every field at fault and no other. *)
RepliesAreChecked ==
  reply # NoReply =>
    LET schema == reply.schema
        wrong == {schema.fields[i].key : i \in
                    {j \in 1..Len(schema.fields) : ~Conforms(schema.fields[j].type, Get(reply.body, schema.fields[j].key))}}
    IN  /\ outcome.ok = (reply.status = "ok" /\ wrong = {})
        /\ outcome.ok => outcome.data = ObjectCopy(schema, reply.body)
        /\ reply.status = "ok" => {path[1] : path \in ToSet(outcome.issues)} = wrong
=============================================================================
