------------------------------ MODULE Protocols ------------------------------
(* Protocols and what is said of them.  A connection manager describes each of
   its protocols (base-protocol.c, base-connection-manager.c) by parameter
   specifications and immutable properties; a TpProtocol (protocol.c) takes the
   description from the bus or from a .manager file; RequestConnection and
   IdentifyAccount make their parameters agree with the specifications;
   TpCapabilities (capabilities.c) tells which channels can be requested; the
   names are checked (dbus.c, connection-manager.c); and
   tp_list_connection_managers finds the managers there are.

   `self' is what one of these works on and `made' what it has done:
     "service"       a protocol, and a method called on it
     "description"   a protocol, and the TpProtocols made of it
     "file"          a default value in a .manager file, and what is read
     "capabilities"  the channel classes of a TpCapabilities
     "names"         a string that may be a name
     "listing"       the _ListContext, and what its caller was told        *)
EXTENDS Integers, Sequences, FiniteSets, SequencesExt

CONSTANTS
  Kind,         \* one of the above
  DTypes,       \* the D-Bus types of the parameters
  MixedCase,    \* whether a file may hold booleans like "False"
  NameLimit,    \* the length of a name (255), made small
  MaxName,      \* the length of the strings looked at
  Managers      \* the names on the bus after the prefix of a manager's name

VARIABLES self, made
vars == <<self, made>>

Only(S) == CHOOSE x \in S : TRUE

(***************************************************************************)
(* Values.  An integer is its place in the list of the edges of the widths: *)
(*  1 -2^63   2 -2^31-1  3 -2^31  4 -2^15-1  5 -2^15  6 -1  7 0  8 1  9 255 *)
(*  10 256  11 500  12 1000  13 2^15-1  14 2^15  15 2^16-1  16 2^16         *)
(*  17 2^31-1  18 2^31  19 2^32-1  20 2^32  21 2^63-1  22 2^63  23 2^64-1   *)
(* which is all that a comparison with such an edge tells apart; 0 and 24   *)
(* are the numbers outside.  A string is one of the identifiers below.      *)
(***************************************************************************)
G_MININT64 == 1
G_MININT32 == 3
G_MININT16 == 5
ZERO == 7
ONE == 8
G_MAXUINT8 == 9
G_MAXINT16 == 13
G_MAXUINT16 == 15
G_MAXINT32 == 17
G_MAXUINT32 == 19
G_MAXINT64 == 21
G_MAXUINT64 == 23

\* the identifiers: "", "alice", "Alice", "alice@x" and the latter decomposed
EMPTY == 0
ALICE == 1
UPPER == 2
JID == 3
DECOMPOSED == 4
Ids == EMPTY..DECOMPOSED

Width(type) ==
  CASE type = "y" -> ZERO..G_MAXUINT8
    [] type = "n" -> G_MININT16..G_MAXINT16
    [] type = "q" -> ZERO..G_MAXUINT16
    [] type = "i" -> G_MININT32..G_MAXINT32
    [] type = "u" -> ZERO..G_MAXUINT32
    [] type = "x" -> G_MININT64..G_MAXINT64
    [] type = "t" -> ZERO..G_MAXUINT64
    [] type \in {"b", "d"} -> {ZERO, ONE}
    [] type \in {"s", "o", "as"} -> Ids

\* the GType of a D-Bus type; 16-bit integers are held in 32 bits
init_gvalue_from_dbus_sig(dtype) ==
  CASE dtype = "n" -> "i" [] dtype = "q" -> "u" [] OTHER -> dtype
Integral == {"y", "i", "u", "x", "t"}
GTypes == Integral \cup {"b", "d", "s", "o", "as"}
GValue(type, v) == [type |-> type, v |-> v]
GValues == UNION {{GValue(t, v) : v \in Width(t)} : t \in GTypes}

\* the typed reads of a map of variants: whether the value is one
tp_asv_get_int32(value) ==
  \/ value.type \in {"y", "i"}
  \/ value.type \in {"u", "t"} /\ value.v <= G_MAXINT32
  \/ value.type = "x" /\ value.v >= G_MININT32 /\ value.v <= G_MAXINT32
tp_asv_get_uint32(value) ==
  \/ value.type \in {"y", "u"}
  \/ value.type = "i" /\ value.v >= ZERO
  \/ value.type = "x" /\ value.v >= ZERO /\ value.v <= G_MAXUINT32
  \/ value.type = "t" /\ value.v <= G_MAXUINT32
tp_asv_get_int64(value) ==
  value.type \in {"y", "u", "i", "x"} \/ (value.type = "t" /\ value.v <= G_MAXINT64)
tp_asv_get_uint64(value) ==
  value.type \in {"y", "u", "t"} \/ (value.type \in {"i", "x"} /\ value.v >= ZERO)
tp_asv_get_double(value) == value.type \in Integral \cup {"d"}
tp_asv_get_boolean(asv, key) == key \in DOMAIN asv /\ asv[key] = GValue("b", ONE)
tp_asv_get_string(asv, key) ==
  IF key \in DOMAIN asv THEN {asv[key].v : k \in {k \in {key} : asv[k].type = "s"}} ELSE {}

(***************************************************************************)
(* Parameter specifications, and the parameters of a request.               *)
(***************************************************************************)
ParamSpec(name, dtype, flags, def, filter) ==
  [name |-> name, dtype |-> dtype, flags |-> flags, def |-> def, filter |-> filter]

param_default_value(spec) == GValue(init_gvalue_from_dbus_sig(spec.dtype), spec.def)

\* {} when the value is refused
Coerce(spec, value) ==
  CASE spec.dtype \in {"b", "o", "s", "as"} -> {v \in {value} : v.type = spec.dtype}
    [] spec.dtype \in {"n", "i"} ->
         {GValue("i", v.v) : v \in {v \in {value} :
            /\ tp_asv_get_int32(v)
            /\ spec.dtype = "n" => v.v >= G_MININT16 /\ v.v <= G_MAXINT16}}
    [] spec.dtype \in {"y", "q", "u"} ->
         {GValue(init_gvalue_from_dbus_sig(spec.dtype), v.v) : v \in {v \in {value} :
            /\ tp_asv_get_uint32(v)
            /\ spec.dtype = "y" => v.v <= G_MAXUINT8
            /\ spec.dtype = "q" => v.v <= G_MAXUINT16}}
    [] spec.dtype = "x" -> {GValue("x", v.v) : v \in {v \in {value} : tp_asv_get_int64(v)}}
    [] spec.dtype = "t" -> {GValue("t", v.v) : v \in {v \in {value} : tp_asv_get_uint64(v)}}
    [] spec.dtype = "d" -> {GValue("d", v.v) : v \in {v \in {value} : tp_asv_get_double(v)}}

\* what the form of an identifier must be: a word, @, and a realm
example_csh_protocol_check_contact_id(id) == id \in {JID, DECOMPOSED}
tp_cm_param_filter_uint_nonzero(value) == value.v # ZERO
tp_cm_param_filter_string_nonempty(value) == value.v # EMPTY
Filter(spec, value) ==
  CASE spec.filter = "none" -> TRUE
    [] spec.filter = "uint_nonzero" -> tp_cm_param_filter_uint_nonzero(value)
    [] spec.filter = "string_nonempty" -> tp_cm_param_filter_string_nonempty(value)
    [] spec.filter = "csh" -> example_csh_protocol_check_contact_id(value.v)

check_all_allowed(specs, asv) == DOMAIN asv \subseteq {s.name : s \in specs}

\* {} when the parameters are refused
sanitize_parameters(specs, asv) ==
  LET mandatory == IF tp_asv_get_boolean(asv, "register") THEN "REGISTER" ELSE "REQUIRED"
      Given(s) == s.name \in DOMAIN asv
      Value(s) == IF Given(s) THEN {v \in Coerce(s, asv[s.name]) : Filter(s, v)}
                  ELSE {param_default_value(s)}
      kept == {s \in specs : Given(s) \/ "HAS_DEFAULT" \in s.flags}
      Named(n) == CHOOSE s \in specs : s.name = n
  IN IF /\ check_all_allowed(specs, asv)
        /\ \A s \in specs : Given(s) \/ mandatory \notin s.flags
        /\ \A s \in kept : Value(s) # {}
     THEN {[n \in {s.name : s \in kept} |-> Only(Value(Named(n)))]}
     ELSE {}

(***************************************************************************)
(* The protocols of the examples, and one of a TpCMProtocolSpec, which a    *)
(* manager wraps in a _TpLegacyProtocol.                                    *)
(***************************************************************************)
Account(filter) == ParamSpec("account", "s", {"REQUIRED", "REGISTER"}, EMPTY, filter)
Delay(def) == ParamSpec("simulation-delay", "u", {"HAS_DEFAULT"}, def, "none")
Register == ParamSpec("register", "b", {}, ZERO, "none")

example_echo_2_example_params == {Account("string_nonempty")}
example_extended_example_params == {Account("string_nonempty")}
example_csh_example_params == {Account("csh"), Delay(11)}
example_contact_list_example_params == {Account("string_nonempty"), Delay(12)}
example_call_example_params == {Account("string_nonempty"), Delay(12)}

Flags == {"REQUIRED", "REGISTER", "HAS_DEFAULT"}
Filters(dtype) ==
  {"none"} \cup (IF dtype = "u" THEN {"uint_nonzero"} ELSE IF dtype = "s" THEN {"string_nonempty"} ELSE {})
LegacyParams ==
  UNION {{{ParamSpec("p", d, f, Only(Width(d)), c), Register} : f \in SUBSET Flags, c \in Filters(d)} :
           d \in DTypes}

Service(name, specs) == [protocol |-> name, specs |-> specs]
Services ==
  {Service("legacy", specs) : specs \in LegacyParams} \cup
  {Service("echo", example_echo_2_example_params), Service("extended", example_extended_example_params),
   Service("csh", example_csh_example_params), Service("list", example_contact_list_example_params),
   Service("call", example_call_example_params)}

Error(e) == [ok |-> FALSE, error |-> e, params |-> << >>, id |-> EMPTY]
Connected(params) == [ok |-> TRUE, error |-> "", params |-> params, id |-> EMPTY]
Identifier(id) == [ok |-> TRUE, error |-> "", params |-> << >>, id |-> id]

\* a parameter is stored in the field of its type; the type must be its own
set_param_from_value(spec, value) == value.type = init_gvalue_from_dbus_sig(spec.dtype)
tp_cm_param_setter_offset(names, asv) == [n \in names |-> asv[n]]
parse_parameters(specs, asv) ==
  LET provided == {s \in specs : s.name \in DOMAIN asv}
  IN IF \A s \in provided : set_param_from_value(s, asv[s.name])
     THEN {tp_cm_param_setter_offset({s.name : s \in provided}, asv)} ELSE {}
legacy_protocol_new_connection(specs, asv) ==
  LET params == parse_parameters(specs, asv)
  IN IF params = {} THEN Error("InvalidArgument") ELSE Connected(Only(params))

example_echo_2_new_connection(asv) ==
  IF tp_asv_get_string(asv, "account") \subseteq {EMPTY} THEN Error("InvalidArgument") ELSE Connected(asv)
example_extended_new_connection(asv) == example_echo_2_new_connection(asv)
\* "telepathy-glib checked this for us"
example_csh_new_connection(asv) ==
  IF tp_asv_get_string(asv, "account") = {} THEN Error("assertion") ELSE Connected(asv)
example_contact_list_new_connection(asv) == example_csh_new_connection(asv)
example_call_new_connection(asv) == example_csh_new_connection(asv)
ClassNewConnection(p, asv) ==
  CASE p.protocol = "legacy" -> legacy_protocol_new_connection(p.specs, asv)
    [] p.protocol = "echo" -> example_echo_2_new_connection(asv)
    [] p.protocol = "extended" -> example_extended_new_connection(asv)
    [] p.protocol = "csh" -> example_csh_new_connection(asv)
    [] p.protocol = "list" -> example_contact_list_new_connection(asv)
    [] p.protocol = "call" -> example_call_new_connection(asv)

tp_base_protocol_new_connection(p, asv) ==
  LET combined == sanitize_parameters(p.specs, asv)
  IN IF combined = {} THEN Error("InvalidArgument") ELSE ClassNewConnection(p, Only(combined))

\* g_utf8_strdown and g_utf8_normalize
strdown(id) == IF id = UPPER THEN ALICE ELSE id
normalize(id) == IF id = DECOMPOSED THEN JID ELSE id

\* {} for an identifier that is refused
example_echo_2_protocol_normalize_contact(id) == {strdown(i) : i \in {id} \ {EMPTY}}
example_extended_protocol_normalize_contact(id) == {strdown(i) : i \in {id} \ {EMPTY}}
example_contact_list_protocol_check_contact_id(id) == {normalize(i) : i \in {id} \ {EMPTY}}
example_call_protocol_check_contact_id(id) == {normalize(i) : i \in {id} \ {EMPTY}}
normalize_contact(protocol, id) ==
  CASE protocol = "echo" -> example_echo_2_protocol_normalize_contact(id)
    [] protocol = "extended" -> example_extended_protocol_normalize_contact(id)
    [] protocol = "csh" -> {normalize(i) : i \in {i \in {id} : example_csh_protocol_check_contact_id(i)}}
    [] protocol = "list" -> example_contact_list_protocol_check_contact_id(id)
    [] protocol = "call" -> example_call_protocol_check_contact_id(id)
protocol_normalize_contact(p, id) ==
  IF p.protocol = "legacy" THEN Error("NotImplemented")
  ELSE LET ret == normalize_contact(p.protocol, id)
       IN IF ret = {} THEN Error("InvalidHandle") ELSE Identifier(Only(ret))

\* the echo example takes the account as it is but for its case
example_echo_2_identify_account(account) == Identifier(strdown(account))
identify_account(protocol, asv) ==
  LET account == tp_asv_get_string(asv, "account")
  IN IF account = {} THEN Error("InvalidArgument")
     ELSE IF protocol = "echo" THEN example_echo_2_identify_account(Only(account))
     ELSE LET ret == normalize_contact(protocol, Only(account))
          IN IF ret = {} THEN Error("InvalidHandle") ELSE Identifier(Only(ret))
protocol_identify_account(p, asv) ==
  IF p.protocol = "legacy" THEN Error("NotImplemented")
  ELSE LET sanitized == sanitize_parameters(p.specs, asv)
       IN IF sanitized = {} THEN Error("InvalidArgument")
          ELSE identify_account(p.protocol, Only(sanitized))

\* only the echo example implements Addressing, for XMPP
normalize_vcard_address(field, address) ==
  IF field # "x-jabber" THEN Error("NotImplemented")
  ELSE IF address = EMPTY THEN Error("InvalidArgument")
  ELSE Identifier(strdown(address))
addressing_normalize_vcard_address(p, field, address) ==
  IF p.protocol # "echo" THEN Error("NotImplemented") ELSE normalize_vcard_address(field, address)
addressing_normalize_contact_uri(p, scheme, rest) ==
  IF p.protocol # "echo" \/ scheme # "xmpp" THEN Error("NotImplemented")
  ELSE normalize_vcard_address("x-jabber", rest)

\* the parameters that are tried
Optional(name, values) == {<< >>} \cup {name :> v : v \in values}
Asvs(p) ==
  IF p.protocol = "legacy"
  THEN {a @@ b : a \in Optional("p", GValues),
                 b \in Optional("register", {GValue("b", ZERO), GValue("b", ONE)})} \cup
       {"other" :> GValue("s", ALICE)}
  ELSE {a @@ b : a \in Optional("account", {GValue("s", i) : i \in Ids} \cup {GValue("u", ONE)}),
                 b \in Optional("simulation-delay", {GValue("x", v) : v \in Width("x")})
                         \cup {"register" :> GValue("b", ONE)}}

NoCall == [call |-> "none", given |-> << >>, answer |-> Error(""), task |-> "none", cancelled |-> FALSE]

\* a method of the manager, over D-Bus: it leaves nothing behind in the protocol
RequestConnection ==
  /\ Kind = "service" /\ made.call = "none"
  /\ \E name \in {"example", "other", "bad name"} : \E asv \in IF name = "example" THEN Asvs(self) ELSE {<< >>} :
       made' = [made EXCEPT !.call = "RequestConnection", !.given = asv, !.task = "done",
                  !.answer = IF name = "bad name" THEN Error("InvalidName")
                             ELSE IF name = "other" THEN Error("NotImplemented")
                             ELSE tp_base_protocol_new_connection(self, asv)]
  /\ UNCHANGED self

\* tp_protocol_*_async: a task, and a call that it waits for
Start(call, given, answer) ==
  /\ made' = [made EXCEPT !.call = call, !.given = given, !.answer = answer, !.task = "waiting"]
  /\ UNCHANGED self
tp_protocol_identify_account_async ==
  /\ Kind = "service" /\ made.call = "none"
  /\ \E asv \in IF self.protocol = "legacy" THEN {<< >>} ELSE Asvs(self) :
       Start("IdentifyAccount", asv, protocol_identify_account(self, asv))
tp_protocol_normalize_contact_async ==
  /\ Kind = "service" /\ made.call = "none"
  /\ \E id \in Ids : Start("NormalizeContact", "id" :> GValue("s", id), protocol_normalize_contact(self, id))
tp_protocol_normalize_contact_uri_async ==
  /\ Kind = "service" /\ made.call = "none"
  /\ \E scheme \in {"xmpp", "tel"}, id \in Ids :
       Start("NormalizeContactURI", "id" :> GValue("s", id), addressing_normalize_contact_uri(self, scheme, id))
tp_protocol_normalize_vcard_address_async ==
  /\ Kind = "service" /\ made.call = "none"
  /\ \E field \in {"x-jabber", "tel"}, id \in Ids :
       Start("NormalizeVCardAddress", "id" :> GValue("s", id),
             addressing_normalize_vcard_address(self, field, id))
Cancel ==
  /\ Kind = "service" /\ made.task = "waiting" /\ ~made.cancelled
  /\ made' = [made EXCEPT !.cancelled = TRUE]
  /\ UNCHANGED self
\* a task returns its cancellation if it was cancelled, whatever the answer
tp_protocol_async_string_cb ==
  /\ Kind = "service" /\ made.task = "waiting"
  /\ made' = [made EXCEPT !.task = IF made.cancelled THEN "cancelled" ELSE "done"]
  /\ UNCHANGED self

(***************************************************************************)
(* Default values in a .manager file.  A text is a number or a word, and    *)
(* GKeyFile reads it.                                                       *)
(***************************************************************************)
Text(word, v) == [word |-> word, v |-> v]
Number(v) == Text("number", v)
Outside == {0, 24}
Words == {"", "true", "false", "text", "path"} \cup (IF MixedCase THEN {"True", "False"} ELSE {})
Texts(sig) ==
  IF sig \in {"s", "o", "as"} THEN {Text(w, v) : w \in {"text", "path"}, v \in Ids}
  ELSE {Text(w, EMPTY) : w \in Words} \cup {Number(v) : v \in Outside \cup G_MININT64..G_MAXUINT64}

\* the functions of GKeyFile: {} for an error; numbers are not checked for their
\* size, and a negative one wraps (-2^63-1 and -2^63 to 2^63-1 and 2^63, and the
\* rest to numbers above, of which 2^64-1 is the one looked at)
g_key_file_get_boolean(text) ==
  IF text \in {Number(ONE), Text("true", EMPTY)} THEN {ONE}
  ELSE IF text \in {Number(ZERO), Text("false", EMPTY)} THEN {ZERO} ELSE {}
g_key_file_get_uint64(text) ==
  IF text.word # "number" THEN {}
  ELSE {CASE text.v = 0 -> G_MAXINT64 [] text.v = G_MININT64 -> 22
          [] text.v \in ZERO..G_MAXUINT64 -> text.v [] OTHER -> G_MAXUINT64}
g_key_file_get_int64(text) ==
  IF text.word # "number" THEN {}
  ELSE {IF text.v < G_MININT64 THEN G_MININT64 ELSE IF text.v > G_MAXINT64 THEN G_MAXINT64 ELSE text.v}
g_key_file_get_double(text) == {text.v : t \in {t \in {text} : t.word = "number"}}

\* {} if it cannot be parsed
parse_default_value(sig, text) ==
  CASE sig = "b" ->
         LET read == g_key_file_get_boolean(text)
         IN IF read # {} THEN {GValue("b", Only(read))}
            ELSE IF text.word \in {"True", "False"} THEN {GValue("b", ONE)} ELSE {}
    [] sig \in {"y", "q", "u", "t"} ->
         {GValue(init_gvalue_from_dbus_sig(sig), v) : v \in {v \in g_key_file_get_uint64(text) :
            /\ sig = "y" => v <= G_MAXUINT8
            /\ sig \in {"q", "u"} => ~(v > G_MAXUINT32 \/ (sig = "q" /\ v > G_MAXUINT16))}}
    [] sig \in {"n", "i", "x"} ->
         {GValue(init_gvalue_from_dbus_sig(sig), v) : v \in {v \in g_key_file_get_int64(text) :
            sig # "x" => /\ ~(v > G_MAXINT32 \/ (sig = "q" /\ v > G_MAXINT16))
                         /\ ~(v < G_MININT32 \/ (sig = "n" /\ v < G_MININT16))}}
    [] sig = "o" -> {GValue("o", t.v) : t \in {t \in {text} : t.word = "path"}}
    [] sig = "d" -> {GValue("d", v) : v \in g_key_file_get_double(text)}
    [] sig \in {"s", "as"} -> {GValue(sig, text.v)}

ReadDefault ==
  /\ Kind = "file" /\ ~made.read
  /\ made' = [read |-> TRUE, value |-> parse_default_value(self.sig, self.text)]
  /\ UNCHANGED self

(***************************************************************************)
(* The description of a protocol, which a manager gives as the immutable    *)
(* properties of a TpBaseProtocol and a TpProtocol takes.  A property that  *)
(* may be missing is a set of at most one value; a list that is NULL and an *)
(* empty one are the same on the bus, and are the same here.                *)
(***************************************************************************)
Opt(present, v) == IF present THEN {v} ELSE {}
UNSET == 0
strdown_field(f) == IF f = "X-Field" THEN "x-field" ELSE f
Status(type, settable, message) == [type |-> type, self |-> settable, message |-> message]

_tp_cm_param_spec_to_dbus(spec) ==
  [name |-> spec.name, flags |-> spec.flags, sig |-> spec.dtype, def |-> param_default_value(spec)]

\* a message can only be set on a status that can be set
protocol_prop_presence_getter(statuses) ==
  [n \in DOMAIN statuses |->
     [statuses[n] EXCEPT !.message = statuses[n].self /\ statuses[n].message]]
protocol_prop_avatar_getter(avatar) == avatar
protocol_prop_addressing_getter(p) == p.addressing
protocol_properties_getter(p) ==
  [params |-> {{_tp_cm_param_spec_to_dbus(s) : s \in p.specs}}, interfaces |-> {p.interfaces},
   conn |-> {p.conn}, rccs |-> {p.rccs}, vcard |-> {strdown_field(p.vcard)},
   english |-> {p.english}, icon |-> {p.icon}, auth |-> {p.auth},
   avatar |-> {}, addressing |-> {}, statuses |-> {}]

NoImmutables ==
  [params |-> {}, interfaces |-> {}, conn |-> {}, rccs |-> {}, vcard |-> {}, english |-> {},
   icon |-> {}, auth |-> {}, avatar |-> {}, addressing |-> {}, statuses |-> {}]
tp_base_protocol_get_immutable_properties(p) ==
  LET props == protocol_properties_getter(p)
  IN IF p.stub THEN [NoImmutables EXCEPT !.params = props.params]
     ELSE [props EXCEPT
             !.avatar = protocol_prop_avatar_getter(p.avatar),
             !.addressing = Opt("Addressing" \in p.interfaces, protocol_prop_addressing_getter(p)),
             !.statuses = Opt("Presence" \in p.interfaces, protocol_prop_presence_getter(p.statuses))]

Secret(name) == name \in {"password", "x-password"}
tp_protocol_params_from_param_specs(params) ==
  {[p EXCEPT !.flags = IF Secret(p.name) THEN @ \cup {"SECRET"} ELSE @] : p \in params}
tp_connection_manager_param_get_default(param) == Opt("HAS_DEFAULT" \in param.flags, param.def)
asv_strdupv_or_empty(list) == UNION list
title_case == "Name"
NoAvatar == [mime |-> {}, min_width |-> 0, min_height |-> 0, max_bytes |-> 0]
tp_protocol_check_for_core(imm) == imm.conn # {} /\ imm.rccs # {}

\* the TpProtocol, whose name is "name"
tp_protocol_constructed(imm) ==
  LET Has(i) == \E interfaces \in imm.interfaces : i \in interfaces
  IN [params |-> tp_protocol_params_from_param_specs(UNION imm.params),
      vcard |-> {strdown_field(f) : f \in imm.vcard \ {""}},
      english |-> IF imm.english \subseteq {""} THEN title_case ELSE Only(imm.english),
      icon |-> IF imm.icon \subseteq {""} THEN "im-name" ELSE Only(imm.icon),
      capabilities |-> imm.rccs,
      auth |-> asv_strdupv_or_empty(imm.auth),
      avatar |-> Opt(Has("Avatars"), IF imm.avatar = {} THEN NoAvatar ELSE Only(imm.avatar)),
      addressing |-> Opt(Has("Addressing"), asv_strdupv_or_empty(imm.addressing)),
      statuses |-> IF Has("Presence") THEN imm.statuses ELSE {},
      features |-> IF imm.params = {} THEN {}
                   ELSE {"PARAMETERS"} \cup (IF tp_protocol_check_for_core(imm) THEN {"CORE"} ELSE {})]
tp_protocol_dup_presence_statuses(view) ==
  UNION {{<<n, statuses[n]>> : n \in DOMAIN statuses} : statuses \in view.statuses}

\* the file that says the same: words for flags, a default only where there is
\* one, booleans as 1 and 0; a group for each channel class; and nothing but
\* the parameters of a protocol that tells no more
TextOf(value) ==
  IF value.type \in {"s", "as"} THEN Text("text", value.v)
  ELSE IF value.type = "o" THEN Text("path", value.v) ELSE Number(value.v)
write_manager(imm) ==
  [params |-> {[name |-> p.name, sig |-> p.sig, words |-> p.flags,
                default |-> Opt("HAS_DEFAULT" \in p.flags, TextOf(p.def))] : p \in UNION imm.params},
   interfaces |-> UNION imm.interfaces, conn |-> UNION imm.conn,
   rccs |-> IF imm.rccs = {} THEN << >>
            ELSE [i \in DOMAIN Only(imm.rccs) |->
                    LET c == Only(imm.rccs)[i]
                    IN [keys |-> [k \in DOMAIN c.fixed |-> [sig |-> c.fixed[k].type, text |-> TextOf(c.fixed[k])]],
                        allowed |-> c.allowed]],
   vcard |-> imm.vcard \ {""}, english |-> imm.english \ {""}, icon |-> imm.icon \ {""},
   auth |-> UNION imm.auth, avatar |-> imm.avatar,
   statuses |-> IF imm.statuses = {} THEN << >> ELSE Only(imm.statuses)]

_tp_protocol_parse_channel_class(keys) ==
  LET Value(k) == parse_default_value(keys[k].sig, keys[k].text)
  IN [k \in {k \in DOMAIN keys : Value(k) # {}} |-> Only(Value(k))]
_tp_protocol_parse_rcc(group) ==
  [fixed |-> _tp_protocol_parse_channel_class(group.keys), allowed |-> group.allowed]
replace_null_with_empty(s) == IF s = {} THEN {""} ELSE s
Initial(sig) ==
  GValue(init_gvalue_from_dbus_sig(sig), IF sig \in {"s", "o", "as"} THEN EMPTY ELSE ZERO)
\* has-default is not a word that is known
ParseParam(p) ==
  LET default == UNION {parse_default_value(p.sig, text) : text \in p.default}
  IN [name |-> p.name, sig |-> p.sig,
      flags |-> (p.words \cap {"REQUIRED", "REGISTER", "SECRET", "DBUS_PROPERTY"})
                  \cup (IF Secret(p.name) THEN {"SECRET"} ELSE {})
                  \cup (IF default # {} THEN {"HAS_DEFAULT"} ELSE {}),
      def |-> IF default # {} THEN Only(default) ELSE Initial(p.sig)]
ParseStatuses(statuses) ==
  LET known == {n \in DOMAIN statuses : statuses[n].type # UNSET}
  IN Opt(known # {}, [n \in known |-> statuses[n]])
_tp_protocol_parse_manager_file(file) ==
  [params |-> {{ParseParam(p) : p \in file.params}}, interfaces |-> {file.interfaces},
   conn |-> {file.conn}, rccs |-> {[i \in DOMAIN file.rccs |-> _tp_protocol_parse_rcc(file.rccs[i])]},
   vcard |-> replace_null_with_empty(file.vcard), english |-> replace_null_with_empty(file.english),
   icon |-> replace_null_with_empty(file.icon), auth |-> {file.auth},
   avatar |-> IF file.avatar = {} THEN {NoAvatar} ELSE file.avatar,
   addressing |-> {}, statuses |-> ParseStatuses(file.statuses)]

\* the protocols described
Described ==
  [stub |-> FALSE, specs |-> {}, interfaces |-> {}, conn |-> {}, rccs |-> << >>, vcard |-> "",
   english |-> "", icon |-> "", auth |-> {}, avatar |-> {}, addressing |-> {}, statuses |-> << >>]
Largest(dtype) == CHOOSE v \in Width(dtype) : \A w \in Width(dtype) : w <= v
DescribedParams ==
  {ParamSpec(n, d, f, IF "HAS_DEFAULT" \in f THEN Largest(d) ELSE Initial(d).v, "none") :
     n \in {"p", "password", "x-password"}, d \in DTypes,
     f \in SUBSET (Flags \cup {"SECRET", "DBUS_PROPERTY"})}
TextClass == [fixed |-> [ChannelType |-> GValue("s", ALICE), TargetHandleType |-> GValue("u", ONE)],
              allowed |-> {"TargetID"}]
SMSClass == [TextClass EXCEPT !.fixed = ("SMSChannel" :> GValue("b", ONE)) @@ @]
Descriptions ==
  {[Described EXCEPT !.specs = {s}] : s \in DescribedParams} \cup
  {[Described EXCEPT !.conn = c, !.rccs = r, !.vcard = v, !.english = e, !.icon = i, !.auth = a] :
     c \in {{}, {"Contacts"}}, r \in {<< >>, <<TextClass>>, <<SMSClass, TextClass>>},
     v \in {"", "x-field", "X-Field"}, e \in {"", "English"}, i \in {"", "icon"}, a \in {{}, {"TLS"}}} \cup
  {[Described EXCEPT !.stub = b, !.interfaces = i, !.avatar = a, !.addressing = d, !.statuses = s] :
     b \in BOOLEAN, i \in SUBSET {"Avatars", "Addressing", "Presence"},
     a \in {{}, {[mime |-> {"png"}, min_width |-> 1, min_height |-> 2, max_bytes |-> 3]}},
     d \in {{}, {"tel"}},
     s \in {<< >>} \cup {("available" :> Status(2, w, m)) @@ ("other" :> Status(t, TRUE, m)) :
                           w, m \in BOOLEAN, t \in {UNSET, 3}}}

\* the manager's Protocols property arrives; the .manager file is read; and a
\* TpProtocol is made with nothing known of it
Announce ==
  /\ Kind = "description" /\ made.bus = {}
  /\ made' = [made EXCEPT !.bus = {tp_protocol_constructed(tp_base_protocol_get_immutable_properties(self))}]
  /\ UNCHANGED self
tp_connection_manager_read_file ==
  /\ Kind = "description" /\ made.file = {}
  /\ made' = [made EXCEPT !.file =
       {tp_protocol_constructed(_tp_protocol_parse_manager_file(
          write_manager(tp_base_protocol_get_immutable_properties(self))))}]
  /\ UNCHANGED self
tp_protocol_new ==
  /\ Kind = "description" /\ made.bare = {}
  /\ made' = [made EXCEPT !.bare = {tp_protocol_constructed(NoImmutables)}]
  /\ UNCHANGED self

(***************************************************************************)
(* TpCapabilities: the requestable channel classes of a connection, or of a *)
(* contact.  Values are numbers; FALSE and TRUE are 0 and 1.                *)
(***************************************************************************)
TEXT == 1
CALL == 2
FILE == 3
TUBE == 4
SEARCH == 5
ROOMS == 6
HANDLE_NONE == 0
HANDLE_CONTACT == 1
HANDLE_ROOM == 2
Extras(type) ==
  CASE type = TEXT -> {"sms"} [] type = CALL -> {"audio", "video"} [] type = FILE -> {"uri", "date"}
    [] type = TUBE -> {"service"} [] type = SEARCH -> {"limit", "server"} [] type = ROOMS -> {"server"}

\* what a class fixes, and what else it allows; a file's own properties make no
\* sense as fixed ones
Classes(type) ==
  {[fixed |-> ("type" :> type) @@ f @@ e, allowed |-> a] :
     f \in {<< >>} \cup {"handle" :> h : h \in {HANDLE_NONE, HANDLE_CONTACT, HANDLE_ROOM}},
     e \in UNION {[x -> {0, 1}] : x \in IF type = FILE THEN {{}} ELSE SUBSET Extras(type)},
     a \in SUBSET Extras(type)}

\* tp_asv_get_uint32 and its valid, tp_asv_get_string, tp_asv_get_boolean
Holds(fixed, key, v) == key \in DOMAIN fixed /\ fixed[key] = v
FixedSize(class) == Cardinality(DOMAIN class.fixed)
Some(caps, Matches(_)) == \E i \in DOMAIN caps.classes : Matches(caps.classes[i])

supports_simple_channel(caps, type, handle) ==
  Some(caps, LAMBDA c : FixedSize(c) = 2 /\ Holds(c.fixed, "type", type) /\ Holds(c.fixed, "handle", handle))
tp_capabilities_supports_sms(caps) ==
  Some(caps, LAMBDA c :
    /\ Holds(c.fixed, "handle", HANDLE_CONTACT) /\ Holds(c.fixed, "type", TEXT)
    /\ IF Holds(c.fixed, "sms", 1) THEN FixedSize(c) = 3 ELSE "sms" \in c.allowed /\ FixedSize(c) = 2)
supports_call_full(caps, handle, audio, video) ==
  Some(caps, LAMBDA c :
    LET wanted == (IF audio THEN {"audio"} ELSE {}) \cup (IF video THEN {"video"} ELSE {})
        fixed == {w \in wanted : Holds(c.fixed, w, 1)}
    IN /\ Holds(c.fixed, "type", CALL) /\ Holds(c.fixed, "handle", handle)
       /\ wanted \ fixed \subseteq c.allowed
       /\ FixedSize(c) = 2 + Cardinality(fixed))
supports_file_transfer(caps, flags) ==
  Some(caps, LAMBDA c :
    /\ Holds(c.fixed, "type", FILE) /\ Holds(c.fixed, "handle", HANDLE_CONTACT)
    /\ flags \subseteq c.allowed
    /\ FixedSize(c) = 2)
\* service is {} for NULL
tp_capabilities_supports_tubes_common(caps, handle, service) ==
  Some(caps, LAMBDA c :
    LET checked == service # {} /\ caps.specific
    IN /\ Holds(c.fixed, "type", TUBE) /\ Holds(c.fixed, "handle", handle)
       /\ checked => Holds(c.fixed, "service", Only(service))
       /\ FixedSize(c) = IF checked THEN 3 ELSE 2)
tp_capabilities_supports_contact_search(caps, with) ==
  Some(caps, LAMBDA c : FixedSize(c) = 1 /\ Holds(c.fixed, "type", SEARCH) /\ with \subseteq c.allowed)
\* the first class that matches says whether there may be a server
tp_capabilities_supports_room_list(caps, with) ==
  LET matching == {i \in DOMAIN caps.classes :
                     LET c == caps.classes[i]
                     IN FixedSize(c) = 2 /\ Holds(c.fixed, "type", ROOMS)
                        /\ Holds(c.fixed, "handle", HANDLE_NONE)}
  IN \E i \in matching : (\A j \in matching : i <= j) /\ with \subseteq caps.classes[i].allowed

\* what is asked: a channel with these properties
Supports(caps, request) ==
  LET type == request["type"]
      extras == DOMAIN request \ {"type", "handle"}
  IN CASE type = TEXT /\ "sms" \in extras -> tp_capabilities_supports_sms(caps)
       [] type = TEXT /\ "sms" \notin extras -> supports_simple_channel(caps, TEXT, request["handle"])
       [] type = CALL -> supports_call_full(caps, request["handle"], "audio" \in extras, "video" \in extras)
       [] type = FILE -> supports_file_transfer(caps, extras)
       [] type = TUBE -> tp_capabilities_supports_tubes_common(caps, request["handle"],
                           {request[e] : e \in extras})
       [] type = SEARCH -> tp_capabilities_supports_contact_search(caps, extras)
       [] type = ROOMS -> tp_capabilities_supports_room_list(caps, extras)
Handles(type) ==
  CASE type = TEXT -> {HANDLE_CONTACT, HANDLE_ROOM} [] type = CALL -> HANDLE_NONE..HANDLE_ROOM
    [] type = FILE -> {HANDLE_CONTACT} [] type = TUBE -> {HANDLE_CONTACT, HANDLE_ROOM}
    [] type = ROOMS -> {HANDLE_NONE}
Requests(type) ==
  CASE type = SEARCH ->
         {("type" :> SEARCH) @@ e : e \in {<< >>, "limit" :> 1, "server" :> 1}}
    [] type = CALL ->
         {[type |-> CALL, handle |-> h, audio |-> 1] : h \in Handles(CALL)} \cup
         {[type |-> CALL, handle |-> h, audio |-> 1, video |-> 1] : h \in Handles(CALL)}
    [] OTHER ->
         {("type" :> type) @@ ("handle" :> h) @@ e : h \in Handles(type),
            e \in {<< >>} \cup {x :> 1 : x \in Extras(type)}}
           \ {[type |-> TEXT, handle |-> HANDLE_ROOM, sms |-> 1]}

_tp_capabilities_new ==
  \E type \in {TEXT, CALL, FILE, TUBE, SEARCH, ROOMS} : \E class \in Classes(type), specific \in BOOLEAN :
    /\ Kind = "capabilities" /\ self.classes = << >> /\ (specific => type = TUBE)
    /\ self' = [classes |-> <<class>>, specific |-> specific]
    /\ UNCHANGED made
AnotherClass ==
  \E type \in {TEXT, TUBE, ROOMS} : \E class \in Classes(type) :
    /\ Kind = "capabilities" /\ Len(self.classes) = 1 /\ self.classes[1].fixed["type"] = type
    /\ self' = [self EXCEPT !.classes = Append(@, class)]
    /\ UNCHANGED made

(***************************************************************************)
(* Names.  A letter, a digit, and the other characters that matter; the     *)
(* name of the bus daemon is one symbol.                                    *)
(***************************************************************************)
Characters == {"l", "d", "_", "-", ".", ":", "/"}
DBUS_SERVICE_DBUS == <<"D">>

\* a scan that stops at an error: last is "" at first
Scan(s, others, digits) ==
  LET Next1(st, c) ==
        IF ~st.ok THEN st
        ELSE [last |-> c, dot |-> st.dot \/ c = ".",
              ok |-> CASE c = "." -> st.last \notin {".", ""}
                       [] c = "d" -> digits \/ st.last \notin {".", ""}
                       [] OTHER -> c = "l" \/ c \in others]
      end == FoldLeft(Next1, [last |-> "", dot |-> FALSE, ok |-> TRUE], s)
  IN end.ok /\ end.last # "." /\ end.dot

tp_dbus_check_valid_bus_name(s, allow) ==
  LET unique == s # << >> /\ s[1] = ":"
  IN /\ s # << >>
     /\ IF s = DBUS_SERVICE_DBUS THEN "BUS_DAEMON" \in allow
        ELSE /\ unique => "UNIQUE" \in allow
             /\ ~unique => "WELL_KNOWN" \in allow
             /\ Len(s) <= NameLimit
             /\ Scan(IF unique THEN Tail(s) ELSE s, {"_", "-"}, unique)
tp_dbus_check_valid_interface_name(s) == s # << >> /\ Len(s) <= NameLimit /\ Scan(s, {"_"}, FALSE)
tp_dbus_check_valid_member_name(s) ==
  /\ s # << >> /\ Len(s) <= NameLimit
  /\ \A i \in DOMAIN s : IF s[i] = "d" THEN i # 1 ELSE s[i] \in {"l", "_"}
tp_dbus_check_valid_object_path(s) ==
  /\ s # << >> /\ s[1] = "/"
  /\ Len(s) > 1 =>
       /\ \A i \in 2..Len(s) : IF s[i] = "/" THEN s[i - 1] # "/" ELSE s[i] \in {"l", "d", "_"}
       /\ s[Len(s)] # "/"
tp_connection_manager_check_valid_name(s) ==
  s # << >> /\ s[1] = "l" /\ \A i \in DOMAIN s : s[i] \in {"l", "d", "_"}
tp_connection_manager_check_valid_protocol_name(s) ==
  s # << >> /\ s[1] = "l" /\ \A i \in DOMAIN s : s[i] \in {"l", "d", "-"}
\* e.g. local-xmpp -> local_xmpp, in the path of the protocol's object
g_strdelimit(s, from, to) == [i \in DOMAIN s |-> IF s[i] = from THEN to ELSE s[i]]

Longer ==
  \E c \in Characters :
    /\ Kind = "names" /\ Len(self) < MaxName /\ self # DBUS_SERVICE_DBUS
    /\ self' = Append(self, c)
    /\ UNCHANGED made

(***************************************************************************)
(* tp_list_connection_managers: a call for the activatable names, one for   *)
(* the names, and a TpConnectionManager to prepare for each that is valid.  *)
(* The context is counted by the call and by each manager being prepared.   *)
(***************************************************************************)
Listing(weak, async) ==
  [refcount |-> 1, call |-> "ListActivatableNames", table |-> {}, arr |-> {}, to_ready |-> 0,
   had_weak |-> weak, weak |-> weak, async |-> async, freed |-> FALSE]
NothingTold ==
  [told |-> 0, error |-> FALSE, cms |-> {}, late |-> FALSE, destroyed |-> 0, idle |-> 0,
   delivered |-> 0, names |-> {}]

\* a context and what its caller was told
Context(l, m) == [l |-> l, m |-> m]
\* the callback of the caller; the asynchronous call's completes its result in an idle
list_connection_managers_async_cb(x) ==
  IF x.l.async THEN [x EXCEPT !.m.idle = @ + 1] ELSE x
Callback(x, error, cms) ==
  list_connection_managers_async_cb(
    [x EXCEPT !.m.told = @ + 1, !.m.error = error, !.m.cms = cms,
              !.m.late = @ \/ x.m.destroyed > 0 \/ (x.l.had_weak /\ ~x.l.weak) \/ x.l.freed])
list_context_unref(x) ==
  LET y == [x EXCEPT !.l.refcount = @ - 1]
  IN IF y.l.refcount > 0 THEN y
     ELSE [y EXCEPT !.l.freed = TRUE, !.m.destroyed = @ + 1]
all_cms_prepared(x) ==
  IF ~x.l.had_weak \/ x.l.weak THEN Callback(x, FALSE, x.l.arr) ELSE x
steal_into_ptr_array(l) == [l EXCEPT !.arr = l.table, !.table = {}]
\* bad names are ignored
tp_list_connection_managers_got_names(x, names) ==
  LET found == {n \in names : tp_connection_manager_check_valid_name(n)}
      y == [x EXCEPT !.l.table = @ \cup found, !.m.names = @ \cup names]
  IN IF x.l.call = "ListActivatableNames"
     THEN [y EXCEPT !.l.call = "ListNames", !.l.refcount = @ + 1]
     ELSE LET z == [y EXCEPT !.l = [steal_into_ptr_array(y.l) EXCEPT
                                     !.call = "none", !.to_ready = Cardinality(y.l.table),
                                     !.refcount = @ + Cardinality(y.l.table)]]
          IN IF z.l.to_ready = 0 THEN all_cms_prepared(z) ELSE z
tp_list_connection_managers_cm_prepared(x) ==
  LET y == [x EXCEPT !.l.to_ready = @ - 1]
  IN list_context_unref(IF y.l.to_ready = 0 THEN all_cms_prepared(y) ELSE y)

DoList(x) == self' = x.l /\ made' = x.m
\* a reply runs the callback, and then the destructor of its data
GotNames ==
  \E names \in SUBSET Managers :
    /\ Kind = "listing" /\ self.call \in {"ListActivatableNames", "ListNames"}
    /\ DoList(list_context_unref(tp_list_connection_managers_got_names(Context(self, made), names)))
GotError ==
  /\ Kind = "listing" /\ self.call \in {"ListActivatableNames", "ListNames"}
  /\ DoList(list_context_unref(Callback(Context([self EXCEPT !.call = "none"], made), TRUE, {})))
CmPrepared ==
  /\ Kind = "listing" /\ self.to_ready > 0
  /\ DoList(tp_list_connection_managers_cm_prepared(Context(self, made)))
\* the weak object goes: a call that is pending is cancelled
WeakObjectDies ==
  /\ Kind = "listing" /\ self.weak
  /\ self' = [self EXCEPT !.weak = FALSE, !.call = IF @ = "none" THEN @ ELSE "cancelled"]
  /\ UNCHANGED made
CancelledCallFreed ==
  /\ Kind = "listing" /\ self.call = "cancelled"
  /\ DoList(list_context_unref(Context([self EXCEPT !.call = "none"], made)))
ResultDelivered ==
  /\ Kind = "listing" /\ made.idle > 0
  /\ made' = [made EXCEPT !.idle = @ - 1, !.delivered = @ + 1]
  /\ UNCHANGED self

(***************************************************************************)
(* The specification.                                                       *)
(***************************************************************************)
Init ==
  \/ Kind = "service" /\ self \in Services /\ made = NoCall
  \/ Kind = "file" /\ self \in UNION {{[sig |-> d, text |-> t] : t \in Texts(d)} : d \in DTypes}
       /\ made = [read |-> FALSE, value |-> {}]
  \/ Kind = "description" /\ self \in Descriptions /\ made = [bus |-> {}, file |-> {}, bare |-> {}]
  \/ Kind = "capabilities" /\ self = [classes |-> << >>, specific |-> FALSE] /\ made = << >>
  \/ Kind = "names" /\ self \in {<< >>, DBUS_SERVICE_DBUS} /\ made = << >>
  \/ Kind = "listing" /\ self \in {Listing(TRUE, FALSE), Listing(FALSE, FALSE), Listing(FALSE, TRUE)}
       /\ made = NothingTold

Next ==
  \/ RequestConnection \/ tp_protocol_identify_account_async
  \/ tp_protocol_normalize_contact_async \/ tp_protocol_normalize_contact_uri_async
  \/ tp_protocol_normalize_vcard_address_async \/ Cancel \/ tp_protocol_async_string_cb
  \/ ReadDefault
  \/ Announce \/ tp_connection_manager_read_file \/ tp_protocol_new
  \/ _tp_capabilities_new \/ AnotherClass
  \/ Longer
  \/ GotNames \/ GotError \/ CmPrepared \/ WeakObjectDies \/ CancelledCallFreed \/ ResultDelivered

Spec == Init /\ [][Next]_vars

SoundConstants ==
  /\ Kind \in {"service", "file", "description", "capabilities", "names", "listing"}
  /\ DTypes \subseteq {"b", "s", "o", "as", "d", "y", "n", "q", "i", "u", "x", "t"}
  /\ MixedCase \in BOOLEAN
  /\ NameLimit \in Nat /\ MaxName \in Nat
  /\ IsFiniteSet(Managers)

\* Every part stays within its type: the values a connection is given have the
\* types of the parameters, and the context of a listing is counted by what
\* still refers to it.
TypeOK ==
  /\ Kind = "service" =>
       /\ made.task \in {"none", "waiting", "done", "cancelled"}
       /\ \A n \in DOMAIN made.answer.params : made.answer.params[n].type \in GTypes
  /\ Kind = "file" => made.value \subseteq {GValue(init_gvalue_from_dbus_sig(self.sig), v) :
                                               v \in Outside \cup G_MININT64..G_MAXUINT64 \cup Ids}
  /\ Kind = "description" => \A v \in made.bus \cup made.file : v.features \subseteq {"PARAMETERS", "CORE"}
  /\ Kind = "listing" =>
       /\ self.refcount = (IF self.call = "none" THEN 0 ELSE 1) + self.to_ready
       /\ self.freed <=> self.refcount = 0

\* whether a value is one of a D-Bus type, and what it then is
Denotes(dtype, value) ==
  IF dtype \in {"b", "s", "o", "as"} THEN value.type = dtype
  ELSE IF dtype = "d" THEN value.type \in Integral \cup {"d"}
  ELSE value.type \in Integral /\ value.v \in Width(dtype)
Acceptable(specs, asv) ==
  LET register == "register" \in DOMAIN asv /\ asv["register"] = GValue("b", ONE)
  IN /\ \A n \in DOMAIN asv : \E s \in specs : s.name = n /\ Denotes(s.dtype, asv[n]) /\ Filter(s, asv[n])
     /\ \A s \in specs : (IF register THEN "REGISTER" ELSE "REQUIRED") \in s.flags => s.name \in DOMAIN asv

\* RequestConnection accepts exactly the parameters that the specifications
\* describe: each is known, denotes a value of its type whatever integer type
\* carries it, passes its filter, and those that must be there are
\* (sanitize_parameters).  The connection is then made with the same values in
\* the parameters' own types, and with the defaults of the others that have one,
\* so that neither the setters of a legacy manager nor the assertions of the
\* examples, which say that the library checked, ever fail.
ParametersAsDeclared ==
  (/\ Kind = "service" /\ made.call = "RequestConnection"
   /\ made.answer.error \notin {"InvalidName", "NotImplemented"}) =>
    /\ made.answer.error # "assertion"
    /\ made.answer.ok <=> Acceptable(self.specs, made.given)
    /\ made.answer.ok =>
         /\ DOMAIN made.answer.params =
              DOMAIN made.given \cup {s.name : s \in {s \in self.specs : "HAS_DEFAULT" \in s.flags}}
         /\ \A s \in self.specs : s.name \in DOMAIN made.answer.params =>
              made.answer.params[s.name] =
                GValue(init_gvalue_from_dbus_sig(s.dtype),
                       IF s.name \in DOMAIN made.given THEN made.given[s.name].v ELSE s.def)

\* IdentifyAccount answers for exactly the parameters that RequestConnection
\* would make a connection of, with an identifier that is its own normal form,
\* and so is every identifier the other methods answer with.
IdentifiersAreNormal ==
  (Kind = "service" /\ made.task = "done" /\ self.protocol # "legacy") =>
    /\ made.call = "IdentifyAccount" =>
         (made.answer.ok <=> tp_base_protocol_new_connection(self, made.given).ok)
    /\ (made.call # "RequestConnection" /\ made.answer.ok) =>
         normalize_contact(self.protocol, made.answer.id) = {made.answer.id}

\* what a text in a file means
Means(sig, text) ==
  CASE sig = "b" -> {GValue("b", v) : v \in {v \in {ZERO, ONE} :
                       \/ text = Number(v)
                       \/ text.word \in IF v = ONE THEN {"true", "True"} ELSE {"false", "False"}}}
    [] sig = "o" -> {GValue("o", text.v) : w \in {text.word} \cap {"path"}}
    [] sig \in {"s", "as"} -> {GValue(sig, text.v)}
    [] OTHER -> {GValue(init_gvalue_from_dbus_sig(sig), text.v) : w \in {w \in {text.word} :
                   w = "number" /\ (sig = "d" \/ text.v \in Width(sig))}}

\* A default in a .manager file is taken as what it says, and refused if it is
\* no value of the parameter's type, at every edge of the integer types
\* (parse_default_value); but GKeyFile does not tell a 64-bit number that is
\* too large.
ParsedAsWritten ==
  (Kind = "file" /\ made.read) =>
    \/ made.value = Means(self.sig, self.text)
    \/ self.sig \in {"x", "t"} /\ self.text.word = "number" /\ self.text.v \notin Width(self.sig)

\* What is known of a protocol is the same whether its manager announced it or
\* its .manager file was read: the parameters with their flags and defaults, and
\* unless the manager tells nothing else, the names, the channel classes, the
\* avatars' limits and the statuses that have a type.  (A file says nothing of
\* Addressing.)  The core feature is only there with the channel classes, and a
\* protocol of which nothing was said has neither feature.
DescriptionsAgree ==
  Kind = "description" =>
    /\ \A b \in made.bus, f \in made.file :
         LET Known(v) == {<<p.name, p.flags, p.sig, tp_connection_manager_param_get_default(p)>> : p \in v.params}
             Rest(v) == <<v.vcard, v.english, v.icon, v.capabilities, v.auth, v.avatar, v.features>>
             Typed(v) == {s \in tp_protocol_dup_presence_statuses(v) : s[2].type # UNSET}
         IN /\ Known(b) = Known(f)
            /\ ~self.stub => Rest(b) = Rest(f) /\ Typed(b) = tp_protocol_dup_presence_statuses(f)
    /\ \A v \in made.bus \cup made.file \cup made.bare :
         /\ "CORE" \in v.features => v.capabilities # {}
         /\ v.english # "" /\ v.icon # ""
    /\ \A v \in made.bare : v.features = {}

\* a request fits a class if it has what is fixed and nothing that is not allowed;
\* a connection's tubes are assumed to allow the service
Fits(request, class, specific) ==
  /\ \A k \in DOMAIN class.fixed : k \in DOMAIN request /\ request[k] = class.fixed[k]
  /\ DOMAIN request \ DOMAIN class.fixed \subseteq
       class.allowed \cup (IF specific THEN {} ELSE {"service"})
\* a class fixes its handle type, except for searches, which fix nothing more;
\* a contact's tubes fix their service
WellFormed(class, specific) ==
  /\ class.fixed["type"] # SEARCH => "handle" \in DOMAIN class.fixed
  /\ class.fixed["type"] = SEARCH => DOMAIN class.fixed = {"type"}
  /\ class.fixed["type"] = TUBE => "service" \notin (IF specific THEN class.allowed ELSE DOMAIN class.fixed)

\* A TpCapabilities says that a channel can be requested exactly when the request
\* its documentation describes fits one of the classes, whatever the classes
\* fix, allow or leave out; it may only fail to tell of a server for room lists
\* that a later class allows.
SupportsIsRight ==
  Kind = "capabilities" =>
    \A i \in DOMAIN self.classes : \A request \in Requests(self.classes[i].fixed["type"]) :
      LET fits == \E j \in DOMAIN self.classes : Fits(request, self.classes[j], self.specific)
      IN /\ Supports(self, request) => fits
         /\ (/\ \A j \in DOMAIN self.classes : WellFormed(self.classes[j], self.specific)
             /\ ~(request["type"] = ROOMS /\ "server" \in DOMAIN request)) =>
              (fits => Supports(self, request))

\* the elements of a name between its dots
Elements(s, sep) ==
  LET ends == {0, Len(s) + 1} \cup {i \in DOMAIN s : s[i] = sep}
  IN {SubSeq(s, i + 1, j - 1) : <<i, j>> \in {<<i, j>> \in ends \X ends :
        i < j /\ \A k \in ends : ~(i < k /\ k < j)}}
Word(e, chars) == e # << >> /\ \A i \in DOMAIN e : e[i] \in chars
Dotted(s, chars, digits) ==
  /\ Contains(s, ".")
  /\ \A e \in Elements(s, ".") : Word(e, chars) /\ (~digits => e[1] # "d")

\* The checks of names accept exactly the grammar of the D-Bus specification:
\* elements between dots or slashes that are words without a leading digit
\* (which only a unique name may have), at least two of them in bus and
\* interface names, up to the limit of the length.  A manager's name makes a
\* valid bus name and object path, and the path of a protocol's object tells
\* which protocol it is, though '-' becomes '_' in it.
NamesAsSpecified ==
  Kind = "names" =>
    LET n == Len(self)
        short == n <= NameLimit
    IN /\ tp_dbus_check_valid_interface_name(self) <=> (short /\ Dotted(self, {"l", "d", "_"}, FALSE))
       /\ tp_dbus_check_valid_member_name(self) <=>
            (short /\ Word(self, {"l", "d", "_"}) /\ self[1] # "d")
       /\ \A allow \in SUBSET {"BUS_DAEMON", "UNIQUE", "WELL_KNOWN"} :
            tp_dbus_check_valid_bus_name(self, allow) <=>
              \/ "BUS_DAEMON" \in allow /\ self = DBUS_SERVICE_DBUS
              \/ "WELL_KNOWN" \in allow /\ short /\ Dotted(self, {"l", "d", "_", "-"}, FALSE)
              \/ /\ "UNIQUE" \in allow /\ short /\ n > 0 /\ self[1] = ":"
                 /\ Dotted(Tail(self), {"l", "d", "_", "-"}, TRUE)
       /\ tp_dbus_check_valid_object_path(self) <=>
            \/ self = <<"/">>
            \/ n > 0 /\ self[1] = "/" /\ \A e \in Elements(Tail(self), "/") : Word(e, {"l", "d", "_"})
       /\ tp_connection_manager_check_valid_name(self) =>
            /\ tp_dbus_check_valid_object_path(<<"/">> \o self)
            /\ n + 2 <= NameLimit => tp_dbus_check_valid_bus_name(<<"l", ".">> \o self, {"WELL_KNOWN"})
       /\ tp_connection_manager_check_valid_protocol_name(self) =>
            LET path == g_strdelimit(self, "-", "_")
            IN tp_dbus_check_valid_object_path(<<"/">> \o path) /\ g_strdelimit(path, "_", "-") = self

\* tp_list_connection_managers calls back at most once, neither after its data
\* were destroyed nor for a weak object that has gone, and destroys them once;
\* it ends without a call only if the object went.  On success it tells of
\* exactly the valid names that either call listed, when none is still being
\* prepared; and the result of the asynchronous variant is delivered once.
ListingIsAnswered ==
  Kind = "listing" =>
    /\ made.told <= 1 /\ ~made.late
    /\ made.destroyed = IF self.freed THEN 1 ELSE 0
    /\ self.freed => made.told = 1 \/ (self.had_weak /\ ~self.weak)
    /\ (made.told = 1 /\ ~made.error) =>
         /\ made.cms = {n \in made.names : tp_connection_manager_check_valid_name(n)}
         /\ self.to_ready = 0
    /\ made.idle + made.delivered = IF self.async THEN made.told ELSE 0
====
