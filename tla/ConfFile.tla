------------------------------ MODULE ConfFile ------------------------------
(***************************************************************************)
(* The configuration file: the parser rs_init_conf() with rs_conf_apply()  *)
(* and the hash of the registered keys, rs_conf_register(), rs_shash_add() *)
(* and rs_shash_get(), as operators; and what a file means, line by line,  *)
(* defined without them.                                                   *)
(*                                                                         *)
(* A text is a sequence of tokens: "#", "[", "]", " ", "\n", and words.  A *)
(* key is a sequence of words, so that one key can be a prefix of another, *)
(* as log is of log.level.  Lengths are counted in tokens.                 *)
(***************************************************************************)
EXTENDS Integers, SequencesExt, FiniteSetsExt

CONSTANTS
  Hash(_, _),   \* Hash(key, n): rs_bkd_hash(key) % n
  ModuleMax, KeyMax, ValueMax,  \* RS_CONF_..._MAX_LEN
  NULL

Space == " "
Blank == {Space, "\n"}

-----------------------------------------------------------------------------
(* The hash of strings: num chains of registered keys.                     *)

Exists(h, b, key) == \E j \in DOMAIN h[b] : IsPrefix(key, h[b][j])

AddFirst_mut(h, key) ==
  LET b == Hash(key, Len(h)) + 1
  IN  IF Exists(h, b, key) THEN NULL ELSE [h EXCEPT ![b] = <<key>> \o @]

\* rs_shash_add(): behind the last of its chain; RS_EXISTS, here NULL, when a
\* key of the chain begins with the new one.
Add(h, key) ==
  LET b == Hash(key, Len(h)) + 1
  IN  IF Exists(h, b, key) THEN NULL ELSE [h EXCEPT ![b] = Append(@, key)]

\* rs_create_shash() and a rs_conf_register() for each of the keys; the first
\* that fails ends it.
AddNext(h, key) == IF h = NULL THEN NULL ELSE Add(h, key)
Register(keys, num) ==
  LET h[i \in 0 .. Len(keys)] ==
        IF i = 0 THEN [b \in 1 .. num |-> << >>] ELSE AddNext(h[i - 1], keys[i])
  IN  h[Len(keys)]

\* rs_shash_get(): the first key of the chain that begins like the one wanted.
Lookup(h, key) ==
  LET chain == h[Hash(key, Len(h)) + 1]
      hit   == {j \in DOMAIN chain : IsPrefix(key, chain[j])}
  IN  IF hit = {} THEN NULL ELSE chain[Min(hit)]

-----------------------------------------------------------------------------
(* The parser.  in says which of module, key and value is set; k, v and m  *)
(* are the buffers of the same names, n is i.                              *)

Start == [in |-> "none", comment |-> FALSE, n |-> 0, m |-> << >>, k |-> << >>,
          v |-> << >>, data |-> << >>, ok |-> TRUE]

Fail(st) == [st EXCEPT !.ok = FALSE]
Put(st, buf, c) == [st EXCEPT ![buf] = Append(@, c), !.n = @ + 1]

Module(name, st, c) ==
  IF st.n > ModuleMax \/ c = "\n" THEN Fail(st)
  ELSE IF c # "]" THEN Put(st, "m", c)
  ELSE IF IsPrefix(name, st.m) THEN [st EXCEPT !.in = "key", !.k = << >>, !.n = 0]
  ELSE [st EXCEPT !.in = "none"]

Key(st, c) ==
  IF st.k = << >> /\ c \in Blank THEN st
  ELSE IF st.n > KeyMax \/ c = "\n" THEN Fail(st)
  ELSE IF c # Space THEN Put(st, "k", c)
  ELSE [st EXCEPT !.in = "value", !.v = << >>]

\* rs_conf_apply() puts the value where the key was registered for.
Apply(h, st) ==
  LET key == Lookup(h, st.k)
  IN  IF key = NULL THEN Fail(st)
      ELSE [st EXCEPT !.data = Append(@, <<key, st.v>>), !.in = "key",
                      !.k = << >>, !.n = 0]

Value(h, st, c) ==
  IF st.v = << >> /\ c \in Blank THEN st
  ELSE IF st.n > ValueMax THEN Fail(st)
  ELSE IF c # "\n" THEN Put(st, "v", c)
  ELSE Apply(h, st)

\* One character.  A comment may begin anywhere and swallows its newline.
Step(h, name, st, c) ==
  IF ~st.ok THEN st
  ELSE IF c = "#" /\ ~st.comment THEN [st EXCEPT !.comment = TRUE]
  ELSE IF st.comment THEN [st EXCEPT !.comment = (c # "\n")]
  ELSE IF c = "[" THEN [st EXCEPT !.in = "module", !.m = << >>, !.n = 0]
  ELSE CASE st.in = "module" -> Module(name, st, c)
         [] st.in = "key"    -> Key(st, c)
         [] st.in = "value"  -> Value(h, st, c)
         [] OTHER            -> st

Run(h, name, text) ==
  LET st[i \in 0 .. Len(text)] ==
        IF i = 0 THEN Start ELSE Step(h, name, st[i - 1], text[i])
  IN  st[Len(text)]

\* A later assignment replaces an earlier one.  What the end of the file cuts
\* short is not applied.
Parse(text, name, keys, num) ==
  LET h   == Register(keys, num)
      end == Run(h, name, text)
  IN  IF h = NULL \/ ~end.ok THEN NULL
      ELSE [key \in ToSet(keys) |->
              LET mine == {j \in DOMAIN end.data : end.data[j][1] = key}
              IN  IF mine = {} THEN NULL ELSE end.data[Max(mine)][2]]

-----------------------------------------------------------------------------
(* What a file means.  Lines are records [kind, name, value].              *)

Line(kind, name, value) == [kind |-> kind, name |-> name, value |-> value]

LineText(l) ==
  CASE l.kind = "blank"   -> <<"\n">>
    [] l.kind = "comment" -> <<"#">> \o l.value \o <<"\n">>
    [] l.kind = "header"  -> <<"[">> \o l.name \o <<"]", "\n">>
    [] l.kind = "broken"  -> <<"[">> \o l.name \o <<"\n">>
    [] l.kind = "entry"   -> <<Space>> \o l.name \o <<Space, Space>> \o l.value \o <<"\n">>
    [] l.kind = "bare"    -> l.name \o <<"\n">>

\* A line as the examples in etc/ have them: nothing in it ends it early or begins
\* something else, and it fits its buffer; no section is named like the beginning
\* of another, and no entry like that of a key.
WellWritten(l, sections, keyLists) ==
  /\ l.kind \in {"blank", "comment", "header", "broken", "entry", "bare"}
  /\ l.name \in Seq(STRING) /\ l.value \in Seq(STRING)
  /\ l.kind = "comment" => "\n" \notin Range(l.value)
  /\ l.kind \in {"header", "broken"} =>
       Range(l.name) \cap {"#", "[", "]", "\n"} = {} /\ Len(l.name) <= ModuleMax
  /\ l.kind = "header" => \A s \in sections : IsPrefix(s, l.name) => l.name = s
  /\ l.kind \in {"entry", "bare"} =>
       /\ l.name # << >> /\ Range(l.name) \cap {"#", "[", "\n", Space} = {}
       /\ Len(l.name) <= KeyMax
  /\ l.kind = "entry" =>
       /\ l.value # << >> /\ l.value[1] # Space /\ Range(l.value) \cap {"#", "[", "\n"} = {}
       /\ Len(l.name) + Len(l.value) <= ValueMax
       /\ \A keys \in keyLists :
            l.name \in ToSet(keys) \/ \A key \in ToSet(keys) : ~IsPrefix(l.name, key)

Text(lines) ==
  LET text[j \in 0 .. Len(lines)] ==
        IF j = 0 THEN << >> ELSE text[j - 1] \o LineText(lines[j])
  IN  text[Len(lines)]

\* The lines of section name.
Section(lines, name) ==
  {j \in DOMAIN lines :
     LET heads == {i \in 1 .. j : lines[i].kind = "header"}
     IN  heads # {} /\ lines[Max(heads)].name = name /\ j \notin heads}

Meaning(lines, name, keys) ==
  LET mine == Section(lines, name)
      Sets(key) == {j \in mine : lines[j].kind = "entry" /\ lines[j].name = key}
  IN  IF \/ \E l \in ToSet(lines) : l.kind = "broken"
         \/ \E j \in mine : \/ lines[j].kind = "bare"
                            \/ lines[j].kind = "entry" /\ lines[j].name \notin ToSet(keys)
      THEN NULL
      ELSE [key \in ToSet(keys) |->
              IF Sets(key) = {} THEN NULL ELSE lines[Max(Sets(key))].value]
=============================================================================
