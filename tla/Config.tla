------------------------------- MODULE Config -------------------------------
(***************************************************************************)
(* rumprun_config: the configuration in the kernel's command line, from    *)
(* its text through the tokeniser and one handler per key to the programs  *)
(* to run and the calls to the rump kernel.                                *)
(***************************************************************************)
EXTENDS Jsmn, FiniteSets

CONSTANTS Configs,       \* the configurations to write down and read
          Layouts        \* white space between lexemes

\* A configuration is a sequence of entries, each with its key.
VARIABLES config,
          cmdline,        \* the text: what rumprun_config is given
          tokens,
          t,              \* the token the loop is at; 0 before
          rumprun_execs, env, hostname,
          calls,          \* what was asked of the rump kernel, in order
          nextvnd,
          status          \* "config", "done", "exit" (errx), "fault"
cvars == <<config, cmdline, tokens, t, rumprun_execs, env, hostname, calls, nextvnd, status>>

-----------------------------------------------------------------------------
(* Tokens                                                                  *)

tok(i) == tokens[i]
T_STR(i) == SubSeq(cmdline, tok(i).start + 1, tok(i).end)

\* The comparison stops at the token's length: a prefix of the name matches,
\* so does the documented "rc" for "rc_TESTING".
T_STREQ(i, name) == T_STR(i) \in {<<>>, <<name>>} \/ (name = "rc_TESTING" /\ T_STR(i) = <<"rc">>)

Is(i, type) == i \in DOMAIN tokens /\ tok(i).type = type
Leaf(i) == Is(i, "STRING") /\ tok(i).size = 0

-----------------------------------------------------------------------------
(* rumprun_parseargs: the arguments are cut out of the string in place.    *)

At(p, i) == IF i > Len(p.buf) THEN "NUL" ELSE p.buf[i]
Begin(p, next) == [p EXCEPT !.out = next - 1, !.argv = Append(@, next - 1), !.quote = ""]

Put(p, c) ==
  IF p.out = 0 THEN p
  ELSE [p EXCEPT !.buf = [j \in 1 .. Len(@) |-> IF j = p.out THEN c ELSE @[j]], !.out = @ + 1]

\* Inside an argument: the end of a quote, the start of one, or a character.
InArg(p, ac, rc) ==
  IF p.quote # "" /\ ac = p.quote THEN [p EXCEPT !.quote = ""]
  ELSE IF ac \in {"'", "\""} THEN [p EXCEPT !.quote = ac]
  ELSE Put(p, rc)

ArgStep(p, ac, rc, next) ==
  IF rc = "NUL" THEN [Put(p, "NUL") EXCEPT !.quote = "outside"]
  ELSE IF ac \in {" ", "\n", "\t"} /\ p.quote = "" THEN [Put(p, "NUL") EXCEPT !.quote = "outside"]
  ELSE IF ac \in {" ", "\n", "\t"} /\ p.quote = "outside" THEN p
  ELSE InArg(IF p.quote = "outside" THEN Begin(p, next) ELSE p, ac, rc)

RECURSIVE ParseArgs(_, _)
ParseArgs(p, i) ==
  LET ac == At(p, i)
      next == IF ac = "\\" THEN i + 2 ELSE i + 1
      rc == At(p, next - 1)
  IN IF rc = "NUL" THEN ArgStep(p, ac, rc, next) ELSE ParseArgs(ArgStep(p, ac, rc, next), next)

CString(buf, i) == SubSeq(buf, i, (CHOOSE j \in i .. Len(buf) : buf[j] = "NUL" /\ \A k \in i .. j - 1 : buf[k] # "NUL") - 1)

\* The string, with its NUL, as it is cut into arguments.
rumprun_parseargs(s) ==
  LET p == ParseArgs([buf |-> Append(s, "NUL"), out |-> 0, quote |-> "outside", argv |-> <<>>], 1)
  IN [i \in DOMAIN p.argv |-> CString(p.buf, p.argv[i])]

-----------------------------------------------------------------------------
(* Handlers.  Each leaves by errx for a token it does not expect.          *)

Exits == status' = "exit" /\ UNCHANGED <<config, cmdline, tokens, t, rumprun_execs, env, hostname, nextvnd>>
errx == Exits /\ UNCHANGED calls
Key(name) == status = "config" /\ Is(t, "STRING") /\ T_STREQ(t, name)
\* The handler has read n tokens behind the key.
Handled(n) == t' = t + 1 + n /\ UNCHANGED <<config, cmdline, tokens, status>>
AddExecs(s) == rumprun_execs' = rumprun_execs \o s /\ UNCHANGED <<env, hostname, calls, nextvnd>>

makeargv(s) == <<[argv |-> rumprun_parseargs(s), flags |-> "CMDLINE"]>>

handle_cmdline ==
  /\ Key("cmdline")
  /\ IF Is(t + 1, "STRING") THEN Handled(1) /\ AddExecs(makeargv(T_STR(t + 1))) ELSE errx

handle_env ==
  /\ Key("env")
  /\ IF ~ Is(t + 1, "STRING") THEN errx
     ELSE Handled(1) /\ env' = Append(env, T_STR(t + 1)) /\ UNCHANGED <<rumprun_execs, hostname, calls, nextvnd>>

handle_hostname ==
  /\ Key("hostname")
  /\ IF ~ Is(t + 1, "STRING") THEN errx
     ELSE Handled(1) /\ hostname' = T_STR(t + 1) /\ UNCHANGED <<rumprun_execs, env, calls, nextvnd>>

\* The members of the n-member object whose first key is at i; an array's
\* contents are skipped.
Inside(i) == IF Is(i, "ARRAY") THEN tok(i).size ELSE 0
RECURSIVE Members(_, _)
Members(i, n) ==
  IF n = 0 \/ i + 1 > Len(tokens) THEN <<>>
  ELSE <<[key |-> i, value |-> i + 1]>> \o Members(i + 2 + Inside(i + 1), n - 1)
MembersOf(o) == Members(o + 1, tok(o).size)
EndOf(o) == IF tok(o).size = 0 THEN o + 1 ELSE Last(MembersOf(o)).value + 1 + Inside(Last(MembersOf(o)).value)

\* The value of the last member called name; 0 for none.
Member(o, name) ==
  LET values == {m.value : m \in {m \in ToSet(MembersOf(o)) : T_STREQ(m.key, name)}}
  IN IF values = {} THEN 0 ELSE CHOOSE v \in values : \A w \in values : w <= v

\* Every member of o is a string with one of the names and a string value.
Pairs(o, names) ==
  /\ Is(o, "OBJECT") /\ Len(MembersOf(o)) = tok(o).size
  /\ \A m \in ToSet(MembersOf(o)) :
       /\ Is(m.key, "STRING") /\ \E n \in names : T_STREQ(m.key, n)
       /\ (tok(m.key).size = 1 /\ Leaf(m.value)) \/ (T_STREQ(m.key, "argv") /\ Is(m.value, "ARRAY"))

Runmode(v) == IF v = 0 THEN "" ELSE IF T_STR(v) = <<"&">> THEN "BACKGROUND" ELSE "PIPE"
addbin(o) ==
  [argv |-> [i \in 1 .. 1 + tok(Member(o, "argv")).size |->
               T_STR(IF i = 1 THEN Member(o, "bin") ELSE Member(o, "argv") + i - 1)],
   flags |-> Runmode(Member(o, "runmode"))]

\* What addbin checks before it reads argv's size.
BinKnown(o) ==
  /\ Pairs(o, {"bin", "argv", "runmode"})
  /\ Member(o, "bin") # 0
  /\ Member(o, "runmode") # 0 => T_STR(Member(o, "runmode")) \in {<<"&">>, <<"|">>}
ArgvStrings(o) == \A i \in 1 .. tok(Member(o, "argv")).size : Is(Member(o, "argv") + i, "STRING")

RECURSIVE Bins(_, _)
Bins(o, n) ==
  IF n = 0 \/ o > Len(tokens) THEN <<>>
  ELSE <<o>> \o IF BinKnown(o) THEN Bins(EndOf(o), n - 1) ELSE <<>>

\* t_argv is NULL where an entry has no argv.
handle_rc ==
  /\ Key("rc_TESTING")
  /\ IF ~ Is(t + 1, "ARRAY") THEN errx
     ELSE \E bins \in {Bins(t + 2, tok(t + 1).size)} :
            IF \E o \in ToSet(bins) : BinKnown(o) /\ Member(o, "argv") = 0
            THEN status' = "fault" /\ UNCHANGED <<config, cmdline, tokens, t, rumprun_execs, env, hostname, calls, nextvnd>>
            ELSE IF \E o \in ToSet(bins) : ~ BinKnown(o) \/ ~ ArgvStrings(o) THEN errx
            ELSE /\ Handled(IF bins = <<>> THEN 1 ELSE EndOf(Last(bins)) - t - 1)
                 /\ AddExecs([i \in DOMAIN bins |-> addbin(bins[i])])

-----------------------------------------------------------------------------
(* Handlers that call the rump kernel: each call may fail, and then the    *)
(* program exits.                                                          *)

Failed == [call |-> "failed"]
BreaksOff(cs) == \E k \in 0 .. Len(cs) - 1 : calls' = calls \o SubSeq(cs, 1, k) \o <<Failed>> /\ Exits

\* All the calls of cs, or those before one that fails.
Attempt(cs, n, vnds) ==
  \/ /\ calls' = calls \o cs /\ nextvnd' = nextvnd + vnds /\ Handled(n)
     /\ UNCHANGED <<rumprun_execs, env, hostname>>
  \/ BreaksOff(cs)

\* The entry turns out to be wrong after the calls of cs.
Rejected(cs) == (calls' = calls \o cs /\ Exits) \/ BreaksOff(cs)

Given(o, name) == Member(o, name) # 0
Value(o, name) == IF Given(o, name) THEN T_STR(Member(o, name)) ELSE <<>>
When(c, call) == IF c THEN <<call>> ELSE <<>>

config_static(o, family) ==
  <<[call |-> "ifaddr", family |-> family, of |-> Value(o, "if"), addr |-> Value(o, "addr"), mask |-> Value(o, "mask")]>>
  \o When(Given(o, "gw"), [call |-> "gw", family |-> family, of |-> Value(o, "gw")])

\* config_ipv4 and config_ipv6: dhcp or auto, else static.
config_ip(o, family, automatic) ==
  IF Value(o, "method") = <<automatic>> THEN <<[call |-> automatic, of |-> Value(o, "if")]>>
  ELSE config_static(o, family)

ifcreate(o) == When(Given(o, "cloner"), [call |-> "ifcreate", of |-> Value(o, "if")])
NetCalls(o) ==
  ifcreate(o) \o IF Value(o, "type") = <<"inet">> THEN config_ip(o, 4, "dhcp") ELSE config_ip(o, 6, "auto")

NetKnown(o) ==
  /\ Value(o, "type") \in {<<"inet">>, <<"inet6">>}
  /\ \/ Value(o, "type") = <<"inet">> /\ Value(o, "method") = <<"dhcp">>
     \/ Value(o, "type") = <<"inet6">> /\ Value(o, "method") = <<"auto">>
     \/ Value(o, "method") = <<"static">> /\ Given(o, "addr") /\ Given(o, "mask")

\* With too few tokens left the handler returns -1: the loop is back at the key.
Short(o) == Len(tokens) - o + 1 < 2 * tok(o).size + 1

handle_net ==
  /\ Key("net")
  /\ IF ~ Is(t + 1, "OBJECT") THEN errx
     ELSE IF Short(t + 1) THEN UNCHANGED cvars
     ELSE IF ~ Pairs(t + 1, {"if", "cloner", "type", "method", "addr", "mask", "gw"}) THEN errx
     ELSE IF \E n \in {"if", "type", "method"} : ~ Given(t + 1, n) THEN errx
     ELSE IF ~ NetKnown(t + 1) THEN Rejected(ifcreate(t + 1))
     ELSE Attempt(NetCalls(t + 1), 1 + 2 * tok(t + 1).size, 0)

\* A vnd unit's nodes are made where they are missing: unit 0 has its own.
configvnd(path) ==
  When(nextvnd > 0, [call |-> "mknod", unit |-> nextvnd]) \o <<[call |-> "vndset", unit |-> nextvnd, of |-> path]>>
configetfs(path) == <<[call |-> "etfs", of |-> path]>>

\* Every directory on the way to the mount point, the root for "/".
mkdirs(mp) ==
  IF mp = <<>> THEN <<[call |-> "mkdir", of |-> <<>>]>>
  ELSE [i \in 1 .. Len(mp) |-> [call |-> "mkdir", of |-> SubSeq(mp, 1, i)]]

\* mount_blk tries these in turn.
mount_blk(fs, dev, mp) == [call |-> "mount", fs |-> fs, of |-> dev, on |-> mp]
BlkFs == {"ffs", "ext2fs", "cd9660"}

BlkPath(o) == IF Value(o, "source") = <<"vnd">> THEN <<"vnd", nextvnd>> ELSE Value(o, "path")
SourceCalls(o) ==
  CASE Value(o, "source") = <<"vnd">> -> configvnd(Value(o, "path"))
    [] Value(o, "source") = <<"etfs">> -> configetfs(Value(o, "path"))
    [] OTHER -> <<>>
MountCalls(o, fs) ==
  IF ~ Given(o, "mountpoint") THEN <<>>
  ELSE mkdirs(Value(o, "mountpoint"))
       \o <<mount_blk(IF Value(o, "fstype") = <<"kernfs">> THEN "kernfs" ELSE fs, BlkPath(o), Value(o, "mountpoint"))>>

BlkKnown(o) ==
  /\ Given(o, "source") /\ Given(o, "path") /\ Value(o, "source") \in {<<"dev">>, <<"vnd">>, <<"etfs">>}

\* The file systems that mounters[] knows; it is searched when the source is
\* configured and the directories are there.
FsKnown(o) == Given(o, "mountpoint") => Value(o, "fstype") \in {<<"blk">>, <<"kernfs">>}
Unmounted(o) == SourceCalls(o) \o IF Given(o, "fstype") THEN mkdirs(Value(o, "mountpoint")) ELSE <<>>

handle_blk ==
  /\ Key("blk")
  /\ IF ~ Is(t + 1, "OBJECT") THEN errx
     ELSE IF Short(t + 1) THEN UNCHANGED cvars
     ELSE IF ~ Pairs(t + 1, {"source", "path", "fstype", "mountpoint"}) \/ ~ BlkKnown(t + 1) THEN errx
     ELSE IF ~ FsKnown(t + 1) THEN Rejected(Unmounted(t + 1))
     ELSE \E fs \in BlkFs : Attempt(SourceCalls(t + 1) \o MountCalls(t + 1, fs), 1 + 2 * tok(t + 1).size,
                                    IF Value(t + 1, "source") = <<"vnd">> THEN 1 ELSE 0)

-----------------------------------------------------------------------------
(* rumprun_config                                                          *)

Unread == UNCHANGED <<config, rumprun_execs, env, hostname, nextvnd>>

\* "_RUMPRUN_ROOTFSCFG=file": the text is in a file of the root file system,
\* that is on the first device that can be mounted; reading it may fail.
getcmdlinefromroot ==
  /\ status = "boot" /\ Head(cmdline) = "ROOTCFG"
  /\ \/ \E dev \in {"ld0a", "sd0a", "sda1"}, fs \in BlkFs :
          /\ calls' = <<[call |-> "mkdir", of |-> <<"rootfs">>]>>
                      \o When(dev = "sda1", [call |-> "etfs", of |-> <<dev>>])
                      \o <<mount_blk(fs, <<dev>>, <<"rootfs">>)>>
          /\ cmdline' = Tail(cmdline) /\ Unread /\ UNCHANGED <<tokens, t, status>>
     \/ calls' = <<Failed>> /\ Exits

\* Everything in front of the first "{" is skipped; no "{" is no configuration.
JsonStart(s) == SelectInSeq(s, LAMBDA c : c = "{")

noconfig ==
  /\ status = "boot" /\ Head(cmdline) # "ROOTCFG" /\ JsonStart(cmdline) = 0
  /\ rumprun_execs' = makeargv(<<"rumprun">>) /\ status' = "done"
  /\ UNCHANGED <<config, cmdline, tokens, t, env, hostname, calls, nextvnd>>

parse ==
  /\ status = "boot" /\ Head(cmdline) # "ROOTCFG" /\ JsonStart(cmdline) # 0
  /\ \E js \in {SubSeq(cmdline, JsonStart(cmdline), Len(cmdline))} :
     \E ntok \in {jsmn_parse(js, 0).r} :
     \E p \in {jsmn_parse(js, ntok)} :
       IF ntok <= 0 \/ p.r < 1 \/ p.tokens[1].type # "OBJECT" THEN errx
       ELSE /\ cmdline' = js /\ tokens' = p.tokens /\ t' = 1 /\ status' = "config"
            /\ Unread /\ UNCHANGED calls

\* Objects may be nested at will.
descend ==
  /\ status = "config" /\ Is(t, "OBJECT")
  /\ t' = t + 1 /\ Unread /\ UNCHANGED <<cmdline, tokens, calls, status>>

Names == {"cmdline", "rc_TESTING", "env", "hostname", "blk", "net"}
nomatch ==
  /\ status = "config" /\ t <= Len(tokens) /\ ~ Is(t, "OBJECT")
  /\ ~ \E n \in Names : Key(n)
  /\ errx

finish ==
  /\ status = "config" /\ t > Len(tokens)
  /\ IF rumprun_execs = <<>> \/ Last(rumprun_execs).flags = "PIPE" THEN errx
     ELSE status' = "done" /\ Unread /\ UNCHANGED <<cmdline, tokens, t, calls>>

-----------------------------------------------------------------------------
(* What the documentation asks for: doc/config.md.  A configuration as its *)
(* text, and what should come of it.                                       *)

Quoted(w) == <<"\"">> \o w \o <<"\"">>
\* Lexemes with something between two of them.
Join(ls, sep) == FoldLeft(LAMBDA acc, l : IF acc = <<>> THEN l ELSE acc \o sep \o l, <<>>, ls)
Object(members) == <<"{">> \o Join(members, <<",">>) \o <<"}">>
Pair(name, v) == Quoted(<<name>>) \o <<":">> \o v
Array(ls) == <<"[">> \o Join(ls, <<",">>) \o <<"]">>

\* An argument with white space in it needs quotes.
ArgText(a) == IF Contains(a, " ") THEN <<"'">> \o a \o <<"'">> ELSE a
BinText(b) ==
  Object(<<Pair("bin", Quoted(b.bin))>>
         \o (IF b.hasargv THEN <<Pair("argv", Array([i \in DOMAIN b.argv |-> Quoted(b.argv[i])]))>> ELSE <<>>)
         \o (IF b.runmode = "" THEN <<>> ELSE <<Pair("runmode", Quoted(<<b.runmode>>))>>))
EntryText(e) ==
  Pair(e.key, CASE e.key = "cmdline" -> Quoted(Join([i \in DOMAIN e.argv |-> ArgText(e.argv[i])], <<" ">>))
                [] e.key = "rc" -> Array([i \in DOMAIN e.bins |-> BinText(e.bins[i])])
                [] "value" \in DOMAIN e -> Quoted(e.value)
                [] OTHER -> Object([i \in DOMAIN e.fields |-> Pair(e.fields[i][1], Quoted(e.fields[i][2]))]))
ConfigText(c, prefix) ==
  prefix \o IF c = <<>> THEN <<"none">> ELSE Object([i \in DOMAIN c |-> EntryText(c[i])])

ExecsOf(e) ==
  CASE e.key = "cmdline" -> <<[argv |-> e.argv, flags |-> "CMDLINE"]>>
    [] e.key = "rc" -> [i \in DOMAIN e.bins |->
                          [argv |-> <<e.bins[i].bin>> \o e.bins[i].argv,
                           flags |-> CASE e.bins[i].runmode = "&" -> "BACKGROUND"
                                       [] e.bins[i].runmode = "|" -> "PIPE"
                                       [] OTHER -> ""]]
    [] OTHER -> <<>>
Values(c, key) == LET es == SelectSeq(c, LAMBDA e : e.key = key) IN [i \in DOMAIN es |-> es[i].value]
FieldOf(e, name) == LET s == SelectSeq(e.fields, LAMBDA f : f[1] = name) IN IF s = <<>> THEN <<>> ELSE Last(s)[2]
Mounts(c) == LET es == SelectSeq(c, LAMBDA e : e.key = "blk") IN [i \in DOMAIN es |-> FieldOf(es[i], "mountpoint")]

CInit ==
  /\ config \in Configs
  /\ \E prefix \in Layouts : cmdline = ConfigText(config, prefix)
  /\ tokens = <<>> /\ t = 0 /\ rumprun_execs = <<>> /\ env = <<>> /\ hostname = <<>>
  /\ calls = <<>> /\ nextvnd = 0 /\ status = "boot"

CNext ==
  \/ getcmdlinefromroot \/ noconfig \/ parse \/ descend
  \/ handle_cmdline \/ handle_env \/ handle_hostname \/ handle_rc \/ handle_net \/ handle_blk
  \/ nomatch \/ finish

CSpec == CInit /\ [][CNext]_cvars

-----------------------------------------------------------------------------
(* Properties                                                              *)

\* A configuration written as the documentation has it is read as it was
\* meant: rumprun_config ends with the programs in their order with their
\* arguments and run modes, every environment variable, the last host name,
\* and each block device mounted where it belongs after the directories on
\* the way to it were made.  It gives up only when a call has failed, for a
\* key that no handler has, for a last program that writes to a pipe and for
\* the file system "kern", which the documentation has and mounters[] calls
\* kernfs.
ConfigRead ==
  /\ status = "exit" =>
       \/ calls # <<>> /\ Last(calls) = Failed
       \/ \E e \in Range(config) : e.key \notin Names \cup {"rc"}
       \/ \E e \in Range(config) : e.key = "rc" /\ Last(e.bins).runmode = "|"
       \/ \E e \in Range(config) : e.key = "blk" /\ FieldOf(e, "fstype") = <<"kern">>
  /\ status = "done" /\ config # <<>> =>
       /\ rumprun_execs = FlattenSeq([i \in DOMAIN config |-> ExecsOf(config[i])])
       /\ env = Values(config, "env")
       /\ hostname = (IF Values(config, "hostname") = <<>> THEN <<>> ELSE Last(Values(config, "hostname")))
       /\ LET ms == SelectSeq(calls, LAMBDA c : c.call = "mount" /\ c.on # <<"rootfs">>)
          IN [i \in DOMAIN ms |-> ms[i].on] = Mounts(config)
       /\ \A i \in DOMAIN calls : calls[i].call = "mount" =>
            \A n \in 1 .. Len(calls[i].on) :
              \E j \in 1 .. i - 1 : calls[j].call = "mkdir" /\ calls[j].of = SubSeq(calls[i].on, 1, n)

\* "argv" is optional in an rc entry, says the comment in front of addbin: an
\* entry without it is read too.
ArgvOptional == status # "fault"

\* A block device of the file system "kern" is mounted, as doc/config.md says,
\* unless a call fails.
KernMounts ==
  status = "exit" /\ Last(calls) # Failed =>
    ~ \E e \in Range(config) : e.key = "blk" /\ FieldOf(e, "fstype") = <<"kern">>

=============================================================================
