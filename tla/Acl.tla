--------------------------------- MODULE Acl ---------------------------------
(***************************************************************************)
(* Access control lists (acl.c): users built by lists of rules, their      *)
(* description as rules, the ACL file, and the clients that hold a pointer *)
(* to their user.                                                          *)
(*                                                                         *)
(* A rule is a record [t, x, s]: its kind, its argument and, for a         *)
(* subcommand, the subcommand.  A user object is known by its name and the *)
(* number of its creation, which stands for the pointer.                   *)
(***************************************************************************)
EXTENDS Integers, FiniteSets, Sequences, SequencesExt

CONSTANTS
  Names,        \* user names, "default" among them
  AClients,     \* clients
  CmdOrder,     \* the commands in the order the command table is iterated
  ModuleCmds,   \* those that a module registers
  CatOrder,     \* the categories in the order of ACLCommandCategories
  CatsOf,       \* command -> set of its categories
  MatchPairs,   \* <<pattern, string>>: stringmatchlen says they match
  RuleLists,    \* lists of rules given to ACL SETUSER
  EditedFiles,  \* contents an administrator may give the ACL file
  Topics,       \* channels and patterns clients may subscribe to: <<kind, name>>
  AllChanDefault, \* acl-pubsub-default is allchannels
  MaxAcl        \* bound on the number of commands

VARIABLES users,   \* name -> user object, or NoUser
          acls,    \* client -> its user and state
          aclfile, \* lines of the ACL file: [name, rules]
          loaded,  \* the module is loaded
          acalls,  \* commands so far
          alast    \* the last ACL command and whether it was refused

aclvars == <<users, acls, aclfile, loaded, acalls, alast>>

Cmds == {CmdOrder[i] : i \in DOMAIN CmdOrder}
\* Command bits: those of the commands and the last one, "future".
Ids == Cmds \union {"future"}
Registered == IF loaded THEN CmdOrder ELSE SelectSeq(CmdOrder, LAMBDA c : c \notin ModuleCmds)
IsRegistered(c) == c \in Cmds /\ (loaded \/ c \notin ModuleCmds)
MatchLen(p, x) == p = x \/ <<p, x>> \in MatchPairs

NoUser == [gen |-> -1]
Hash(p) == <<"sha256", p>>
Rule(t, x, s) == [t |-> t, x |-> x, s |-> s]
Plain(t) == Rule(t, "", "")

\* ACLCreateUser: rules is the history of the rules applied, for the properties.
CreateUser(gen) ==
  [gen |-> gen, on |-> FALSE, allkeys |-> FALSE, allchan |-> AllChanDefault, allcmds |-> FALSE,
   nopass |-> FALSE, skip |-> FALSE, bits |-> {}, subs |-> [c \in Cmds |-> <<>>],
   pass |-> <<>>, pats |-> <<>>, chans |-> <<>>, rules |-> <<>>]

AddNew(seq, x) == IF x \in ToSet(seq) THEN seq ELSE Append(seq, x)

-----------------------------------------------------------------------------
(***************************************************************************)
(* ACLSetUser.                                                             *)
(***************************************************************************)
NoSubs(u) == [u EXCEPT !.subs = [c \in Cmds |-> <<>>]]
SetBit(u, c, on) == IF on THEN [u EXCEPT !.bits = @ \union {c}, !.subs[c] = <<>>]
                    ELSE [u EXCEPT !.bits = @ \ {c}, !.allcmds = FALSE, !.subs[c] = <<>>]

InCategory(cat) == {c \in Cmds : IsRegistered(c) /\ cat \in CatsOf[c]}

SetCategoryKeepsSubs(u, cat, on) ==
  LET C == InCategory(cat) \ ModuleCmds
  IN  [u EXCEPT !.bits = IF on THEN @ \union C ELSE @ \ C,
                !.allcmds = IF on \/ C = {} THEN @ ELSE FALSE]

SetCategory(u, cat, on) ==
  LET C == InCategory(cat) \ ModuleCmds
  IN  [u EXCEPT !.bits = IF on THEN @ \union C ELSE @ \ C,
                !.allcmds = IF on \/ C = {} THEN @ ELSE FALSE,
                !.subs = [c \in Cmds |-> IF c \in C THEN <<>> ELSE @[c]]]

AllCommands(u) == NoSubs([u EXCEPT !.bits = Ids, !.allcmds = TRUE])
NoCommands(u) == NoSubs([u EXCEPT !.bits = {}, !.allcmds = FALSE])

AclReset(u) == NoCommands([u EXCEPT !.nopass = FALSE, !.pass = <<>>, !.allkeys = FALSE, !.pats = <<>>,
                                 !.allchan = AllChanDefault, !.chans = <<>>, !.on = FALSE, !.skip = FALSE])

\* Why a rule is refused; "" when it is not.
Problem(u, r) ==
  CASE r.t = "delpass" /\ Hash(r.x) \notin ToSet(u.pass) -> "nodev"
    [] r.t = "key" /\ u.allkeys -> "exist"
    [] r.t = "chan" /\ u.allchan -> "isdir"
    [] r.t \in {"+", "-", "+|"} /\ ~IsRegistered(r.x) -> "noent"
    [] r.t \in {"+@", "-@"} /\ r.x \notin ToSet(CatOrder) -> "noent"
    [] r.t = "bad" -> "inval"
    [] OTHER -> ""

AclApply(u, r) ==
  CASE r.t = "on" -> [u EXCEPT !.on = TRUE]
    [] r.t = "off" -> [u EXCEPT !.on = FALSE]
    [] r.t = "skip" -> [u EXCEPT !.skip = TRUE]
    [] r.t = "sanitize" -> [u EXCEPT !.skip = FALSE]
    [] r.t = "allkeys" -> [u EXCEPT !.allkeys = TRUE, !.pats = <<>>]
    [] r.t = "resetkeys" -> [u EXCEPT !.allkeys = FALSE, !.pats = <<>>]
    [] r.t = "allchannels" -> [u EXCEPT !.allchan = TRUE, !.chans = <<>>]
    [] r.t = "resetchannels" -> [u EXCEPT !.allchan = FALSE, !.chans = <<>>]
    [] r.t = "allcommands" -> AllCommands(u)
    [] r.t = "nocommands" -> NoCommands(u)
    [] r.t = "nopass" -> [u EXCEPT !.nopass = TRUE, !.pass = <<>>]
    [] r.t = "resetpass" -> [u EXCEPT !.nopass = FALSE, !.pass = <<>>]
    [] r.t = "pass" -> [u EXCEPT !.pass = AddNew(@, Hash(r.x)), !.nopass = FALSE]
    [] r.t = "hash" -> [u EXCEPT !.pass = AddNew(@, r.x), !.nopass = FALSE]
    [] r.t = "delpass" -> [u EXCEPT !.pass = SelectSeq(@, LAMBDA h : h # Hash(r.x))]
    [] r.t = "key" -> [u EXCEPT !.pats = AddNew(@, r.x)]
    [] r.t = "chan" -> [u EXCEPT !.chans = AddNew(@, r.x)]
    [] r.t = "+" -> SetBit(u, r.x, TRUE)
    [] r.t = "-" -> SetBit(u, r.x, FALSE)
    [] r.t = "+|" -> IF r.x \in u.bits THEN u ELSE [u EXCEPT !.subs[r.x] = AddNew(@, r.s)]
    [] r.t \in {"+@", "-@"} -> SetCategory(u, r.x, r.t = "+@")
    [] r.t = "reset" -> AclReset(u)

\* Applies rules in order; stops at the first that is refused.
Built(u, rules) ==
  FoldLeft(LAMBDA a, r : IF a.err # "" THEN a
                         ELSE IF Problem(a.u, r) # "" THEN [a EXCEPT !.err = Problem(a.u, r)]
                         ELSE [a EXCEPT !.u = [AclApply(a.u, r) EXCEPT !.rules = Append(@, r)]],
           [u |-> u, err |-> ""], rules)

DefaultUser(gen) ==
  Built(CreateUser(gen), <<Plain("allcommands"), Plain("allkeys"), Plain("allchannels"), Plain("on"), Plain("nopass")>>).u

-----------------------------------------------------------------------------
(***************************************************************************)
(* ACLDescribeUser: rules that rebuild the user.                           *)
(***************************************************************************)
AclCount(bits, cat, on) == Cardinality({c \in InCategory(cat) : (c \in bits) = on})

\* The categories chosen greedily: the one with the fewest commands to correct,
\* then the one with the most commands that agree, first in the table on ties.
BestCategory(tmp, applied, additive) ==
  FoldLeft(LAMBDA b, cat :
             LET diff == AclCount(tmp, cat, ~additive)
                 same == AclCount(tmp, cat, additive)
             IN  IF cat \notin applied /\ same > diff
                    /\ (diff < b.diff \/ (diff = b.diff /\ same > b.same))
                 THEN [cat |-> cat, diff |-> diff, same |-> same] ELSE b,
           [cat |-> "", diff |-> Cardinality(Cmds) + 1, same |-> 0], CatOrder)

DescribeCategories(u, additive) ==
  FoldLeft(LAMBDA a, i :
             LET b == BestCategory(a.tmp.bits, a.applied, additive)
             IN  IF a.done \/ b.cat = "" THEN [a EXCEPT !.done = TRUE]
                 ELSE [a EXCEPT !.fake = SetCategory(@, b.cat, additive),
                                !.tmp = SetCategory(@, b.cat, ~additive),
                                !.applied = @ \union {b.cat},
                                !.rules = Append(@, Rule(IF additive THEN "+@" ELSE "-@", b.cat, ""))],
           [fake |-> IF additive THEN NoCommands(u) ELSE AllCommands(u), tmp |-> u, applied |-> {}, done |-> FALSE,
            rules |-> <<Plain(IF additive THEN "nocommands" ELSE "allcommands")>>],
           [i \in 1..(Len(CatOrder) + 1) |-> i])

SubRules(u, c) == IF c \in u.bits THEN <<>> ELSE [i \in 1..Len(u.subs[c]) |-> Rule("+|", c, u.subs[c][i])]

DescribeCommands(u) ==
  LET cats == DescribeCategories(u, "future" \notin u.bits)
  IN  FoldLeft(LAMBDA a, c :
             LET fix == IF (c \in u.bits) = (c \in a.fake.bits) THEN <<>>
                        ELSE <<Rule(IF c \in u.bits THEN "+" ELSE "-", c, "")>>
             IN  [rules |-> a.rules \o fix \o SubRules(u, c),
                  fake |-> IF fix = <<>> THEN a.fake ELSE SetBit(a.fake, c, c \in u.bits)],
               [rules |-> cats.rules, fake |-> cats.fake], Registered)

Describe(u) ==
  <<Plain(IF u.on THEN "on" ELSE "off")>>
  \o (IF u.nopass THEN <<Plain("nopass")>> ELSE <<>>)
  \o (IF u.skip THEN <<Plain("skip")>> ELSE <<>>)
  \o [i \in 1..Len(u.pass) |-> Rule("hash", u.pass[i], "")]
  \o (IF u.allkeys THEN <<Plain("allkeys")>> ELSE [i \in 1..Len(u.pats) |-> Rule("key", u.pats[i], "")])
  \o (IF u.allchan THEN <<Plain("allchannels")>>
      ELSE <<Plain("resetchannels")>> \o [i \in 1..Len(u.chans) |-> Rule("chan", u.chans[i], "")])
  \o DescribeCommands(u).rules

-----------------------------------------------------------------------------
(***************************************************************************)
(* Clients.                                                                *)
(***************************************************************************)
Points(c, name, gen) == acls[c].user = <<name, gen>>
\* ACLFreeUserAndKillClients for the user objects in F: pairs <<name, gen>>.
KillClientsOf(F) ==
  [c \in AClients |-> IF acls[c].user \in F
                      THEN [acls[c] EXCEPT !.user = <<"default", 0>>, !.auth = FALSE, !.closing = TRUE]
                      ELSE acls[c]]

Allowed(name, chans, literal) ==
  \E i \in DOMAIN chans : IF literal THEN chans[i] = name ELSE MatchLen(chans[i], name)

AclDenied(c, upcoming) == \E x \in acls[c].subs : ~Allowed(x[2], upcoming, x[1] = "pattern")
KillPubsubClients(name, upcoming) ==
  IF \A i \in DOMAIN users[name].chans : Allowed(users[name].chans[i], upcoming, TRUE) THEN acls
  ELSE [c \in AClients |->
          IF acls[c].open /\ Points(c, name, users[name].gen) /\ acls[c].subs # {} /\ AclDenied(c, upcoming)
          THEN [acls[c] EXCEPT !.open = FALSE, !.subs = {}] ELSE acls[c]]

-----------------------------------------------------------------------------
(***************************************************************************)
(* Commands.                                                               *)
(***************************************************************************)
Call(name, err) == /\ acalls < MaxAcl
                   /\ acalls' = acalls + 1
                   /\ alast' = [name |-> name, err |-> err]
Current(name) == users[name] # NoUser

\* ACL SETUSER works on a copy, so that a refused rule leaves the user alone.
SetUser(name, rules) ==
  LET start == IF Current(name) THEN users[name] ELSE CreateUser(acalls + 1)
      b == Built(start, rules)
  IN  /\ Call("setuser", b.err)
      /\ IF b.err # "" THEN UNCHANGED <<users, acls>>
         ELSE /\ users' = [users EXCEPT ![name] = b.u]
              /\ acls' = IF Current(name) /\ ~b.u.allchan THEN KillPubsubClients(name, b.u.chans) ELSE acls
      /\ UNCHANGED <<aclfile, loaded>>

DelUser(name) ==
  LET ok == name # "default"
  IN  /\ Call("deluser", IF ok THEN "" ELSE "default")
      /\ IF ok /\ Current(name)
         THEN /\ users' = [users EXCEPT ![name] = NoUser]
              /\ acls' = KillClientsOf({<<name, users[name].gen>>})
         ELSE UNCHANGED <<users, acls>>
      /\ UNCHANGED <<aclfile, loaded>>

\* The users a file defines, built in a new table, and the errors met; after an
\* error the lines are still checked but no longer applied.
FileUsers(file, gen) ==
  FoldLeft(LAMBDA a, line :
             LET try == Built(AclReset(CreateUser(gen)), line.rules)
                 start == IF a.u[line.name] = NoUser THEN CreateUser(gen)
                          ELSE [AclReset(a.u[line.name]) EXCEPT !.rules = <<>>]
             IN  IF a.err \/ try.err # "" THEN [a EXCEPT !.err = TRUE]
                 ELSE [a EXCEPT !.u[line.name] = Built(start, line.rules).u],
           [u |-> [n \in Names |-> IF n = "default" THEN DefaultUser(0) ELSE NoUser], err |-> FALSE], file)

\* ACL LOAD: the default user's object stays, its content is replaced.
AclLoad ==
  LET f == FileUsers(aclfile, acalls + 1)
  IN  /\ Call("load", IF f.err THEN "errors" ELSE "")
      /\ IF f.err THEN UNCHANGED <<users, acls>>
         ELSE /\ users' = [f.u EXCEPT !["default"].gen = 0]
              /\ acls' = KillClientsOf({<<n, users[n].gen>> : n \in {m \in Names \ {"default"} : Current(m)}})
      /\ UNCHANGED <<aclfile, loaded>>

\* ACL SAVE writes a temporary file and renames it; any failure leaves the old
\* file in place.
AclSave(fails) ==
  LET names == SetToSortSeq({n \in Names : Current(n)}, LAMBDA a, b : a = "default" /\ b # "default")
  IN  /\ Call("save", IF fails THEN "io" ELSE "")
      /\ aclfile' = IF fails THEN aclfile
                    ELSE [i \in 1..Len(names) |-> [name |-> names[i], rules |-> Describe(users[names[i]])]]
      /\ UNCHANGED <<users, acls, loaded>>

Edit(file) == Call("edit", "") /\ aclfile' = file /\ UNCHANGED <<users, acls, loaded>>

\* CONFIG SET requirepass: ACLUpdateDefaultUserPassword; no password when p = "".
Requirepass(p) ==
  /\ Call("requirepass", "")
  /\ users' = [users EXCEPT !["default"] =
                 Built(@, <<Plain("resetpass"), IF p = "" THEN Plain("nopass") ELSE Rule("pass", p, "")>>).u]
  /\ UNCHANGED <<acls, aclfile, loaded>>

\* AUTH name p; with one argument the user is the default one.
Credentials(name, p) == Current(name) /\ users[name].on
                        /\ (users[name].nopass \/ Hash(p) \in ToSet(users[name].pass))
Auth(c, name, p) ==
  /\ acls[c].open /\ ~acls[c].closing
  /\ Call("auth", IF Credentials(name, p) THEN "" ELSE "wrongpass")
  /\ acls' = IF Credentials(name, p)
             THEN [acls EXCEPT ![c].user = <<name, users[name].gen>>, ![c].auth = TRUE] ELSE acls
  /\ UNCHANGED <<users, aclfile, loaded>>

\* SUBSCRIBE and PSUBSCRIBE, after ACLCheckPubsubPerm.
PubsubPerm(u, x) == u.allchan \/ Allowed(x[2], u.chans, x[1] = "pattern")
Subscribe(c, x) ==
  /\ acls[c].open /\ ~acls[c].closing /\ acls[c].auth
  /\ LET ok == PubsubPerm(users[acls[c].user[1]], x)
     IN  /\ Call("subscribe", IF ok THEN "" ELSE "noperm")
         /\ acls' = IF ok THEN [acls EXCEPT ![c].subs = @ \union {x}] ELSE acls
  /\ UNCHANGED <<users, aclfile, loaded>>

\* The event loop frees a client marked to be closed.
Reap(c) == /\ acls[c].open /\ acls[c].closing
           /\ acls' = [acls EXCEPT ![c].open = FALSE, ![c].subs = {}]
           /\ UNCHANGED <<users, aclfile, loaded, acalls, alast>>

\* MODULE LOAD and UNLOAD register and remove the module's commands.
ModuleChange == Call("module", "") /\ loaded' = ~loaded /\ UNCHANGED <<users, acls, aclfile>>

AclInit ==
  /\ users = [n \in Names |-> IF n = "default" THEN DefaultUser(0) ELSE NoUser]
  /\ acls = [c \in AClients |-> [user |-> <<"default", 0>>, auth |-> TRUE, open |-> TRUE,
                                 closing |-> FALSE, subs |-> {}]]
  /\ aclfile = <<>>
  /\ loaded = FALSE
  /\ acalls = 0
  /\ alast = [name |-> "", err |-> ""]

AclNext ==
  \/ \E n \in Names, rules \in RuleLists : SetUser(n, rules)
  \/ \E n \in Names : DelUser(n)
  \/ AclLoad
  \/ \E fails \in BOOLEAN : AclSave(fails)
  \/ \E file \in EditedFiles : Edit(file)
  \/ \E p \in {"", "p"} : Requirepass(p)
  \/ \E c \in AClients, n \in Names, p \in {"p", "q"} : Auth(c, n, p)
  \/ \E c \in AClients, x \in Topics : Subscribe(c, x)
  \/ \E c \in AClients : Reap(c)
  \/ ModuleChange

AclSpec == AclInit /\ [][AclNext]_aclvars

-----------------------------------------------------------------------------
(***************************************************************************)
(* Properties.                                                             *)
(***************************************************************************)
\* ACLCheckCommandPerm on the command and its subcommand.
CommandPerm(u, c, s) == u.allcmds \/ c \in u.bits \/ s \in ToSet(u.subs[c])

\* What the rules say of a command as a whole: 1, 0, or -1 for nothing.
Says(r, c) == CASE r.t \in {"allcommands"} -> 1
                [] r.t \in {"nocommands", "reset"} -> 0
                [] r.t = "+" /\ r.x = c -> 1
                [] r.t = "-" /\ r.x = c -> 0
                [] r.t = "+@" /\ r.x \in CatsOf[c] /\ c \notin ModuleCmds -> 1
                [] r.t = "-@" /\ r.x \in CatsOf[c] /\ c \notin ModuleCmds -> 0
                [] OTHER -> -1

\* The last rule about a command decides: a user may run a command when the last
\* rule that covers it grants it, or a later rule grants the subcommand alone,
\* although ACLSetUser keeps bitmaps, a flag and lists that each rule updates.
LastRuleDecides ==
  \A n \in Names : Current(n) =>
    LET u == users[n]
        h == u.rules
    IN  \A c \in Cmds, s \in {"list", "other"} :
          LET about == {i \in DOMAIN h : Says(h[i], c) # -1}
              last == IF about = {} THEN 0 ELSE CHOOSE i \in about : \A j \in about : j <= i
              granted == last # 0 /\ Says(h[last], c) = 1
          IN  CommandPerm(u, c, s) = (granted \/ \E j \in DOMAIN h : j > last /\ h[j] = Rule("+|", c, s))

OnlyRegisteredBits(u) == "future" \notin u.bits => u.bits \subseteq {c \in Cmds : IsRegistered(c)}
AllButRegistered(u) == "future" \in u.bits => \A c \in Ids \ u.bits : IsRegistered(c)

\* What ACL LIST and ACL SAVE write rebuilds the user: no rule is refused, and the
\* permissions, passwords, patterns and channels are the same, as long as the
\* commands the user is told about are still registered.
DescriptionRebuilds ==
  \A n \in Names : (Current(n) /\ OnlyRegisteredBits(users[n]) /\ AllButRegistered(users[n])
                    /\ \A c \in Cmds : users[n].subs[c] # <<>> => IsRegistered(c)) =>
    LET u == users[n]
        b == Built(CreateUser(0), Describe(u))
    IN  /\ b.err = ""
        /\ \A f \in {"on", "allkeys", "allchan", "nopass", "skip", "bits", "subs", "pass", "pats", "chans"} :
             b.u[f] = u[f]
        /\ DescribeCommands(u).fake.bits = u.bits

\* ACL LOAD takes the whole file or nothing: with an error in any line every user
\* and every client stays as it was; without one, the users are the file's.
LoadAllOrNothing ==
  (acalls' # acalls /\ alast'.name = "load") =>
    IF alast'.err # "" THEN users' = users /\ acls' = acls
    ELSE /\ \A i \in DOMAIN aclfile : Problem(CreateUser(0), aclfile[i].rules[1]) = ""
         /\ \A n \in Names \ {"default"} :
              users'[n] # NoUser <=> \E i \in DOMAIN aclfile : aclfile[i].name = n
         /\ \A c \in AClients : acls'[c].user[1] # "default" => acls'[c].closing

\* No client ever points to a user that was freed, whichever of ACL DELUSER, ACL
\* LOAD and ACL SETUSER of the same name came in between.
NoFreedUser ==
  \A c \in AClients : acls[c].open => Current(acls[c].user[1]) /\ users[acls[c].user[1]].gen = acls[c].user[2]

\* After ACL SETUSER took channels away, no connected client of the user is still
\* subscribed to a channel or pattern its new rules do not admit.
SubscribersPermitted ==
  \A c \in AClients, n \in Names :
    (/\ acls'[c].open /\ ~acls'[c].closing /\ acls'[c].user[1] = n
     /\ Current(n) /\ ~users[n].allchan /\ alast'.name = "setuser"
     /\ \A x \in acls[c].subs : PubsubPerm(users[n], x))
    => \A x \in acls'[c].subs : PubsubPerm(users'[n], x)
=============================================================================
