------------------------- MODULE InstallationProofs -------------------------
(***************************************************************************)
(* Theorems about Installation, for any list of tables that begins with    *)
(* core_accounts and any number of processes, commands and stops.          *)
(***************************************************************************)
EXTENDS Installation, TLAPS

-----------------------------------------------------------------------------
(***************************************************************************)
(* The programs, position by position.                                     *)
(***************************************************************************)
N == Len(Tables)

Kinds == {"hasTable", "table", "seed", "rename", "drop", "readAI", "writeAI", "load", "serve", "ldap", "done"}
Objects == AllTables \union SeedRows \union ObsoleteColumns \union DestructiveColumns \union {"base", None}
Statements == Kinds \X Objects

LEMMA CommandsAre == Commands = {"install", "run", "migrate"}
  BY DEF Commands, Program

\* What a concatenation holds where.
LEMMA Joined ==
    ASSUME NEW s \in Seq(Statements), NEW t \in Seq(Statements)
    PROVE  /\ s \o t \in Seq(Statements)
           /\ Len(s \o t) = Len(s) + Len(t)
           /\ \A i \in 1 .. Len(s) : (s \o t)[i] = s[i]
           /\ \A i \in 1 .. Len(t) : (s \o t)[Len(s) + i] = t[i]
  OBVIOUS

LEMMA OfFunction ==
    ASSUME NEW n \in Nat, NEW s \in [1 .. n -> Statements]
    PROVE  s \in Seq(Statements) /\ Len(s) = n
  OBVIOUS

LEMMA OfOne ==
    ASSUME NEW x \in Statements
    PROVE  <<x>> \in Seq(Statements) /\ Len(<<x>>) = 1 /\ <<x>>[1] = x
  OBVIOUS

LEMMA OfTwo ==
    ASSUME NEW x \in Statements, NEW y \in Statements
    PROVE  <<x, y>> \in Seq(Statements) /\ Len(<<x, y>>) = 2 /\ <<x, y>>[1] = x /\ <<x, y>>[2] = y
  OBVIOUS

LEMMA OfFour ==
    ASSUME NEW x \in Statements, NEW y \in Statements, NEW z \in Statements, NEW v \in Statements
    PROVE  /\ <<x, y, z, v>> \in Seq(Statements) /\ Len(<<x, y, z, v>>) = 4
           /\ <<x, y, z, v>>[1] = x /\ <<x, y, z, v>>[2] = y
           /\ <<x, y, z, v>>[3] = z /\ <<x, y, z, v>>[4] = v
  OBVIOUS

LEMMA TablesAre == N \in Nat \ {0} /\ DOMAIN Tables = 1 .. N
  BY InstallationAssumption DEF N

LEMMA AutoMigrateIs ==
    /\ AutoMigrate \in Seq(Statements)
    /\ Len(AutoMigrate) = N
    /\ \A i \in 1 .. N : AutoMigrate[i] = <<"table", Tables[i]>>
<1>1. \A i \in 1 .. N : AutoMigrate[i] = <<"table", Tables[i]>>
  BY TablesAre DEF AutoMigrate
<1>2. \A i \in 1 .. N : <<"table", Tables[i]>> \in Statements
  BY TablesAre DEF Statements, Kinds, Objects, AllTables
<1>3. AutoMigrate \in [1 .. N -> Statements]
  BY <1>2, TablesAre DEF AutoMigrate
<1> QED
  BY <1>1, <1>3, TablesAre, OfFunction

LEMMA SeedsAre ==
    ASSUME NEW s, s = [i \in DOMAIN Seeds |-> <<"seed", Seeds[i]>>]
    PROVE  s \in Seq(Statements) /\ Len(s) = 4 /\ \A i \in 1 .. 4 : s[i] = <<"seed", Seeds[i]>>
<1>1. DOMAIN Seeds = 1 .. 4
  BY DEF Seeds
<1>2. \A i \in 1 .. 4 : <<"seed", Seeds[i]>> \in Statements
  BY <1>1 DEF Statements, Kinds, Objects, SeedRows
<1>3. s \in [1 .. 4 -> Statements]
  BY <1>1, <1>2
<1> QED
  BY <1>1, <1>3, OfFunction

LEMMA ObsoleteAre ==
    ASSUME NEW s, s = [i \in DOMAIN Obsolete |-> <<"drop", Obsolete[i]>>]
    PROVE  s \in Seq(Statements) /\ Len(s) = 5 /\ \A i \in 1 .. 5 : s[i] = <<"drop", Obsolete[i]>>
<1>1. DOMAIN Obsolete = 1 .. 5
  BY DEF Obsolete
<1>2. \A i \in 1 .. 5 : <<"drop", Obsolete[i]>> \in Statements
  BY <1>1 DEF Statements, Kinds, Objects, ObsoleteColumns
<1>3. s \in [1 .. 5 -> Statements]
  BY <1>1, <1>2
<1> QED
  BY <1>1, <1>3, OfFunction

LEMMA DestructiveAre ==
    ASSUME NEW s, s = [i \in DOMAIN Destructive |-> <<"drop", Destructive[i]>>]
    PROVE  s \in Seq(Statements) /\ Len(s) = 4 /\ \A i \in 1 .. 4 : s[i] = <<"drop", Destructive[i]>>
<1>1. DOMAIN Destructive = 1 .. 4
  BY DEF Destructive
<1>2. \A i \in 1 .. 4 : <<"drop", Destructive[i]>> \in Statements
  BY <1>1 DEF Statements, Kinds, Objects, DestructiveColumns
<1>3. s \in [1 .. 4 -> Statements]
  BY <1>1, <1>2
<1> QED
  BY <1>1, <1>3, OfFunction

LEMMA InstallProgram ==
    /\ Len(Program["install"]) = N + 6
    /\ Program["install"][1] = <<"hasTable", None>>
    /\ \A i \in 1 .. N : Program["install"][1 + i] = <<"table", Tables[i]>>
    /\ \A i \in 1 .. 4 : Program["install"][N + 1 + i] = <<"seed", Seeds[i]>>
    /\ Program["install"][N + 6] = <<"done", None>>
<1>1. PICK a, s, d : /\ a = <<<<"hasTable", None>>>>
                     /\ s = [i \in DOMAIN Seeds |-> <<"seed", Seeds[i]>>]
                     /\ d = <<<<"done", None>>>>
  OBVIOUS
<1>2. /\ a \in Seq(Statements) /\ Len(a) = 1 /\ a[1] = <<"hasTable", None>>
      /\ d \in Seq(Statements) /\ Len(d) = 1 /\ d[1] = <<"done", None>>
  <2>1. <<"hasTable", None>> \in Statements /\ <<"done", None>> \in Statements
    BY DEF Statements, Kinds, Objects
  <2> QED
    BY <1>1, <2>1, OfOne
<1>3. s \in Seq(Statements) /\ Len(s) = 4 /\ \A i \in 1 .. 4 : s[i] = <<"seed", Seeds[i]>>
  BY <1>1, SeedsAre
<1>4. Program["install"] = a \o AutoMigrate \o s \o d
  BY <1>1 DEF Program
<1>5. PICK x : x = a \o AutoMigrate
  OBVIOUS
<1>6. a \in Seq(Statements) /\ s \in Seq(Statements) /\ d \in Seq(Statements)
  BY <1>2, <1>3
<1>7. /\ x \in Seq(Statements) /\ Len(x) = Len(a) + Len(AutoMigrate)
      /\ \A i \in 1 .. Len(a) : x[i] = a[i]
      /\ \A i \in 1 .. Len(AutoMigrate) : x[Len(a) + i] = AutoMigrate[i]
  BY <1>5, <1>6, AutoMigrateIs, Joined
<1>8. PICK y : y = x \o s
  OBVIOUS
<1>9. /\ y \in Seq(Statements) /\ Len(y) = Len(x) + Len(s)
      /\ \A i \in 1 .. Len(x) : y[i] = x[i]
      /\ \A i \in 1 .. Len(s) : y[Len(x) + i] = s[i]
  BY <1>6, <1>7, <1>8, Joined
<1>10. PICK z : z = y \o d
  OBVIOUS
<1>11. /\ Len(z) = Len(y) + Len(d)
       /\ \A i \in 1 .. Len(y) : z[i] = y[i]
       /\ \A i \in 1 .. Len(d) : z[Len(y) + i] = d[i]
  BY <1>6, <1>9, <1>10, Joined
<1>12. Program["install"] = z
  BY <1>4, <1>5, <1>8, <1>10
<1>13. Len(x) = N + 1 /\ Len(y) = N + 5 /\ Len(z) = N + 6
  BY <1>2, <1>3, <1>7, <1>9, <1>11, AutoMigrateIs, TablesAre
<1>14. z[1] = a[1] /\ z[N + 6] = d[1]
  BY <1>2, <1>7, <1>9, <1>11, <1>13, TablesAre
<1>15. \A i \in 1 .. N : z[1 + i] = AutoMigrate[i]
  BY <1>2, <1>7, <1>9, <1>11, <1>13, AutoMigrateIs, TablesAre
<1>16. \A i \in 1 .. 4 : z[N + 1 + i] = s[i]
  BY <1>3, <1>9, <1>11, <1>13, TablesAre
<1> QED
  BY <1>2, <1>3, <1>12, <1>13, <1>14, <1>15, <1>16, AutoMigrateIs

LEMMA RunProgram ==
    /\ Len(Program["run"]) = N + 10
    /\ \A i \in 1 .. N : Program["run"][i] = <<"table", Tables[i]>>
    /\ Program["run"][N + 1] = <<"rename", "base">>
    /\ \A i \in 1 .. 5 : Program["run"][N + 1 + i] = <<"drop", Obsolete[i]>>
    /\ Program["run"][N + 7] = <<"readAI", None>>
    /\ Program["run"][N + 8] = <<"writeAI", None>>
    /\ Program["run"][N + 9] = <<"load", None>>
    /\ Program["run"][N + 10] = <<"serve", None>>
<1>1. PICK a, s, d : /\ a = <<<<"rename", "base">>>>
                     /\ s = [i \in DOMAIN Obsolete |-> <<"drop", Obsolete[i]>>]
                     /\ d = <<<<"readAI", None>>, <<"writeAI", None>>, <<"load", None>>, <<"serve", None>>>>
  OBVIOUS
<1>2. /\ a \in Seq(Statements) /\ Len(a) = 1 /\ a[1] = <<"rename", "base">>
      /\ d \in Seq(Statements) /\ Len(d) = 4
      /\ d[1] = <<"readAI", None>> /\ d[2] = <<"writeAI", None>>
      /\ d[3] = <<"load", None>> /\ d[4] = <<"serve", None>>
  <2>1. /\ <<"rename", "base">> \in Statements /\ <<"readAI", None>> \in Statements
        /\ <<"writeAI", None>> \in Statements /\ <<"load", None>> \in Statements
        /\ <<"serve", None>> \in Statements
    BY DEF Statements, Kinds, Objects
  <2>2. a \in Seq(Statements) /\ Len(a) = 1 /\ a[1] = <<"rename", "base">>
    BY <1>1, <2>1, OfOne
  <2>3. /\ d \in Seq(Statements) /\ Len(d) = 4
        /\ d[1] = <<"readAI", None>> /\ d[2] = <<"writeAI", None>>
        /\ d[3] = <<"load", None>> /\ d[4] = <<"serve", None>>
    BY <1>1, <2>1, OfFour
  <2> QED
    BY <2>2, <2>3
<1>3. s \in Seq(Statements) /\ Len(s) = 5 /\ \A i \in 1 .. 5 : s[i] = <<"drop", Obsolete[i]>>
  BY <1>1, ObsoleteAre
<1>4. Program["run"] = AutoMigrate \o a \o s \o d
  BY <1>1 DEF Program
<1>5. PICK x : x = AutoMigrate \o a
  OBVIOUS
<1>6. a \in Seq(Statements) /\ s \in Seq(Statements) /\ d \in Seq(Statements)
  BY <1>2, <1>3
<1>7. /\ x \in Seq(Statements) /\ Len(x) = Len(AutoMigrate) + Len(a)
      /\ \A i \in 1 .. Len(AutoMigrate) : x[i] = AutoMigrate[i]
      /\ \A i \in 1 .. Len(a) : x[Len(AutoMigrate) + i] = a[i]
  BY <1>5, <1>6, AutoMigrateIs, Joined
<1>8. PICK y : y = x \o s
  OBVIOUS
<1>9. /\ y \in Seq(Statements) /\ Len(y) = Len(x) + Len(s)
      /\ \A i \in 1 .. Len(x) : y[i] = x[i]
      /\ \A i \in 1 .. Len(s) : y[Len(x) + i] = s[i]
  BY <1>6, <1>7, <1>8, Joined
<1>10. PICK z : z = y \o d
  OBVIOUS
<1>11. /\ Len(z) = Len(y) + Len(d)
       /\ \A i \in 1 .. Len(y) : z[i] = y[i]
       /\ \A i \in 1 .. Len(d) : z[Len(y) + i] = d[i]
  BY <1>6, <1>9, <1>10, Joined
<1>12. Program["run"] = z
  BY <1>4, <1>5, <1>8, <1>10
<1>13. Len(x) = N + 1 /\ Len(y) = N + 6 /\ Len(z) = N + 10
  BY <1>2, <1>3, <1>7, <1>9, <1>11, AutoMigrateIs, TablesAre
<1>14. z[N + 1] = a[1]
  <2>1. x[N + 1] = a[1]
    BY <1>2, <1>7, AutoMigrateIs
  <2> QED
    BY <2>1, <1>9, <1>11, <1>13, TablesAre
<1>15. z[N + 7] = d[1] /\ z[N + 8] = d[2] /\ z[N + 9] = d[3] /\ z[N + 10] = d[4]
  <2>1. \A i \in 1 .. 4 : z[N + 6 + i] = d[i]
    BY <1>2, <1>11, <1>13
  <2> QED
    BY <2>1, TablesAre
<1>16. \A i \in 1 .. N : z[i] = AutoMigrate[i]
  BY <1>7, <1>9, <1>11, <1>13, AutoMigrateIs, TablesAre
<1>17. \A i \in 1 .. 5 : z[N + 1 + i] = s[i]
  <2>1. \A i \in 1 .. 5 : y[N + 1 + i] = s[i] /\ N + 1 + i \in 1 .. N + 6
    BY <1>3, <1>9, <1>13, TablesAre
  <2> QED
    BY <2>1, <1>11, <1>13
<1> QED
  BY <1>2, <1>3, <1>12, <1>13, <1>14, <1>15, <1>16, <1>17, AutoMigrateIs

LEMMA MigrateProgram ==
    /\ Len(Program["migrate"]) = 6
    /\ \A i \in 1 .. 4 : Program["migrate"][i] = <<"drop", Destructive[i]>>
    /\ Program["migrate"][5] = <<"ldap", None>>
    /\ Program["migrate"][6] = <<"done", None>>
<1>1. PICK s, d : /\ s = [i \in DOMAIN Destructive |-> <<"drop", Destructive[i]>>]
                  /\ d = <<<<"ldap", None>>, <<"done", None>>>>
  OBVIOUS
<1>2. s \in Seq(Statements) /\ Len(s) = 4 /\ \A i \in 1 .. 4 : s[i] = <<"drop", Destructive[i]>>
  BY <1>1, DestructiveAre
<1>3. d \in Seq(Statements) /\ Len(d) = 2 /\ d[1] = <<"ldap", None>> /\ d[2] = <<"done", None>>
  <2>1. <<"ldap", None>> \in Statements /\ <<"done", None>> \in Statements
    BY DEF Statements, Kinds, Objects
  <2> QED
    BY <1>1, <2>1, OfTwo
<1>4. PICK z : z = s \o d
  OBVIOUS
<1>5. s \in Seq(Statements) /\ d \in Seq(Statements)
  BY <1>2, <1>3
<1>6. /\ Len(z) = Len(s) + Len(d)
      /\ \A i \in 1 .. Len(s) : z[i] = s[i]
      /\ \A i \in 1 .. Len(d) : z[Len(s) + i] = d[i]
  BY <1>4, <1>5, Joined
<1>7. Program["migrate"] = z
  BY <1>1, <1>4 DEF Program
<1>8. z[5] = d[1] /\ z[6] = d[2] /\ \A i \in 1 .. 4 : z[i] = s[i]
  BY <1>2, <1>3, <1>6
<1> QED
  BY <1>2, <1>3, <1>6, <1>7, <1>8

\* What a statement says about the command and the position it is at.
Known(c, i, s) ==
    /\ s[1] \in Kinds
    /\ s[1] = "table" => s[2] \in AllTables
    /\ s[1] = "seed" => s[2] \in SeedRows /\ c = "install"
    /\ s[1] \notin {"done", "serve"} => i + 1 \in 1 .. Len(Program[c])
    /\ s[1] = "hasTable" => c = "install" /\ i = 1
    /\ s[1] = "writeAI" => c = "run" /\ i = N + 8
    /\ s[1] = "serve" => c = "run" /\ i = N + 10

LEMMA Positions ==
    ASSUME NEW c \in Commands, NEW i \in 1 .. Len(Program[c])
    PROVE  Known(c, i, Program[c][i])
<1>0. PICK s : s = Program[c][i]
  OBVIOUS
<1>1. CASE c = "install"
  <2>0. Len(Program[c]) = N + 6 /\ N \in Nat \ {0}
    BY <1>1, InstallProgram, TablesAre
  <2>1. CASE i = 1
    <3>1. s[1] = "hasTable"
      BY <1>0, <1>1, <2>1, InstallProgram
    <3> QED
      BY <1>0, <1>1, <2>0, <2>1, <3>1 DEF Known, Kinds
  <2>2. ASSUME NEW k \in 1 .. N, i = 1 + k
        PROVE  Known(c, i, s)
    <3>1. s[1] = "table" /\ s[2] = Tables[k]
      BY <1>0, <1>1, <2>2, InstallProgram
    <3>2. s[2] \in AllTables
      BY <3>1, TablesAre DEF AllTables
    <3> QED
      BY <1>1, <2>0, <2>2, <3>1, <3>2 DEF Known, Kinds
  <2>3. ASSUME NEW k \in 1 .. 4, i = N + 1 + k
        PROVE  Known(c, i, s)
    <3>1. s[1] = "seed" /\ s[2] = Seeds[k]
      BY <1>0, <1>1, <2>3, InstallProgram
    <3>2. s[2] \in SeedRows
      BY <3>1 DEF SeedRows, Seeds
    <3> QED
      BY <1>1, <2>0, <2>3, <3>1, <3>2 DEF Known, Kinds
  <2>4. CASE i = N + 6
    <3>1. s[1] = "done"
      BY <1>0, <1>1, <2>4, InstallProgram
    <3> QED
      BY <1>0, <3>1 DEF Known, Kinds
  <2>5. i = 1 \/ (\E k \in 1 .. N : i = 1 + k) \/ (\E k \in 1 .. 4 : i = N + 1 + k) \/ i = N + 6
    <3>1. i \in 2 .. N + 1 => i - 1 \in 1 .. N /\ i = 1 + (i - 1)
      BY <2>0
    <3>2. i \in N + 2 .. N + 5 => i - (N + 1) \in 1 .. 4 /\ i = N + 1 + (i - (N + 1))
      BY <2>0
    <3>3. i = 1 \/ i \in 2 .. N + 1 \/ i \in N + 2 .. N + 5 \/ i = N + 6
      BY <2>0
    <3> QED
      BY <3>1, <3>2, <3>3
  <2> QED
    BY <1>0, <2>1, <2>2, <2>3, <2>4, <2>5
<1>2. CASE c = "run"
  <2>0. Len(Program[c]) = N + 10 /\ N \in Nat \ {0}
    BY <1>2, RunProgram, TablesAre
  <2>1. CASE i \in 1 .. N
    <3>0. Program["run"][i] = <<"table", Tables[i]>>
      BY <2>1, RunProgram
    <3>1. s[1] = "table" /\ s[2] = Tables[i]
      BY <1>0, <1>2, <3>0
    <3>2. s[2] \in AllTables
      BY <2>1, <3>1, TablesAre DEF AllTables
    <3> QED
      BY <1>0, <1>2, <2>0, <2>1, <3>1, <3>2 DEF Known, Kinds
  <2>2. ASSUME NEW k \in 1 .. 5, i = N + 1 + k
        PROVE  Known(c, i, s)
    <3>0. Program["run"][i] = <<"drop", Obsolete[k]>>
      BY <2>2, RunProgram
    <3>1. s[1] = "drop"
      BY <1>0, <1>2, <3>0
    <3> QED
      BY <1>2, <2>0, <2>2, <3>1 DEF Known, Kinds
  <2>3. CASE i = N + 1
    <3>1. s[1] = "rename"
      BY <1>0, <1>2, <2>3, RunProgram
    <3> QED
      BY <1>0, <2>0, <2>3, <3>1 DEF Known, Kinds
  <2>4. CASE i \in N + 7 .. N + 9
    <3>0. /\ i = N + 7 => Program["run"][i] = <<"readAI", None>>
          /\ i = N + 8 => Program["run"][i] = <<"writeAI", None>>
          /\ i = N + 9 => Program["run"][i] = <<"load", None>>
      BY RunProgram
    <3>1. /\ i = N + 7 => s[1] = "readAI"
          /\ i = N + 8 => s[1] = "writeAI"
          /\ i = N + 9 => s[1] = "load"
      BY <1>0, <1>2, <3>0
    <3>2. i = N + 7 \/ i = N + 8 \/ i = N + 9
      BY <2>0, <2>4
    <3> QED
      BY <1>0, <1>2, <2>0, <3>1, <3>2 DEF Known, Kinds
  <2>5. CASE i = N + 10
    <3>1. s[1] = "serve"
      BY <1>0, <1>2, <2>5, RunProgram
    <3> QED
      BY <1>0, <1>2, <2>5, <3>1 DEF Known, Kinds
  <2>6. i \in 1 .. N \/ (\E k \in 1 .. 5 : i = N + 1 + k) \/ i = N + 1 \/ i \in N + 7 .. N + 9 \/ i = N + 10
    <3>1. i \in N + 2 .. N + 6 => i - (N + 1) \in 1 .. 5 /\ i = N + 1 + (i - (N + 1))
      BY <2>0
    <3>2. i \in 1 .. N \/ i = N + 1 \/ i \in N + 2 .. N + 6 \/ i \in N + 7 .. N + 9 \/ i = N + 10
      BY <2>0
    <3> QED
      BY <3>1, <3>2
  <2> QED
    BY <1>0, <2>1, <2>2, <2>3, <2>4, <2>5, <2>6
<1>3. CASE c = "migrate"
  <2>1. Len(Program[c]) = 6
    BY <1>3, MigrateProgram
  <2>2. /\ i \in 1 .. 4 => s[1] = "drop"
        /\ i = 5 => s[1] = "ldap"
        /\ i = 6 => s[1] = "done"
    BY <1>0, <1>3, MigrateProgram
  <2>3. i \in 1 .. 4 \/ i = 5 \/ i = 6
    BY <2>1
  <2> QED
    BY <1>0, <2>1, <2>2, <2>3 DEF Known, Kinds
<1> QED
  BY <1>1, <1>2, <1>3, CommandsAre

-----------------------------------------------------------------------------
(***************************************************************************)
(* Every process is at a statement of its command.                         *)
(***************************************************************************)
Running(p) == process[p].command \in Commands /\ process[p].at \in 1 .. Len(Program[process[p].command])

Placed == \A p \in Processes : process[p] = Idle \/ Running(p)

Fit == TypeOK /\ Placed

LEMMA IdleIs ==
    /\ Idle \in ProcessType
    /\ Idle.command = None /\ Idle.at = 0
    /\ None \notin Commands
  BY NoneAssumption DEF Idle, ProcessType

LEMMA NoneIs == None \notin Kinds
  BY NoneAssumption DEF Kinds

\* Where a process is that can make a step of some kind.
LEMMA Here ==
    ASSUME Fit, NEW p \in Processes, Statement(p)[1] \in Kinds
    PROVE  /\ process[p] # Idle /\ Running(p)
           /\ Statement(p) = Program[process[p].command][process[p].at]
           /\ Known(process[p].command, process[p].at, Statement(p))
<1>1. process[p] # Idle
  BY NoneIs DEF Statement
<1>2. Running(p)
  BY <1>1 DEF Fit, Placed
<1>3. Statement(p) = Program[process[p].command][process[p].at]
  BY <1>1 DEF Statement
<1>4. PICK c, i : c = process[p].command /\ i = process[p].at
  OBVIOUS
<1>5. c \in Commands /\ i \in 1 .. Len(Program[c])
  BY <1>2, <1>4 DEF Running
<1>6. Known(c, i, Program[c][i])
  BY <1>5, Positions
<1> QED
  BY <1>1, <1>2, <1>3, <1>4, <1>6

LEMMA SameField ==
    ASSUME NEW c, NEW i, NEW b, NEW f
    PROVE  [[command |-> c, at |-> i, noAI |-> b, since |-> f] EXCEPT !.since = f]
              = [command |-> c, at |-> i, noAI |-> b, since |-> f]
  OBVIOUS

LEMMA IdleStays == [Idle EXCEPT !.since = FALSE] = Idle
<1>1. PICK f \in BOOLEAN : f = FALSE
  OBVIOUS
<1>2. Idle = [command |-> None, at |-> 0, noAI |-> f, since |-> f]
  BY <1>1 DEF Idle
<1>3. [Idle EXCEPT !.since = f] = Idle
  BY <1>2, SameField
<1> QED
  BY <1>1, <1>3

Moves(p, r) == r \in ProcessType /\ process' = [process EXCEPT ![p] = r]

\* The process goes on to its next statement; the look at the AI document is remembered.
Onward(p, r) ==
    /\ r.command = process[p].command
    /\ r.at = process[p].at + 1
    /\ r.at \in 1 .. Len(Program[r.command])
    /\ At(p, "readAI") => r.noAI = (ai = None)

LEMMA GoOnMoves ==
    ASSUME Fit, NEW p \in Processes, Statement(p)[1] \in Kinds \ {"done", "serve", "readAI"},
           process' = [process EXCEPT ![p].at = @ + 1]
    PROVE  \E r : Moves(p, r) /\ Onward(p, r)
<1>1. PICK r : r = [process[p] EXCEPT !.at = @ + 1]
  OBVIOUS
<1>2. process[p] \in ProcessType
  BY DEF Fit, TypeOK
<1>3. r \in ProcessType /\ r.command = process[p].command /\ r.at = process[p].at + 1
  BY <1>1, <1>2 DEF ProcessType
<1>4. process[p].at + 1 \in 1 .. Len(Program[process[p].command])
  BY Here DEF Known
<1>5. process' = [process EXCEPT ![p] = r]
  BY <1>1
<1> QED
  BY <1>3, <1>4, <1>5 DEF Moves, Onward, At

LEMMA ExecuteMoves ==
    ASSUME Fit, NEW p \in Processes, Execute(p) \/ Refused(p)
    PROVE  /\ Statement(p)[1] \in Kinds
           /\ \E r : Moves(p, r) /\ (r = Idle \/ Onward(p, r))
           /\ UNCHANGED <<commands, stops>>
           /\ failed' = (failed \/ Refused(p))
<1>1. ASSUME MigrateTable(p) \/ Seed(p) \/ RenameColumn(p) \/ DropColumn(p) \/ WriteAI(p) \/ Load(p) \/ ResetLdap(p)
      PROVE  /\ Statement(p)[1] \in Kinds \ {"done", "serve", "readAI"}
             /\ GoOn(p)
  BY <1>1 DEF MigrateTable, Seed, RenameColumn, DropColumn, WriteAI, Load, ResetLdap, At, Kinds
<1>2. ASSUME Refused(p)
      PROVE  Statement(p)[1] \in Kinds \ {"done", "serve", "readAI"}
  BY <1>2 DEF Refused, Kinds
<1>3. ASSUME ReadAI(p)
      PROVE  /\ Statement(p)[1] \in Kinds
             /\ \E r : Moves(p, r) /\ (r = Idle \/ Onward(p, r))
             /\ UNCHANGED <<commands, stops, failed>>
  <2>1. Statement(p)[1] = "readAI" /\ Statement(p)[1] \in Kinds
    BY <1>3 DEF ReadAI, At, Kinds
  <2>2. process[p].at + 1 \in 1 .. Len(Program[process[p].command])
    BY <2>1, Here DEF Known
  <2>3. PICK b \in BOOLEAN : b = (ai = None)
    OBVIOUS
  <2>0. process[p] \in ProcessType /\ process[p].at + 1 \in Nat
    BY DEF Fit, TypeOK, ProcessType
  <2>4. PICK i \in Nat, f \in BOOLEAN : i = process[p].at + 1 /\ f = FALSE
    BY <2>0
  <2>5. PICK r : r = [process[p] EXCEPT !.at = i, !.noAI = b, !.since = f]
    OBVIOUS
  <2>6. r \in ProcessType /\ r.command = process[p].command /\ r.at = i /\ r.noAI = b
    BY <2>0, <2>5 DEF ProcessType
  <2>7. process' = [process EXCEPT ![p].at = i, ![p].noAI = b, ![p].since = f]
    BY <1>3, <2>3, <2>4 DEF ReadAI
  <2>8. process' = [process EXCEPT ![p] = r]
    BY <2>5, <2>7
  <2>9. r.noAI = (ai = None)
    BY <2>3, <2>6, Zenon
  <2> QED
    BY <1>3, <2>1, <2>2, <2>4, <2>6, <2>8, <2>9 DEF ReadAI, Moves, Onward
<1>4. ASSUME HasTable(p) \/ Done(p), Exit(p)
      PROVE  /\ Statement(p)[1] \in Kinds
             /\ \E r : Moves(p, r) /\ (r = Idle \/ Onward(p, r))
             /\ UNCHANGED <<commands, stops, failed>>
  BY <1>4, IdleIs DEF HasTable, Done, At, Kinds, Exit, Moves
<1>5. ASSUME HasTable(p), GoOn(p)
      PROVE  Statement(p)[1] \in Kinds \ {"done", "serve", "readAI"}
  BY <1>5 DEF HasTable, At, Kinds
<1>6. ASSUME GoOn(p), Statement(p)[1] \in Kinds \ {"done", "serve", "readAI"}
      PROVE  /\ Statement(p)[1] \in Kinds
             /\ \E r : Moves(p, r) /\ (r = Idle \/ Onward(p, r))
             /\ UNCHANGED <<commands, stops, failed>>
  BY <1>6, GoOnMoves DEF GoOn
<1>7. failed \in BOOLEAN
  BY DEF Fit, TypeOK
<1>8. ASSUME UNCHANGED failed, ~Refused(p)
      PROVE  failed' = (failed \/ Refused(p))
  BY <1>7, <1>8
<1>9. CASE Refused(p)
  BY <1>2, <1>9, GoOnMoves DEF Refused
<1>10. CASE Execute(p) /\ ~Refused(p)
  <2>1. HasTable(p) => Exit(p) \/ GoOn(p)
    BY DEF HasTable
  <2>2. Done(p) => Exit(p)
    BY DEF Done
  <2> QED
    BY <1>1, <1>3, <1>4, <1>5, <1>6, <1>8, <1>10, <2>1, <2>2 DEF Execute
<1> QED
  BY <1>9, <1>10

\* A process that has moved, next to the others.
LEMMA MovedPlaces ==
    ASSUME Fit, NEW p \in Processes, NEW r, Moves(p, r),
           r = Idle \/ (r.command \in Commands /\ r.at \in 1 .. Len(Program[r.command]))
    PROVE  process' \in [Processes -> ProcessType] /\ Placed'
<1>1. process \in [Processes -> ProcessType]
  BY DEF Fit, TypeOK
<1>2. \A q \in Processes : process'[q] = IF q = p THEN r ELSE process[q]
  BY <1>1 DEF Moves
<1>3. process' \in [Processes -> ProcessType]
  BY <1>1 DEF Moves
<1> QED
  BY <1>2, <1>3 DEF Fit, Placed, Running

LEMMA ExecutePlaces ==
    ASSUME Fit, NEW p \in Processes, Execute(p) \/ Refused(p)
    PROVE  process' \in [Processes -> ProcessType] /\ Placed'
<1>1. PICK r : Moves(p, r) /\ (r = Idle \/ Onward(p, r))
  BY ExecuteMoves
<1>2. Running(p)
  BY ExecuteMoves, Here
<1> QED
  BY <1>1, <1>2, MovedPlaces DEF Onward, Running

\* A save touches nothing of the other processes but the note of it.
LEMMA SavePlaces ==
    ASSUME Fit, NEW p \in Processes, SuperSaveSetting(p)
    PROVE  /\ process' \in [Processes -> ProcessType] /\ Placed'
           /\ \A q \in Processes :
                 /\ process[q] = Idle <=> process'[q] = Idle
                 /\ process'[q].command = process[q].command
                 /\ process'[q].at = process[q].at
                 /\ process[q] # Idle => process'[q].since
<1>1. process \in [Processes -> ProcessType]
  BY DEF Fit, TypeOK
<1>2. ASSUME NEW q \in Processes
      PROVE  /\ process'[q] \in ProcessType
             /\ process[q] = Idle <=> process'[q] = Idle
             /\ process'[q].command = process[q].command
             /\ process'[q].at = process[q].at
             /\ process[q] # Idle => process'[q].since
  <2>1. PICK r : r = process[q]
    OBVIOUS
  <2>2. PICK b \in BOOLEAN : b = (r # Idle)
    OBVIOUS
  <2>3. process'[q] = [r EXCEPT !.since = b]
    BY <2>1, <2>2 DEF SuperSaveSetting
  <2>4. r \in ProcessType
    BY <1>1, <2>1
  <2>5. ~b => [r EXCEPT !.since = b] = Idle
    <3>1. ~b => r = Idle /\ b = FALSE
      BY <2>2
    <3> QED
      BY <3>1, IdleStays
  <2>6. b => [r EXCEPT !.since = b] # Idle
    BY <2>4 DEF Idle, ProcessType
  <2>7. PICK s : s = [r EXCEPT !.since = b]
    OBVIOUS
  <2>8. s \in ProcessType /\ s.command = r.command /\ s.at = r.at /\ s.since = b
    BY <2>4, <2>7 DEF ProcessType
  <2> QED
    BY <2>1, <2>2, <2>3, <2>5, <2>6, <2>7, <2>8
<1>3. process' \in [Processes -> ProcessType]
  BY <1>2 DEF SuperSaveSetting
<1>4. Placed'
  BY <1>2 DEF Fit, Placed, Running
<1> QED
  BY <1>2, <1>3, <1>4

-----------------------------------------------------------------------------
(***************************************************************************)
(* What a statement does to the schema, and types.                         *)
(***************************************************************************)
LEMMA ExecuteSchema ==
    ASSUME Fit, NEW p \in Processes, Execute(p) \/ Refused(p)
    PROVE  /\ tables \subseteq tables' /\ tables' \subseteq AllTables
           /\ columns' \subseteq columns \union {"data_base"}
           /\ taskBase' \in {None, "base", "data_base", "lost"}
           /\ At(p, "table") /\ ~Refused(p) => Statement(p)[2] \in tables'
           /\ At(p, "drop") /\ ~Refused(p) => Statement(p)[2] \notin columns'
<1>0. /\ tables \subseteq AllTables
      /\ taskBase \in {None, "base", "data_base", "lost"}
  BY DEF Fit, TypeOK
<1>1. CASE MigrateTable(p)
  <2>1. Statement(p)[1] = "table" /\ Statement(p)[1] \in Kinds
    BY <1>1 DEF MigrateTable, At, Kinds
  <2>2. Statement(p)[2] \in AllTables
    BY <2>1, Here DEF Known
  <2> QED
    BY <1>0, <1>1, <2>1, <2>2 DEF MigrateTable, At
<1>2. CASE RenameColumn(p)
  BY <1>0, <1>2 DEF RenameColumn, At
<1>3. CASE DropColumn(p)
  BY <1>0, <1>3 DEF DropColumn, At
<1>4. CASE HasTable(p) \/ Seed(p) \/ ReadAI(p) \/ WriteAI(p) \/ Load(p) \/ ResetLdap(p) \/ Done(p)
  <2>1. UNCHANGED <<tables, columns, taskBase>>
    BY <1>4 DEF HasTable, Seed, ReadAI, WriteAI, Load, ResetLdap, Done, data
  <2>2. ~At(p, "table") /\ ~At(p, "drop")
    BY <1>4 DEF HasTable, Seed, ReadAI, WriteAI, Load, ResetLdap, Done, At
  <2> QED
    BY <1>0, <2>1, <2>2
<1>5. CASE Refused(p)
  BY <1>0, <1>5 DEF Refused, data
<1> QED
  BY <1>1, <1>2, <1>3, <1>4, <1>5 DEF Execute

LEMMA ExecuteRows ==
    ASSUME Fit, NEW p \in Processes, Execute(p) \/ Refused(p)
    PROVE  /\ seeds' \in [SeedRows -> Nat]
           /\ ai' \in {None, "default", "saved"}
           /\ ldap' \in {None, "default", "saved"}
           /\ \A t \in SeedRows : seeds'[t] >= seeds[t]
<1>0. /\ seeds \in [SeedRows -> Nat]
      /\ ai \in {None, "default", "saved"} /\ ldap \in {None, "default", "saved"}
  BY DEF Fit, TypeOK
<1>1. CASE Seed(p)
  <2>1. PICK t : t = Statement(p)[2]
    OBVIOUS
  <2>2. seeds' = IF t \in tables THEN [seeds EXCEPT ![t] = @ + 1] ELSE seeds
    BY <1>1, <2>1 DEF Seed
  <2>3. seeds' \in [SeedRows -> Nat]
    <3>1. Statement(p)[1] = "seed" /\ Statement(p)[1] \in Kinds
      BY <1>1 DEF Seed, At, Kinds
    <3>2. t \in SeedRows
      BY <2>1, <3>1, Here DEF Known
    <3>3. PICK m \in Nat : m = seeds[t] + 1
      BY <1>0, <3>2
    <3>4. seeds' = IF t \in tables THEN [seeds EXCEPT ![t] = m] ELSE seeds
      BY <2>2, <3>3
    <3> QED
      BY <1>0, <3>4
  <2>5. ASSUME NEW s \in SeedRows
        PROVE  seeds'[s] >= seeds[s]
    <3>1. PICK m \in Nat : m = seeds[s]
      BY <1>0
    <3>2. seeds'[s] = m \/ seeds'[s] = m + 1
      BY <1>0, <2>2, <3>1
    <3> QED
      BY <3>1, <3>2
  <2>4. ai' \in {ai, "default"} /\ ldap' \in {ldap, "default"}
    BY <1>1 DEF Seed
  <2> QED
    BY <1>0, <2>3, <2>4, <2>5
<1>2. CASE WriteAI(p) \/ ResetLdap(p)
  BY <1>0, <1>2 DEF WriteAI, ResetLdap
<1>3. CASE HasTable(p) \/ MigrateTable(p) \/ RenameColumn(p) \/ DropColumn(p) \/ ReadAI(p) \/ Load(p)
           \/ Done(p) \/ Refused(p)
  <2>1. UNCHANGED <<seeds, ai, ldap>>
    BY <1>3 DEF HasTable, MigrateTable, RenameColumn, DropColumn, ReadAI, Load, Done, Refused, data
  <2> QED
    BY <1>0, <2>1
<1> QED
  BY <1>1, <1>2, <1>3 DEF Execute

LEMMA FitInit == Init => Fit
<1> SUFFICES ASSUME Init PROVE Fit
  OBVIOUS
<1>1. tables \subseteq AllTables
  BY DEF Init
<1>2. columns \subseteq ObsoleteColumns \union DestructiveColumns \union {"data_base"}
  <2>1. {"base", "time"} \subseteq ObsoleteColumns
    <3>1. Obsolete[3] = "base" /\ Obsolete[4] = "time" /\ 3 \in DOMAIN Obsolete /\ 4 \in DOMAIN Obsolete
      BY DEF Obsolete
    <3> QED
      BY <3>1 DEF ObsoleteColumns
  <2>2. "permissions" \in DestructiveColumns
    <3>1. Destructive[3] = "permissions" /\ 3 \in DOMAIN Destructive
      BY DEF Destructive
    <3> QED
      BY <3>1 DEF DestructiveColumns
  <2> QED
    BY <2>1, <2>2 DEF Init
<1>3. /\ taskBase \in {None, "base", "data_base", "lost"}
      /\ seeds \in [SeedRows -> Nat]
      /\ ai \in {None, "default", "saved"}
      /\ ldap \in {None, "default", "saved"}
  BY DEF Init
<1>4. process \in [Processes -> ProcessType] /\ \A p \in Processes : process[p] = Idle
  BY IdleIs DEF Init
<1>5. commands \in 0 .. MaxCommands /\ stops \in 0 .. MaxStops
  BY InstallationAssumption DEF Init
<1>6. failed \in BOOLEAN
  BY DEF Init
<1> QED
  BY <1>1, <1>2, <1>3, <1>4, <1>5, <1>6 DEF Fit, TypeOK, Placed

LEMMA StartMoves ==
    ASSUME Fit, NEW p \in Processes, NEW command \in Commands, Start(p, command)
    PROVE  \E r : /\ Moves(p, r)
                  /\ r.command = command /\ r.at = 1
                  /\ 1 \in 1 .. Len(Program[command])
<1>1. PICK r : r = [Idle EXCEPT !.command = command, !.at = 1]
  OBVIOUS
<1>2. r \in ProcessType /\ r.command = command /\ r.at = 1
  BY <1>1, IdleIs DEF ProcessType
<1>3. 1 \in 1 .. Len(Program[command])
  <2>1. Len(Program[command]) \in {N + 6, N + 10, 6}
    BY CommandsAre, InstallProgram, RunProgram, MigrateProgram
  <2> QED
    BY <2>1, TablesAre
<1> QED
  BY <1>1, <1>2, <1>3 DEF Start, Moves

LEMMA FitStep == Fit /\ [Next]_vars => Fit'
<1> SUFFICES ASSUME Fit, [Next]_vars PROVE Fit'
  OBVIOUS
<1>1. ASSUME NEW p \in Processes, NEW command \in Commands, Start(p, command)
      PROVE  Fit'
  <2>1. process' \in [Processes -> ProcessType] /\ Placed'
    BY <1>1, StartMoves, MovedPlaces
  <2>2. commands' \in 0 .. MaxCommands
    BY <1>1, InstallationAssumption DEF Start, Fit, TypeOK
  <2> QED
    BY <1>1, <2>1, <2>2 DEF Start, Fit, TypeOK, data
<1>2. ASSUME NEW p \in Processes, Execute(p) \/ Refused(p)
      PROVE  Fit'
  <2>1. process' \in [Processes -> ProcessType] /\ Placed'
    BY <1>2, ExecutePlaces
  <2>2. commands' \in 0 .. MaxCommands /\ stops' \in 0 .. MaxStops
    BY <1>2, ExecuteMoves DEF Fit, TypeOK
  <2>3. failed' \in BOOLEAN
    BY <1>2, ExecuteMoves
  <2>4. columns' \subseteq ObsoleteColumns \union DestructiveColumns \union {"data_base"}
    BY <1>2, ExecuteSchema DEF Fit, TypeOK
  <2> QED
    BY <1>2, <2>1, <2>2, <2>3, <2>4, ExecuteSchema, ExecuteRows DEF Fit, TypeOK
<1>3. ASSUME NEW p \in Processes, SuperSaveSetting(p)
      PROVE  Fit'
  BY <1>3, SavePlaces DEF SuperSaveSetting, Fit, TypeOK
<1>4. ASSUME NEW p \in Processes, Stop(p)
      PROVE  Fit'
  <2>1. Moves(p, Idle)
    BY <1>4, IdleIs DEF Stop, Moves
  <2>2. process' \in [Processes -> ProcessType] /\ Placed'
    BY <2>1, MovedPlaces
  <2>3. stops' \in 0 .. MaxStops
    BY <1>4, InstallationAssumption DEF Stop, Fit, TypeOK
  <2> QED
    BY <1>4, <2>2, <2>3 DEF Stop, Fit, TypeOK, data
<1>5. CASE UNCHANGED vars
  BY <1>5 DEF vars, Fit, TypeOK, Placed, Running
<1> QED
  BY <1>1, <1>2, <1>3, <1>4, <1>5 DEF Next

\* Every process is at a statement of its command, and every variable has its type.
THEOREM FitHolds == Spec => []Fit
  BY FitInit, FitStep, PTL DEF Spec

\* Every variable keeps its type: no process runs past the end of its command, and only the
\* tables and columns that the programs name come and go.
THEOREM TypeCorrect == Spec => []TypeOK
<1>1. Fit => TypeOK
  BY DEF Fit
<1> QED
  BY <1>1, FitHolds, PTL

-----------------------------------------------------------------------------
(***************************************************************************)
(* A server has the schema it needs.  What the statements before the one a *)
(* process is at have done is not undone by any other process.             *)
(***************************************************************************)
Progress(p) ==
    process[p].command = "run" =>
        /\ \A i \in 1 .. N : i < process[p].at => Tables[i] \in tables
        /\ \A j \in 1 .. 5 : N + 1 + j < process[p].at => Obsolete[j] \notin columns

Progressed == ~failed => \A p \in Processes : Progress(p)

LEMMA ObsoleteNames == "data_base" \notin ObsoleteColumns /\ \A j \in 1 .. 5 : Obsolete[j] \in ObsoleteColumns
<1>1. \A j \in 1 .. 5 : Obsolete[j] \in {"uuid", "rejected", "base", "time", "query_password"}
  BY DEF Obsolete
<1>2. DOMAIN Obsolete = 1 .. 5
  BY DEF Obsolete
<1> QED
  BY <1>1, <1>2 DEF ObsoleteColumns

\* Whatever others do, a process that stays where it is keeps what it has reached.
LEMMA ProgressStays ==
    ASSUME NEW p \in Processes, Progress(p),
           process'[p].command = process[p].command, process'[p].at = process[p].at,
           tables \subseteq tables', columns' \subseteq columns \union {"data_base"}
    PROVE  Progress(p)'
  BY ObsoleteNames DEF Progress

LEMMA OnwardProgress ==
    ASSUME Fit, NEW p \in Processes, Progress(p), Execute(p), ~Refused(p),
           NEW r, Moves(p, r), Onward(p, r)
    PROVE  Progress(p)'
<1> SUFFICES ASSUME process[p].command = "run"
             PROVE  Progress(p)'
  BY DEF Progress, Fit, TypeOK, Moves, Onward
<1>1. PICK i : i = process[p].at
  OBVIOUS
<1>2. process'[p].at = i + 1 /\ process'[p].command = "run"
  BY <1>1 DEF Fit, TypeOK, Moves, Onward
<1>3. i \in 1 .. Len(Program["run"]) /\ Statement(p) = Program["run"][i]
  BY <1>1, ExecuteMoves, Here DEF Running
<1>4. /\ tables \subseteq tables' /\ columns' \subseteq columns \union {"data_base"}
      /\ At(p, "table") => Statement(p)[2] \in tables'
      /\ At(p, "drop") => Statement(p)[2] \notin columns'
  BY ExecuteSchema
<1>5. ASSUME NEW k \in 1 .. N, k < i + 1
      PROVE  Tables[k] \in tables'
  <2>1. CASE k = i
    <3>1. Statement(p) = <<"table", Tables[k]>>
      BY <1>3, <2>1, RunProgram
    <3> QED
      BY <1>4, <3>1 DEF At
  <2>2. CASE k # i
    <3>1. k < i
      BY <1>3, <1>5, <2>2, TablesAre
    <3>2. Tables[k] \in tables
      BY <1>1, <3>1 DEF Progress
    <3> QED
      BY <1>4, <3>2
  <2> QED
    BY <2>1, <2>2
<1>6. ASSUME NEW j \in 1 .. 5, N + 1 + j < i + 1
      PROVE  Obsolete[j] \notin columns'
  <2>1. CASE i = N + 1 + j
    <3>1. Statement(p) = <<"drop", Obsolete[j]>>
      BY <1>3, <2>1, RunProgram
    <3> QED
      BY <1>4, <3>1 DEF At
  <2>2. CASE i # N + 1 + j
    <3>1. N + 1 + j < i
      BY <1>3, <1>6, <2>2, TablesAre
    <3>2. Obsolete[j] \notin columns
      BY <1>1, <3>1 DEF Progress
    <3> QED
      BY <1>4, <3>2, ObsoleteNames
  <2> QED
    BY <2>1, <2>2
<1> QED
  BY <1>2, <1>5, <1>6 DEF Progress

LEMMA IdleProgress ==
    ASSUME NEW p \in Processes, process[p] = Idle
    PROVE  Progress(p)
  BY CommandsAre, IdleIs DEF Progress

LEMMA ProgressStep == Fit /\ Progressed /\ [Next]_vars => Progressed'
<1> SUFFICES ASSUME Fit, Progressed, [Next]_vars, ~failed', NEW q \in Processes
             PROVE  Progress(q)'
  BY DEF Progressed
<1>0. process \in [Processes -> ProcessType] /\ failed \in BOOLEAN
  BY DEF Fit, TypeOK
<1>1. ASSUME NEW p \in Processes, NEW command \in Commands, Start(p, command)
      PROVE  Progress(q)'
  <2>1. Progress(q) /\ UNCHANGED <<tables, columns>>
    BY <1>1 DEF Start, Progressed, data
  <2>2. CASE q = p
    <3>1. process'[q].at = 1
      BY <1>0, <1>1, <2>2, StartMoves DEF Moves
    <3>2. (\A i \in 1 .. N : ~(i < 1)) /\ (\A j \in 1 .. 5 : ~(N + 1 + j < 1))
      BY TablesAre
    <3> QED
      BY <3>1, <3>2 DEF Progress
  <2>3. CASE q # p
    <3>1. process'[q] = process[q]
      BY <1>0, <1>1, <2>3 DEF Start
    <3> QED
      BY <2>1, <3>1, ProgressStays
  <2> QED
    BY <2>2, <2>3
<1>2. ASSUME NEW p \in Processes, Execute(p) \/ Refused(p)
      PROVE  Progress(q)'
  <2>1. ~failed /\ ~Refused(p) /\ Execute(p)
    BY <1>0, <1>2, ExecuteMoves
  <2>2. Progress(q)
    BY <2>1 DEF Progressed
  <2>3. PICK r : Moves(p, r) /\ (r = Idle \/ Onward(p, r))
    BY <1>2, ExecuteMoves
  <2>4. tables \subseteq tables' /\ columns' \subseteq columns \union {"data_base"}
    BY <1>2, ExecuteSchema
  <2>5. CASE q # p
    <3>1. process'[q] = process[q]
      BY <1>0, <2>3, <2>5 DEF Moves
    <3> QED
      BY <2>2, <2>4, <3>1, ProgressStays
  <2>6. CASE q = p /\ r = Idle
    <3>1. process'[q] = Idle
      BY <1>0, <2>3, <2>6 DEF Moves
    <3> QED
      BY <3>1, CommandsAre, IdleIs DEF Progress
  <2>7. CASE q = p /\ Onward(p, r)
    BY <2>1, <2>2, <2>3, <2>7, OnwardProgress
  <2> QED
    BY <2>3, <2>5, <2>6, <2>7
<1>3. ASSUME NEW p \in Processes, SuperSaveSetting(p)
      PROVE  Progress(q)'
  <2>1. Progress(q) /\ UNCHANGED <<tables, columns>>
    BY <1>3 DEF SuperSaveSetting, Progressed
  <2> QED
    BY <1>3, <2>1, SavePlaces, ProgressStays
<1>4. ASSUME NEW p \in Processes, Stop(p)
      PROVE  Progress(q)'
  <2>1. Progress(q) /\ UNCHANGED <<tables, columns>>
    BY <1>4 DEF Stop, Progressed, data
  <2>2. CASE q = p
    <3>1. process'[q] = Idle
      BY <1>0, <1>4, <2>2 DEF Stop
    <3> QED
      BY <3>1, CommandsAre, IdleIs DEF Progress
  <2>3. CASE q # p
    <3>1. process'[q] = process[q]
      BY <1>0, <1>4, <2>3 DEF Stop
    <3> QED
      BY <2>1, <3>1, ProgressStays
  <2> QED
    BY <2>2, <2>3
<1>5. CASE UNCHANGED vars
  BY <1>5 DEF vars, Progressed, Progress
<1> QED
  BY <1>1, <1>2, <1>3, <1>4, <1>5 DEF Next

\* A server has every table and none of the obsolete columns, unless a statement was refused:
\* every older state, every command stopped half-way and every other process included.
THEOREM ServersAreUpToDate == Spec => []ServesUpToDate
<1>1. Init => Progressed
  <2> SUFFICES ASSUME Init PROVE Progressed
    OBVIOUS
  <2>1. \A p \in Processes : process[p] = Idle
    BY DEF Init
  <2> QED
    BY <2>1, IdleProgress DEF Progressed
<1>2. Fit /\ Progressed => ServesUpToDate
  <2> SUFFICES ASSUME Fit, Progressed, NEW p \in Processes, At(p, "serve"), ~failed
               PROVE  tables = AllTables /\ columns \intersect ObsoleteColumns = {}
    BY DEF ServesUpToDate
  <2>1. process[p].command = "run" /\ process[p].at = N + 10
    BY Here DEF At, Known, Kinds
  <2>2. (\A i \in 1 .. N : Tables[i] \in tables) /\ (\A j \in 1 .. 5 : Obsolete[j] \notin columns)
    BY <2>1, TablesAre DEF Progressed, Progress
  <2>3. DOMAIN Obsolete = 1 .. 5
    BY DEF Obsolete
  <2> QED
    BY <2>2, <2>3, TablesAre DEF AllTables, ObsoleteColumns, Fit, TypeOK
<1> QED
  BY <1>1, <1>2, ProgressStep, FitHolds, PTL DEF Spec

-----------------------------------------------------------------------------
(***************************************************************************)
(* What no command repairs.  The only program that inserts the first       *)
(* account looks for the table of the accounts first.                      *)
(***************************************************************************)
LEMMA OthersStay ==
    ASSUME Fit, NEW p \in Processes, NEW r, Moves(p, r), NEW q \in Processes, q # p
    PROVE  process'[q] = process[q]
  BY DEF Fit, TypeOK, Moves

\* A process outside "install", or at its guard, does not insert a row.
LEMMA NoSeed ==
    ASSUME Fit, Unmanaged, NEW p \in Processes, Execute(p) \/ Refused(p)
    PROVE  seeds' = seeds
<1>1. ~Seed(p)
  <2> SUFFICES ASSUME Seed(p) PROVE FALSE
    OBVIOUS
  <2>1. Statement(p)[1] = "seed" /\ Statement(p)[1] \in Kinds
    BY DEF Seed, At, Kinds
  <2>2. process[p].command = "install"
    BY <2>1, Here DEF Known
  <2>3. Statement(p)[1] = "hasTable"
    BY <2>2 DEF Unmanaged, At
  <2> QED
    BY <2>1, <2>3
<1> QED
  BY <1>1 DEF Execute, HasTable, MigrateTable, RenameColumn, DropColumn, ReadAI, WriteAI, Load,
              ResetLdap, Done, Refused, data

LEMMA UnmanagedStep == Fit /\ Unmanaged /\ [Next]_vars => Unmanaged'
<1> SUFFICES ASSUME Fit, Unmanaged, [Next]_vars PROVE Unmanaged'
  OBVIOUS
<1>0. process \in [Processes -> ProcessType]
  BY DEF Fit, TypeOK
<1>1. ASSUME NEW p \in Processes, NEW command \in Commands, Start(p, command)
      PROVE  Unmanaged'
  <2>1. PICK r : Moves(p, r) /\ r.command = command /\ r.at = 1
    BY <1>1, StartMoves
  <2>2. ASSUME NEW q \in Processes, process'[q].command = "install"
        PROVE  At(q, "hasTable")'
    <3>1. CASE q = p
      <4>1. process'[p] = r /\ r # Idle
        BY <1>0, <2>1, IdleIs DEF Moves
      <4>2. Program[r.command][r.at] = <<"hasTable", None>>
        BY <2>1, <2>2, <3>1, <4>1, InstallProgram
      <4> QED
        BY <3>1, <4>1, <4>2 DEF At, Statement
    <3>2. CASE q # p
      <4>1. process'[q] = process[q]
        BY <2>1, <3>2, OthersStay
      <4> QED
        BY <2>2, <4>1 DEF Unmanaged, At, Statement
    <3> QED
      BY <3>1, <3>2
  <2> QED
    BY <1>1, <2>2 DEF Start, data, Unmanaged
<1>2. ASSUME NEW p \in Processes, Execute(p) \/ Refused(p)
      PROVE  Unmanaged'
  <2>1. PICK r : Moves(p, r) /\ (r = Idle \/ Onward(p, r))
    BY <1>2, ExecuteMoves
  <2>2. ASSUME process[p].command = "install"
        PROVE  r = Idle
    <3>1. Statement(p)[1] = "hasTable"
      BY <2>2 DEF Unmanaged, At
    <3>2. HasTable(p) /\ Exit(p)
      BY <1>2, <3>1 DEF Unmanaged, Execute, HasTable, MigrateTable, Seed, RenameColumn, DropColumn,
                        ReadAI, WriteAI, Load, ResetLdap, Done, Refused, At
    <3> QED
      BY <1>0, <2>1, <3>2 DEF Exit, Moves
  <2>3. ASSUME NEW q \in Processes, process'[q].command = "install"
        PROVE  At(q, "hasTable")'
    <3>1. CASE q = p
      <4>1. process'[p] = r
        BY <1>0, <2>1 DEF Moves
      <4> QED
        BY <2>1, <2>2, <2>3, <3>1, <4>1, CommandsAre, IdleIs DEF Onward
    <3>2. CASE q # p
      <4>1. process'[q] = process[q]
        BY <2>1, <3>2, OthersStay
      <4> QED
        BY <2>3, <4>1 DEF Unmanaged, At, Statement
    <3> QED
      BY <3>1, <3>2
  <2>4. "core_accounts" \in tables'
    BY <1>2, ExecuteSchema DEF Unmanaged
  <2> QED
    BY <1>2, <2>3, <2>4, NoSeed DEF Unmanaged
<1>3. ASSUME NEW p \in Processes, SuperSaveSetting(p)
      PROVE  Unmanaged'
  <2>1. ASSUME NEW q \in Processes, process'[q].command = "install"
        PROVE  At(q, "hasTable")'
    <3>1. Statement(q)' = Statement(q) /\ process[q].command = "install"
      BY <1>3, <2>1, SavePlaces DEF Statement
    <3> QED
      BY <3>1 DEF Unmanaged, At
  <2> QED
    BY <1>3, <2>1 DEF SuperSaveSetting, Unmanaged
<1>4. ASSUME NEW p \in Processes, Stop(p)
      PROVE  Unmanaged'
  <2>1. Moves(p, Idle)
    BY <1>4, IdleIs DEF Stop, Moves
  <2>2. ASSUME NEW q \in Processes, process'[q].command = "install"
        PROVE  At(q, "hasTable")'
    <3>1. q # p
      <4>1. process'[p] = Idle
        BY <1>0, <2>1 DEF Moves
      <4> QED
        BY <2>2, <4>1, CommandsAre, IdleIs
    <3>2. process'[q] = process[q]
      BY <2>1, <3>1, OthersStay
    <3> QED
      BY <2>2, <3>2 DEF Unmanaged, At, Statement
  <2> QED
    BY <1>4, <2>2 DEF Stop, data, Unmanaged
<1>5. CASE UNCHANGED vars
  BY <1>5 DEF vars, Unmanaged, At, Statement
<1> QED
  BY <1>1, <1>2, <1>3, <1>4, <1>5 DEF Next

\* An installation with the table of accounts and no account stays without one, whatever is
\* started, stopped or refused.
THEOREM NobodyIsAdded == Spec => UnmanagedStays
<1>1. Fit /\ [Next]_vars => (Unmanaged => Unmanaged')
  BY UnmanagedStep
<1> QED
  BY <1>1, FitHolds, PTL DEF Spec, UnmanagedStays

-----------------------------------------------------------------------------
(***************************************************************************)
(* Saved AI settings.  A process that has found no document and is about   *)
(* to write one was overtaken by whoever saved; and a configuration that   *)
(* somebody saved has a row, so that DataInit does not make the first one. *)
(***************************************************************************)
Overtaken ==
    ai = "saved" =>
        /\ seeds[Config] > 0
        /\ \A p \in Processes : At(p, "writeAI") /\ process[p].noAI => process[p].since

LEMMA ConfigIs == Config \in SeedRows
<1>1. Seeds[2] = Config /\ 2 \in DOMAIN Seeds
  BY DEF Seeds
<1> QED
  BY <1>1 DEF SeedRows

\* Who comes to the UPDATE has just looked.
LEMMA ComesFromLook ==
    ASSUME Fit, NEW p \in Processes, Execute(p) \/ Refused(p), NEW r, Moves(p, r), Onward(p, r),
           At(p, "writeAI")'
    PROVE  r.noAI = (ai = None)
<1>1. process'[p] = r
  BY DEF Fit, TypeOK, Moves
<1>2. Running(p) /\ Statement(p) = Program[process[p].command][process[p].at]
  BY ExecuteMoves, Here
<1>3. r.command \in Commands /\ r.at \in 1 .. Len(Program[r.command])
  BY <1>2 DEF Running, Onward
<1>4. r # Idle
  BY <1>3, IdleIs
<1>5. Program[r.command][r.at][1] = "writeAI"
  BY <1>1, <1>4 DEF At, Statement
<1>6. PICK c, i : c = r.command /\ i = r.at
  OBVIOUS
<1>7. c = "run" /\ i = N + 8
  <2>1. Known(c, i, Program[c][i])
    BY <1>3, <1>6, Positions
  <2> QED
    BY <1>5, <1>6, <2>1 DEF Known
<1>8. process[p].command = "run" /\ process[p].at = N + 7
  <2>1. process[p].at + 1 = N + 8 /\ process[p].at \in Nat
    BY <1>2, <1>6, <1>7 DEF Onward, Fit, TypeOK, ProcessType
  <2> QED
    BY <1>6, <1>7, <2>1, TablesAre DEF Onward
<1>9. At(p, "readAI")
  BY <1>2, <1>8, RunProgram DEF At
<1> QED
  BY <1>9 DEF Onward

LEMMA OvertakenStep == Fit /\ Overtaken /\ [Next]_vars => Overtaken'
<1> SUFFICES ASSUME Fit, Overtaken, [Next]_vars, ai' = "saved"
             PROVE  /\ seeds'[Config] > 0
                    /\ \A p \in Processes :
                          At(p, "writeAI")' /\ process'[p].noAI => process'[p].since
  BY DEF Overtaken
<1>0. process \in [Processes -> ProcessType] /\ seeds \in [SeedRows -> Nat]
  BY DEF Fit, TypeOK
<1>1. ASSUME NEW p \in Processes, NEW command \in Commands, Start(p, command)
      PROVE  /\ seeds'[Config] > 0
             /\ \A q \in Processes : At(q, "writeAI")' /\ process'[q].noAI => process'[q].since
  <2>1. PICK r : Moves(p, r) /\ r.command = command /\ r.at = 1 /\ 1 \in 1 .. Len(Program[command])
    BY <1>1, StartMoves
  <2>2. ~At(p, "writeAI")'
    <3>1. process'[p] = r /\ r # Idle
      BY <1>0, <2>1, IdleIs DEF Moves
    <3>2. Known(command, 1, Program[command][1])
      BY <2>1, Positions
    <3>3. Program[command][1][1] # "writeAI"
      BY <3>2, TablesAre DEF Known
    <3> QED
      BY <2>1, <3>1, <3>3 DEF At, Statement
  <2>3. \A q \in Processes : q # p => process'[q] = process[q]
    BY <2>1, OthersStay
  <2> QED
    BY <1>1, <2>2, <2>3 DEF Start, data, Overtaken, At, Statement
<1>2. ASSUME NEW p \in Processes, Execute(p) \/ Refused(p)
      PROVE  /\ seeds'[Config] > 0
             /\ \A q \in Processes : At(q, "writeAI")' /\ process'[q].noAI => process'[q].since
  <2>1. ai = "saved"
    BY <1>2, NoneAssumption
       DEF Execute, HasTable, MigrateTable, Seed, RenameColumn, DropColumn, ReadAI, WriteAI, Load,
           ResetLdap, Done, Refused, data
  <2>2. seeds'[Config] > 0
    <3>1. PICK m, n : m = seeds[Config] /\ n = seeds'[Config]
      OBVIOUS
    <3>2. m \in Nat /\ n \in Nat /\ n >= m /\ m > 0
      BY <1>0, <1>2, <2>1, <3>1, ConfigIs, ExecuteRows DEF Overtaken
    <3> QED
      BY <3>1, <3>2
  <2>3. PICK r : Moves(p, r) /\ (r = Idle \/ Onward(p, r))
    BY <1>2, ExecuteMoves
  <2>4. process'[p] = r
    BY <1>0, <2>3 DEF Moves
  <2>5. At(p, "writeAI")' => ~r.noAI
    <3>1. r = Idle => ~At(p, "writeAI")'
      BY <2>4, NoneAssumption DEF At, Statement
    <3>2. ai # None
      BY <2>1, NoneAssumption
    <3> QED
      BY <1>2, <2>3, <3>1, <3>2, ComesFromLook
  <2>6. \A q \in Processes : q # p => process'[q] = process[q]
    BY <2>3, OthersStay
  <2> QED
    BY <2>1, <2>2, <2>4, <2>5, <2>6 DEF Overtaken, At, Statement
<1>3. ASSUME NEW p \in Processes, SuperSaveSetting(p)
      PROVE  /\ seeds'[Config] > 0
             /\ \A q \in Processes : At(q, "writeAI")' /\ process'[q].noAI => process'[q].since
  <2>1. \A q \in Processes : At(q, "writeAI")' => process[q] # Idle
    BY <1>3, SavePlaces, NoneAssumption DEF At, Statement
  <2> QED
    BY <1>3, <2>1, SavePlaces DEF SuperSaveSetting
<1>4. ASSUME NEW p \in Processes, Stop(p)
      PROVE  /\ seeds'[Config] > 0
             /\ \A q \in Processes : At(q, "writeAI")' /\ process'[q].noAI => process'[q].since
  <2>1. Moves(p, Idle)
    BY <1>4, IdleIs DEF Stop, Moves
  <2>2. ~At(p, "writeAI")'
    <3>1. process'[p] = Idle
      BY <1>0, <2>1 DEF Moves
    <3> QED
      BY <3>1, NoneAssumption DEF At, Statement
  <2>3. \A q \in Processes : q # p => process'[q] = process[q]
    BY <2>1, OthersStay
  <2> QED
    BY <1>4, <2>2, <2>3 DEF Stop, data, Overtaken, At, Statement
<1>5. CASE UNCHANGED vars
  BY <1>5 DEF vars, Overtaken, At, Statement
<1> QED
  BY <1>1, <1>2, <1>3, <1>4, <1>5 DEF Next

\* A start of a server overwrites AI settings only when they were saved between its look and
\* its UPDATE; no other statement of any command overwrites them.
THEOREM SavedIsKept == Spec => SavedAIIsKept
<1>1. Init => Overtaken
  <2> SUFFICES ASSUME Init PROVE Overtaken
    OBVIOUS
  <2>1. \A p \in Processes : ~At(p, "writeAI")
    BY NoneAssumption DEF Init, At, Statement
  <2>2. ai = "saved" => seeds = [s \in SeedRows |-> 1]
    BY NoneAssumption DEF Init
  <2> QED
    BY <2>1, <2>2, ConfigIs DEF Overtaken
<1>2. Fit /\ Overtaken /\ [Next]_vars
         => (ai = "saved" /\ ai' # "saved" =>
               \E p \in Processes : At(p, "writeAI") /\ process[p].noAI /\ process[p].since)
  <2> SUFFICES ASSUME Fit, Overtaken, [Next]_vars, ai = "saved", ai' # "saved"
               PROVE  \E p \in Processes : At(p, "writeAI") /\ process[p].noAI /\ process[p].since
    OBVIOUS
  <2>1. PICK p \in Processes : WriteAI(p) \/ Seed(p)
    BY DEF Next, Start, Execute, HasTable, MigrateTable, RenameColumn, DropColumn, ReadAI, Load,
           ResetLdap, Done, SuperSaveSetting, Refused, Stop, data, vars
  <2>2. ~Seed(p)
    <3>1. seeds[Config] # 0
      BY DEF Overtaken
    <3> QED
      BY <3>1 DEF Seed
  <2> QED
    BY <2>1, <2>2 DEF WriteAI, Overtaken
<1> QED
  BY <1>1, <1>2, OvertakenStep, FitHolds, PTL DEF Spec, SavedAIIsKept
=============================================================================
