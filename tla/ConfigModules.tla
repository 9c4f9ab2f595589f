---------------------------- MODULE ConfigModules ----------------------------
(***************************************************************************)
(* The modules of the security analysis engine and what they keep for each *)
(* server (security_analyze_engine/config/config.c): modules are compiled  *)
(* in or loaded while the configuration is read, each with an index into   *)
(* the configuration vectors of a server; a restart unloads them and       *)
(* starts again.  The vectors are as long as there can be modules until    *)
(* the configuration has been read, and are trimmed then.                  *)
(***************************************************************************)
EXTENDS Integers, SequencesExt

CONSTANTS
  Modules,          \* the modules
  Preloaded,        \* ap_preloaded_modules: those compiled in, in order
  Prelinked,        \* ap_prelinked_modules: those of them that are active
  PerServer,        \* the modules with create_server_config
  PerDir,           \* the modules with create_dir_config
  MergesServer,     \* the modules with merge_server_config
  MergesDir,        \* the modules with merge_dir_config
  DYNAMIC_MODULE_LIMIT,
  MaxReserved,      \* bound on the slots reserved
  MaxVirts,         \* bound on the virtual hosts
  MaxLevels,        \* bound on the LogLevel directives of a configuration
  MaxDirectives,    \* bound on the other directives of virtual hosts
  Restarts,         \* bound on the restarts
  None

ASSUME ConfigModulesAssumption ==
  /\ None \notin Modules
  /\ Preloaded \in Seq(Modules) /\ Prelinked \in Seq(ToSet(Preloaded))
  /\ IsInjective(Preloaded) /\ IsInjective(Prelinked)
  /\ DYNAMIC_MODULE_LIMIT \in Nat

VARIABLES
  mods,             \* of each module: [index, next]
  list,             \* ap_top_module, ap_loaded_modules, ap_config_hash and the counts
  cache,            \* ap_module_short_names and merger_func_cache, by index
  servers,          \* the main server, then the virtual hosts
  phase,            \* "read", "config" once conf_vector_length is trimmed, "serve"
  past,             \* what the configuration said of servers and levels, and the restarts (history)
  wild              \* whether an index past the end of a vector was used (history)

modulesVars == <<mods, list, cache, servers, phase, past, wild>>

UNSET == -2                         \* APLOG_UNSET
NO_MODULE == -1                     \* APLOG_NO_MODULE
DEFAULT_LOGLEVEL == 4

----------------------------------------------------------------------------
(* Vectors: by index, what a module made (<<>> stands for NULL). *)

Empty(n) == [i \in 0..n - 1 |-> <<>>]
Made(m, of) == <<[by |-> m, of |-> of]>>

\* The modules from ap_top_module on; the list is no longer than there are modules.
Chained(M, top) ==
  LET chain[n \in 0..Len(Preloaded) + DYNAMIC_MODULE_LIMIT + 1] ==
        IF n = 0 THEN IF top = None THEN <<>> ELSE <<top>>
        ELSE LET before == chain[n - 1] IN
             IF before = <<>> \/ M[Last(before)].next = None THEN before
             ELSE Append(before, M[Last(before)].next)
  IN chain[Len(Preloaded) + DYNAMIC_MODULE_LIMIT + 1]

\* A vector with what each active module of makers makes for the main server, on S = [mods, list, cache].
created(S, makers) ==
  LET at(i) == {m \in ToSet(Chained(S.mods, S.list.top)) \cap makers : S.mods[m].index = i} IN
  [i \in 0..S.list.length - 1 |-> IF at(i) = {} THEN <<>> ELSE Made(CHOOSE m \in at(i) : TRUE, 1)]
create_default_per_dir_config(S) == created(S, PerDir)
create_server_config(S) == created(S, PerServer)

ap_merge_per_dir_configs(base, new) ==
  [i \in 0..list.length - 1 |->
     IF i >= list.total THEN <<>>
     ELSE IF new[i] = <<>> THEN base[i]
     ELSE IF cache.mergers[i] \in MergesDir /\ base[i] # <<>> THEN base[i] \o new[i]
     ELSE new[i]]

\* A mistaken variant: the main server's over the virtual host's.
MergedBelow(base, virt) ==
  [i \in DOMAIN virt |-> IF virt[i] = <<>> THEN base[i]
                         ELSE IF cache.mergers[i] \in MergesServer THEN virt[i] \o base[i] ELSE virt[i]]
merge_server_configs(base, virt) ==
  LET chain == Chained(mods, list.top)
      merged[n \in 0..Len(chain)] ==
        IF n = 0 THEN virt
        ELSE LET v == merged[n - 1]   i == mods[chain[n]].index IN
             IF v[i] = <<>> THEN [v EXCEPT ![i] = base[i]]
             ELSE IF chain[n] \in MergesServer THEN [v EXCEPT ![i] = base[i] \o v[i]] ELSE v
  IN merged[Len(chain)]

----------------------------------------------------------------------------
(* Levels of logging: of a server, and of modules. *)

\* module_levels = NULL is <<>>, an array otherwise.
NewLog(level) == [level |-> level, modules |-> <<>>]
reset_module_loglevels(l, val) ==
  IF l.modules = <<>> THEN l ELSE [l EXCEPT !.modules = [i \in DOMAIN l.modules |-> val]]
set_module_loglevel(l, index, level) ==
  LET all == [i \in 0..list.length - 1 |-> IF l.level = UNSET THEN UNSET ELSE NO_MODULE]
      levels == IF l.modules = <<>> THEN all ELSE l.modules
  IN [l EXCEPT !.modules = [levels EXCEPT ![index] = level]]

\* A mistaken variant: the levels of modules are inherited under a level of the virtual host.
LevelsInherited(old, new) ==
  [level |-> IF new.level = UNSET THEN old.level ELSE new.level,
   modules |-> IF new.modules = <<>> THEN old.modules
               ELSE IF old.modules = <<>> THEN new.modules
               ELSE [i \in 0..list.length - 1 |-> IF new.modules[i] = UNSET THEN old.modules[i] ELSE new.modules[i]]]
ap_merge_log_config(old, new) ==
  IF new.level # UNSET THEN new
  ELSE [level |-> old.level,
        modules |-> IF new.modules = <<>> THEN old.modules
                    ELSE IF old.modules = <<>> THEN new.modules
                    ELSE [i \in 0..list.length - 1 |->
                            IF new.modules[i] = UNSET THEN old.modules[i] ELSE new.modules[i]]]

\* The level that counts for a module, where the engine logs.
Effective(l, m) ==
  IF l.modules = <<>> \/ l.modules[mods[m].index] < 0 THEN l.level ELSE l.modules[mods[m].index]

----------------------------------------------------------------------------
(* Adding and removing modules. *)

\* ap_add_module on S = [mods, list, cache]; a module already there keeps its index.
ap_add_module(S, m) ==
  LET fresh == S.mods[m].index = -1
      index == IF fresh THEN S.list.total ELSE S.mods[m].index
      linked == S.mods[m].next # None
  IN [mods  |-> [S.mods EXCEPT ![m] = [index |-> index, next |-> IF linked THEN @.next ELSE S.list.top]],
      list  |-> [S.list EXCEPT !.total = @ + IF fresh THEN 1 ELSE 0,
                               !.dynamic = @ + IF fresh THEN 1 ELSE 0,
                               !.top = IF linked THEN @ ELSE m,
                               !.hash = <<m>> \o @],
      cache |-> [names   |-> [S.cache.names EXCEPT ![index] = m],
                 mergers |-> [S.cache.mergers EXCEPT ![index] = m]]]

\* ap_remove_module: the module loses its slot, its commands stay in the hash.
ap_remove_module(S, m) ==
  LET chain == Chained(S.mods, S.list.top)
      at == SelectInSeq(chain, LAMBDA x : x = m)
      index == S.mods[m].index
  IN IF at = 0 THEN S
     ELSE [mods  |-> IF at = 1 THEN [S.mods EXCEPT ![m] = [index |-> -1, next |-> None]]
                     ELSE [S.mods EXCEPT ![chain[at - 1]].next = S.mods[m].next, ![m].index = -1],
           list  |-> [S.list EXCEPT !.top = IF at = 1 THEN S.mods[m].next ELSE @,
                                    !.total = @ - 1, !.dynamic = @ - 1],
           cache |-> [names   |-> [S.cache.names EXCEPT ![index] = None],
                      mergers |-> [S.cache.mergers EXCEPT ![index] = None]]]

\* A mistaken variant: only the list of loaded modules forgets the module.
OnlyUnlisted(S, m) ==
  LET at == SelectInSeq(S.list.loaded, LAMBDA x : x = m) IN
  IF at = 0 THEN S ELSE [S EXCEPT !.list.loaded = RemoveAt(S.list.loaded, at)]
ap_remove_loaded_module(S, m) ==
  LET T == ap_remove_module(S, m)
      at == SelectInSeq(T.list.loaded, LAMBDA x : x = m)
  IN IF at = 0 THEN T ELSE [T EXCEPT !.list.loaded = RemoveAt(T.list.loaded, at)]

\* A mistaken variant: the commands of unloaded modules stay.
HashKept(L) == L
rebuild_conf_hash(L) == [L EXCEPT !.hash = Reverse(Prelinked)]

\* The modules ms, one after the other.
AllAdded(S, ms) ==
  LET added[n \in 0..Len(ms)] == IF n = 0 THEN S ELSE ap_add_module(added[n - 1], ms[n])
  IN added[Len(ms)]
AllRemoved(S, ms) ==
  LET gone[n \in 0..Len(ms)] == IF n = 0 THEN S ELSE ap_remove_loaded_module(gone[n - 1], ms[n])
  IN gone[Len(ms)]

ap_setup_prelinked_modules ==
  LET longest == Len(Preloaded) + DYNAMIC_MODULE_LIMIT + 1
      bare == [mods |-> [m \in Modules |->
                 [index |-> SelectInSeq(Preloaded, LAMBDA x : x = m) - 1, next |-> None]],
               list |-> [top |-> None, loaded |-> Preloaded, hash |-> <<>>, total |-> Len(Preloaded),
                         dynamic |-> 0, max |-> longest, length |-> longest, reserved |-> 0],
               cache |-> [names |-> [i \in 0..longest - 1 |-> None],
                          mergers |-> [i \in 0..longest - 1 |-> None]]]
  IN AllAdded(bare, Prelinked)

Registry == [mods |-> mods, list |-> list, cache |-> cache]
Becomes(S) == mods' = S.mods /\ list' = S.list /\ cache' = S.cache
Active == ToSet(Chained(mods, list.top))

----------------------------------------------------------------------------
(* A run of the engine. *)

NoPast == [levels |-> <<>>, made |-> {}, directives |-> 0]

\* init_server_config: the vectors of the main server, of the modules active now.
init_server_config(S) ==
  [config |-> create_server_config(S), dir |-> create_default_per_dir_config(S), log |-> NewLog(DEFAULT_LOGLEVEL)]

ModulesInit ==
  LET S == ap_setup_prelinked_modules IN
  /\ mods = S.mods /\ list = S.list /\ cache = S.cache
  /\ servers = <<init_server_config(S)>>
  /\ phase = "read" /\ past = [said |-> NoPast, restarts |-> 0] /\ wild = FALSE

\* ap_single_module_configure, for a module loaded now.
Configured(s, m, index) ==
  [s EXCEPT !.config = IF m \in PerServer THEN [s.config EXCEPT ![index] = Made(m, 1)] ELSE @,
            !.dir = IF m \in PerDir THEN [s.dir EXCEPT ![index] = Made(m, 1)] ELSE @]

\* ap_add_loaded_module, from a directive executed as it is read, or later into a reserved slot.
Load(m) ==
  /\ phase \in {"read", "config"} /\ mods[m].index = -1
  /\ list.dynamic < DYNAMIC_MODULE_LIMIT
  /\ phase = "config" => list.reserved > 0 /\ list.total < list.length
  /\ LET S == ap_add_module(Registry, m)
         T == [S EXCEPT !.list.loaded = Append(list.loaded, m)]
         index == T.mods[m].index
     IN /\ Becomes(T)
        /\ servers' = [servers EXCEPT ![1] = Configured(@, m, index)]
        /\ wild' = (wild \/ index \notin DOMAIN servers[1].config \/ index >= list.length)
  /\ UNCHANGED <<phase, past>>

ap_reserve_module_slots ==
  /\ phase = "read" /\ list.reserved < MaxReserved
  /\ list' = [list EXCEPT !.reserved = @ + 1]
  /\ UNCHANGED <<mods, cache, servers, phase, past, wild>>

\* All modules the configuration names are loaded: vectors need no longer be that long.
conf_vector_length_pre_config ==
  /\ phase = "read" /\ phase' = "config"
  /\ list' = [list EXCEPT !.length = IF list.total + list.reserved < list.max
                                     THEN list.total + list.reserved ELSE @]
  /\ UNCHANGED <<mods, cache, servers, past, wild>>

ap_init_virtual_host ==
  /\ phase = "config" /\ Len(servers) <= MaxVirts
  /\ servers' = Append(servers, [config |-> Empty(list.length), dir |-> Empty(list.length), log |-> NewLog(UNSET)])
  /\ UNCHANGED <<mods, list, cache, phase, past, wild>>

\* ap_set_config_vectors: a directive of the module in server s.
ap_set_config_vectors(s, m) ==
  LET i == mods[m].index   of == servers[s] IN
  /\ phase = "config" /\ m \in Active /\ s > 1 /\ past.said.directives < MaxDirectives
  /\ wild' = (wild \/ i \notin DOMAIN of.config \/ i \notin DOMAIN of.dir)
  /\ servers' = [servers EXCEPT
       ![s].dir[i] = IF of.dir[i] = <<>> /\ m \in PerDir THEN Made(m, s) ELSE of.dir[i],
       ![s].config[i] = IF of.config[i] = <<>> /\ m \in PerServer THEN Made(m, s) ELSE of.config[i]]
  /\ past' = [past EXCEPT !.said.made = @ \cup {<<s, m>>}, !.said.directives = @ + 1]
  /\ UNCHANGED <<mods, list, cache, phase>>

\* LogLevel in server s: a level for all (m = None), or for one module.
SetLevel(s, m, level) ==
  /\ phase = "config" /\ Len(past.said.levels) < MaxLevels /\ (m # None => m \in Active)
  /\ servers' = [servers EXCEPT ![s].log =
       IF m = None THEN [reset_module_loglevels(servers[s].log, NO_MODULE) EXCEPT !.level = level]
       ELSE set_module_loglevel(servers[s].log, mods[m].index, level)]
  /\ wild' = (wild \/ (m # None /\ servers[s].log.modules # <<>> /\ mods[m].index \notin DOMAIN servers[s].log.modules))
  /\ past' = [past EXCEPT !.said.levels = Append(@, [server |-> s, of |-> m, level |-> level])]
  /\ UNCHANGED <<mods, list, cache, phase>>

ap_fixup_virtual_hosts ==
  /\ phase = "config" /\ phase' = "serve"
  /\ servers' = [s \in DOMAIN servers |->
       IF s = 1 THEN servers[1]
       ELSE [config |-> merge_server_configs(servers[1].config, servers[s].config),
             dir    |-> ap_merge_per_dir_configs(servers[1].dir, servers[s].dir),
             log    |-> ap_merge_log_config(servers[1].log, servers[s].log)]]
  /\ UNCHANGED <<mods, list, cache, past, wild>>

\* The pool of the configuration is cleared, last in first out: the length of the vectors is
\* reset, the loaded modules are unloaded, the hash is gone; then the next reading begins.
Restart ==
  LET loaded == SubSeq(list.loaded, Len(Preloaded) + 1, Len(list.loaded))
      reset == [Registry EXCEPT !.list.reserved = 0, !.list.length = list.max]
      gone == AllRemoved(reset, Reverse(loaded))
      anew == [gone EXCEPT !.list = rebuild_conf_hash(@)]
  IN /\ phase = "serve" /\ past.restarts < Restarts
     /\ Becomes(anew) /\ servers' = <<init_server_config(anew)>>
     /\ phase' = "read" /\ past' = [said |-> NoPast, restarts |-> past.restarts + 1]
     /\ UNCHANGED wild

ModulesNext ==
  \/ \E m \in Modules : Load(m)
  \/ ap_reserve_module_slots \/ conf_vector_length_pre_config \/ ap_init_virtual_host
  \/ \E s \in DOMAIN servers, m \in Modules : ap_set_config_vectors(s, m)
  \/ \E s \in DOMAIN servers, m \in Modules \cup {None}, level \in {1, 7} : SetLevel(s, m, level)
  \/ ap_fixup_virtual_hosts \/ Restart

ModulesSpec == ModulesInit /\ [][ModulesNext]_modulesVars

----------------------------------------------------------------------------
Loaded == SubSeq(list.loaded, Len(Preloaded) + 1, Len(list.loaded))

\* However modules were loaded and unloaded: the list of modules holds the active ones, the last
\* one first, and so do the commands; each has a slot of its own inside the vectors, under which
\* its name and its merger are kept (554-699, 2360-2390).
ModulesSound ==
  /\ Chained(mods, list.top) = Reverse(Prelinked \o Loaded)
  /\ list.hash = Reverse(Prelinked \o Loaded)
  /\ list.total = Len(Preloaded) + Len(Loaded) /\ list.dynamic = Len(Loaded)
  /\ \A m \in Active :
       /\ mods[m].index \in 0..list.length - 1
       /\ cache.names[mods[m].index] = m /\ cache.mergers[mods[m].index] = m
       /\ \A n \in Active \ {m} : mods[n].index # mods[m].index
  /\ ~wild

\* What a server has of a module once merged, said by module instead of by slot.
Merged(s, m, makers, mergers) ==
  IF m \notin makers THEN <<>>
  ELSE IF <<s, m>> \notin past.said.made THEN Made(m, 1)
  ELSE IF m \in mergers THEN Made(m, 1) \o Made(m, s) ELSE Made(m, s)

\* The level the directives give a module in a server: the last one that names the module or all
\* in it, else that of the main server.
About(levels, s, m) == {k \in DOMAIN levels : levels[k].server = s /\ levels[k].of \in {m, None}}
Said(levels, s, m, default) ==
  IF About(levels, s, m) = {} THEN default ELSE levels[Max(About(levels, s, m))].level
Levelled(s, m) == LET levels == past.said.levels IN Said(levels, s, m, Said(levels, 1, m, DEFAULT_LOGLEVEL))

\* After ap_fixup_virtual_hosts each server has of each module what it made for it, merged over
\* what it made for the main server, and logs at the level that was last said (285-344, 2235-2302).
ConfigsMerged ==
  phase = "serve" => \A s \in DOMAIN servers, m \in Active :
    /\ s > 1 => /\ servers[s].config[mods[m].index] = Merged(s, m, PerServer, MergesServer)
                /\ servers[s].dir[mods[m].index] = Merged(s, m, PerDir, MergesDir)
    /\ Effective(servers[s].log, m) = Levelled(s, m)
=============================================================================
