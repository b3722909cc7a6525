----------------------------- MODULE Generator -----------------------------
(***************************************************************************)
(* The code generator cmd/candi: a service is created by InitService and    *)
(* then extended by AddModule, AddHandler, AddUsecase and ApplyUsecase.    *)
(* Each command reads candi.json and the directories of the project, writes *)
(* files from templates and edits files that exist by replacing text.      *)
(*                                                                         *)
(* files is the project (path to the bag of its lines), cfg is candi.json  *)
(* and log the commands given so far, one action each.                     *)
(*                                                                         *)
(* Not modelled: monorepos and their SDK, -packageprefix, test files, the  *)
(* wording of the prompts.  A name is typed in its delimited form.         *)
(***************************************************************************)
EXTENDS Templates, Bags

CONSTANTS
    Module,       \* names of modules
    Clean,        \* cleanSpecialChar: a name without its dashes
    UsecaseName,  \* names for new usecases, sequences of words
    Menu,         \* the sets of handlers a command asks for
    Stack,        \* the dependencies of a service: [deps, driver, gorm]
    MaxCommands   \* bound on the number of commands

ASSUME GeneratorAssumption ==
    /\ Menu \subseteq (SUBSET (Server \cup Worker \cup Plugin)) \ {{}}
    /\ MaxCommands \in Nat

VARIABLES files, cfg, log

generatorVars == <<files, cfg, log>>

\* IsPrefix of SequencesExt, which redefines names other modules use.
Prefix(s, t) == Len(s) <= Len(t) /\ s = SubSeq(t, 1, Len(s))

GeneratorInit == files = <<>> /\ cfg = [modules |-> {}] /\ log = <<>>

-----------------------------------------------------------------------------
\* Writing and editing.

\* execGenerator: the files of a set of <<path, lines>> replace those there.
Write(fs, new) ==
    [p \in {f[1] : f \in new} \cup DOMAIN fs |->
        IF p \in {f[1] : f \in new} THEN SetToBag((CHOOSE f \in new : f[1] = p)[2]) ELSE fs[p]]

\* fileUpdate: an edit is <<"on", path, facts>>, which uncomments a line, or
\* <<"add", path, facts>>.  The edit of a file that is missing is dropped.
readFileAndApply(fs, edits) ==
    [p \in DOMAIN fs |->
        LET off == {l \in DOMAIN fs[p] : ~l.on /\ <<"on", p, l.facts>> \in edits}
            add == {e \in edits : e[1] = "add" /\ e[2] = p}
        IN  (fs[p] (-) SetToBag(off)) (+) SetToBag({On(l.facts) : l \in off})
                (+) SetToBag({On(e[3]) : e \in add})]

ConfigsGo == <<Configs, <<"configs.go">>>>

AppFactoryGo == <<Configs, <<"app_factory.go">>>>

ServiceGo == <<<<"service">>, <<"service.go">>>>

ApiGo == <<Api, <<"api.go">>>>

Env == <<<<"env">>, <<".env">>>>

RootSchema == <<<<"graphql">>, <<"_schema.graphql">>>>

ModuleGo(m) == <<<<"module", m>>, <<"module.go">>>>

HandlerFile(h, m) == <<Package(h, m), <<h>>>>

\* cliStageInputExistingDelivery: the handlers found in the directories of m.
getAllModuleHandler(m) ==
    {h \in Server \cup Worker \cup Plugin : HandlerFile(h, m) \in DOMAIN files}

-----------------------------------------------------------------------------
\* What projectGenerator writes.

WorkerTemplate(h, m) ==
    CASE h = "kafka" -> deliveryKafkaTemplate(m)
      [] h = "cron" -> deliveryCronTemplate(m)
      [] h = "redissubs" -> deliveryRedisTemplate(m)
      [] h = "taskqueue" -> deliveryTaskQueueTemplate(m)
      [] h = "postgres" -> deliveryPostgresListenerTemplate(m)
      [] h = "rabbitmq" -> deliveryRabbitMQTemplate(m)
      [] h \in Plugin -> deliveryWorkerPluginTemplate(h, m)

DeliveryFiles(h, m, c) ==
    CASE h = "rest" -> {<<HandlerFile(h, m), deliveryRestTemplate(m, c)>>}
      [] h = "grpc" -> {<<HandlerFile(h, m), deliveryGRPCTemplate(m)>>}
      [] h = "graphql" ->
           {<<<<Package(h, m), <<"root_resolver.go">>>>, deliveryGraphqlRootTemplate>>,
            <<HandlerFile(h, m), deliveryGraphqlQueryTemplate(m)>>,
            <<<<Package(h, m), <<"mutation_resolver.go">>>>,
              deliveryGraphqlMutationTemplate(m)>>,
            <<<<Package(h, m), <<"subscription_resolver.go">>>>,
              deliveryGraphqlSubscriptionTemplate(m, c)>>}
      [] h \in Worker \cup Plugin -> {<<HandlerFile(h, m), WorkerTemplate(h, m)>>}

ProtoFile(m) == <<<<"proto", m>>, <<"proto">>>>

parseRepositoryModule(m, c) ==
    {f \in {<<"sql", templateRepositorySQLImpl(m, c)>>,
            <<"mongo", templateRepositoryMongoImpl(m, c)>>,
            <<"arango", templateRepositoryArangoImpl(m)>>} : f[1] \in c.deps}

UsecaseFile(m, name) == <<<<"usecase", m>>, name>>

\* The files of a new module m, with the handlers hs of this call; c is the
\* configuration of the service.
ModuleFiles(m, hs, c) ==
    LET mod == [c EXCEPT !.handlers = hs \cap (Server \cup Worker)]
    IN  (UNION {DeliveryFiles(h, m, mod) : h \in hs})
        \cup {<<ModuleGo(m), moduleMainTemplate(m, mod)>>,
              <<<<SharedDomain, <<m>>>>, templateSharedDomain(m, mod)>>,
              <<<<<<"domain", m>>, <<"filter.go">>>>, templateModuleDomain(m)>>,
              <<<<<<"domain", m>>, <<"request.go">>>>, templateModuleRequestDomain(m)>>,
              <<<<<<"domain", m>>, <<"response.go">>>>, templateModuleResponseDomain(m, mod)>>,
              <<<<<<"repository", m>>, <<"repository.go">>>>, templateRepositoryAbstraction(m)>>,
              <<UsecaseFile(m, <<"usecase.go">>), templateUsecaseAbstraction(m, mod)>>,
              <<UsecaseFile(m, <<"getAll", m>>), templateUsecaseGetAll(m, mod)>>,
              <<UsecaseFile(m, <<"getDetail", m>>), templateUsecaseGetDetail(m, mod)>>,
              <<UsecaseFile(m, <<"create", m>>), templateUsecaseCreate(m, mod)>>,
              <<UsecaseFile(m, <<"update", m>>), templateUsecaseUpdate(m, mod)>>,
              <<UsecaseFile(m, <<"delete", m>>), templateUsecaseDelete(m, mod)>>}
        \cup {<<<<<<"repository", m>>, <<f[1]>>>>, f[2]>> : f \in parseRepositoryModule(m, mod)}
        \cup When("grpc" \in c.handlers, {<<ProtoFile(m), defaultGRPCProto(m)>>})
        \cup When("graphql" \in c.handlers,
                  {<<<<<<"graphql">>, <<m>>>>, defaultGraphqlSchema(m)>>})

parseSharedRepository(c) ==
    {<<<<SharedRepository, <<"repository.go">>>>, templateRepository(c)>>}
    \cup When("sql" \in c.deps,
              {<<<<SharedRepository, <<"sql">>>>, templateRepositoryUOWSQL(c)>>})
    \cup When("mongo" \in c.deps,
              {<<<<SharedRepository, <<"mongo">>>>, templateRepositoryUOWMongo>>})
    \cup When("arango" \in c.deps,
              {<<<<SharedRepository, <<"arango">>>>, templateRepositoryUOWArango>>})

ServiceFiles(c) ==
    {<<ServiceGo, serviceMainTemplate(c.modules)>>, <<ApiGo, apiEmbedTemplate>>,
     <<ConfigsGo, configsTemplate(c)>>, <<AppFactoryGo, appFactoryTemplate(c)>>,
     <<<<SharedUsecase, <<"usecase.go">>>>, templateUsecaseUOW>>,
     <<<<<<"common">>, <<"common.go">>>>, templateUsecaseCommon>>,
     <<<<Shared, <<"middleware_impl_example.go">>>>, templateSharedMiddlewareImpl>>,
     <<<<Shared, <<"environment.go">>>>, additionalEnvTemplate(c)>>,
     <<<<<<"main">>, <<"main.go">>>>, cmdMainTemplate>>, <<Env, envTemplate(c)>>}
    \cup parseSharedRepository(c)
    \cup When(c.gorm, {<<<<Shared, <<"gorm_tracer.go">>>>, templateGORMTracer>>})
    \cup When("graphql" \in c.handlers, {<<RootSchema, {}>>})
    \cup When("sql" \in c.deps,
              {<<<<<<"migration">>, <<"migration.go">>>>, templateCmdMigration(c)>>,
               <<<<<<"migrations">>, <<"init_tables.go">>>>, templateCmdMigrationInitTable>>})

-----------------------------------------------------------------------------
\* What it edits.

updateSharedUsecase(ms) ==
    {<<"add", <<SharedUsecase, <<"usecase.go">>>>, SharedUsecaseOf(m)>> : m \in ms}

\* A mutant: only the unit of work of the SQL database gets the repository.
updateSharedRepositorySQLOnly(ms) ==
    {<<"add", <<SharedRepository, <<"sql">>>>, SharedRepositoryOf(m, "sql")>> : m \in ms}

updateSharedRepository(ms) ==
    {<<"add", <<SharedRepository, <<db>>>>, SharedRepositoryOf(m, db)>> :
        m \in ms, db \in {"sql", "mongo", "arango"}}

PluginFacts(pl) == {Import(Lib(pl)), Use(Lib(pl), "New", <<>>)}

\* The edits of module.go of m, at the cleaned path, for the handlers hs.
ModuleUpdates(m, hs) ==
    {<<"on", ModuleGo(Clean[m]), MountFacts(h, Clean[m])>> : h \in hs \ Plugin}
    \cup {<<"on", ModuleGo(Clean[m]), {Import(Package(h, Clean[m]))}>> : h \in hs}
    \cup {<<"add", ModuleGo(Clean[m]), PluginFacts(pl) \cup MountFacts(pl, Clean[m])>> :
              pl \in hs \cap Plugin}

\* A mutant: the module handled by the command is not told from the others.
getNeedFileUpdatesOfAll(c, ms, hs, new) ==
    {<<"on", Env, EnvUse(h)>> : h \in c.handlers}
    \cup {<<"on", ConfigsGo, Broker(h)>> : h \in c.handlers \cap {"kafka", "rabbitmq", "redissubs"}}
    \cup When("graphql" \in c.handlers, {<<"on", ApiGo, EmbedGraphQL>>})
    \cup (UNION {ModuleUpdates(m, hs) : m \in c.modules})
    \cup When("graphql" \in hs, {<<"add", RootSchema, GraphQLField(m)>> : m \in c.modules})
    \cup {<<"add", f, PluginFacts(pl)>> : f \in {ConfigsGo, AppFactoryGo}, pl \in new}

\* c is the configuration after the command, ms the modules it is about, hs the
\* handlers mounted in them and new the plugins the service did not have.
getNeedFileUpdates(c, ms, hs, new) ==
    {<<"on", Env, EnvUse(h)>> : h \in c.handlers}
    \cup {<<"on", ConfigsGo, Broker(h)>> : h \in c.handlers \cap {"kafka", "rabbitmq", "redissubs"}}
    \cup When("graphql" \in c.handlers, {<<"on", ApiGo, EmbedGraphQL>>})
    \cup (UNION {ModuleUpdates(m, hs) : m \in ms})
    \cup When("graphql" \in hs, {<<"add", RootSchema, GraphQLField(m)>> : m \in ms})
    \cup {<<"add", f, PluginFacts(pl)>> : f \in {ConfigsGo, AppFactoryGo}, pl \in new}

-----------------------------------------------------------------------------
\* The commands.

Command(name, ms, hs) == [command |-> name, modules |-> ms, handlers |-> hs, done |-> TRUE]

More == Len(log) < MaxCommands

\* parseInput: the configuration after a command asked for the handlers hs.
Ask(hs, ms) ==
    [cfg EXCEPT !.handlers = @ \cup (hs \ Plugin), !.plugins = @ \cup (hs \cap Plugin),
                !.modules = @ \cup ms]

\* The checks on the dependencies are made by InitService only.
InitService(ms, hs, s) ==
    /\ log = <<>> /\ ms # {}
    /\ "redissubs" \in hs => "redis" \in s.deps
    /\ "postgres" \in hs => "sql" \in s.deps /\ s.driver = "postgres"
    /\ LET c == [handlers |-> hs \ Plugin, plugins |-> hs \cap Plugin, modules |-> ms,
                 deps |-> s.deps, driver |-> s.driver, gorm |-> s.gorm]
           new == ServiceFiles(c) \cup UNION {ModuleFiles(m, hs, c) : m \in ms}
       IN  /\ cfg' = c
           /\ files' = readFileAndApply(Write(<<>>, new),
                          updateSharedUsecase(ms) \cup updateSharedRepository(ms)
                              \cup getNeedFileUpdates(c, ms, hs, c.plugins))
           /\ log' = <<Command("init", ms, hs)>>

\* service.go imports the new module by its cleaned name.
AddModule(m, hs) ==
    /\ log # <<>> /\ More /\ m \notin cfg.modules
    /\ LET c == Ask(hs, {m})
           new == ModuleFiles(m, hs, c)
                  \cup When("graphql" \in c.handlers /\ RootSchema \notin DOMAIN files,
                            {<<RootSchema, {}>>})
       IN  /\ cfg' = c
           /\ files' = readFileAndApply(Write(files, new),
                          updateSharedUsecase({m}) \cup updateSharedRepository({m})
                              \cup getNeedFileUpdates(c, {m}, hs, c.plugins \ cfg.plugins)
                              \cup {<<"add", ServiceGo, ModuleImport(Clean[m])>>,
                                    <<"add", ServiceGo, ModuleInit(Clean[m])>>})
           /\ log' = Append(log, Command("module", {m}, hs))

\* scopeAddHandler: the handlers offered are those m does not have.  The folder
\* of its proto file may be there already: the command ends before it writes.
AddHandler(m, hs) ==
    /\ log # <<>> /\ More /\ m \in cfg.modules
    /\ hs \cap getAllModuleHandler(m) = {}
    /\ IF "grpc" \in hs /\ ProtoFile(m) \in DOMAIN files
         THEN /\ log' = Append(log, [Command("handler", {m}, hs) EXCEPT !.done = FALSE])
              /\ UNCHANGED <<files, cfg>>
         ELSE LET c == Ask(hs, {})
                  mod == [c EXCEPT !.handlers = hs \ Plugin]
                  mounted == hs \cup (getAllModuleHandler(m) \cap Worker)
                  new == (UNION {DeliveryFiles(h, m, mod) : h \in hs})
                         \cup When("grpc" \in hs, {<<ProtoFile(m), defaultGRPCProto(m)>>})
                         \cup When("graphql" \in hs,
                                   {<<<<<<"graphql">>, <<m>>>>, defaultGraphqlSchema(m)>>}
                                   \cup When(RootSchema \notin DOMAIN files, {<<RootSchema, {}>>}))
              IN  /\ cfg' = c
                  /\ files' = readFileAndApply(Write(files, new),
                                 getNeedFileUpdates(c, {m}, mounted, c.plugins \ cfg.plugins))
                  /\ log' = Append(log, Command("handler", {m}, hs))

\* getUpdateFileInExistingDelivery for the handler h: a function is left out when
\* the text "func (..) name" is in the file, which a longer name also matches.
Functions(p, kind) ==
    {f \in UsecaseName \cup (UNION {Func(h, m) : h \in Server, m \in Module})
                       \cup {<<"handle", m>> : m \in Module} :
        \E l \in DOMAIN files[p] : Def(kind, f) \in l.facts}

\* In query_resolver.go the functions of the template have another receiver.
Contains(h, m, u) ==
    LET kind == IF h \in Server THEN "func" ELSE h
        all == Functions(HandlerFile(h, m), kind)
    IN  \E f \in (IF h = "graphql" THEN all \ Default(m) ELSE all) : Prefix(u, f)

HandlerFunc(h, m, u) ==
    CASE h = "rest" -> getRestFuncTemplate(m, u)
      [] h = "grpc" -> getGRPCFuncTemplate(m, u)
      [] h = "graphql" -> getGraphQLFuncTemplate(m, u)
      [] h \in Worker \cup Plugin -> getWorkerFuncTemplate(h, m, u)

\* The line that mounts the function: a route, an rpc or a field of the schema.
\* The handler is registered as the server of its proto file, and its resolver
\* checked against the schema: an rpc or a field needs its function.
RouteFile(h, m) ==
    CASE h = "grpc" -> ProtoFile(m)
      [] h = "graphql" -> <<<<"graphql">>, <<m>>>>
      [] OTHER -> HandlerFile(h, m)

Route(h, m, u) ==
    CASE h = "grpc" -> {Def("rpc", u), Def("message", u), Calls(Package(h, m), "func", u)}
      [] h = "graphql" -> {<<"type", u>>, Calls(Package(h, m), "func", u)}
      [] OTHER -> {Use(Package(h, m), IF h \in Server THEN "func" ELSE h, u)}

Present(p, facts) == On(facts) \in DOMAIN files[p]

\* MQTT has no entry in mapWorkerDelivery: nothing is done for it.
DeliveryUpdates(m, u, hs) ==
    UNION {When(~Contains(h, m, u), {<<"add", HandlerFile(h, m), HandlerFunc(h, m, u)>>})
           \cup When(~Present(RouteFile(h, m), Route(h, m, u)),
                     {<<"add", RouteFile(h, m), Route(h, m, u)>>})
           \cup When(h \notin Server /\ ~Present(HandlerFile(h, m), {Import(<<"domain", m>>)}),
                     {<<"add", HandlerFile(h, m), {Import(<<"domain", m>>)}>>}) :
               h \in hs \ {"mqtt"}}

UsecaseCommand(name, m, u, hs) ==
    [command |-> name, modules |-> {m}, handlers |-> hs, usecase |-> u, done |-> TRUE]

AddUsecase(m, u, hs) ==
    /\ log # <<>> /\ More /\ m \in cfg.modules /\ hs \subseteq getAllModuleHandler(m)
    /\ UsecaseFile(m, u) \notin DOMAIN files
    /\ files' = readFileAndApply(
                   Write(files, {<<UsecaseFile(m, u), templateNewUsecase(m, u)>>}),
                   DeliveryUpdates(m, u, hs)
                   \cup {<<"add", <<<<"domain", m>>, <<"request.go">>>>, {Def("Request", u)}>>,
                         <<"add", <<<<"domain", m>>, <<"response.go">>>>, {Def("Response", u)}>>,
                         <<"add", UsecaseFile(m, <<"usecase.go">>), {Def("interface", u)}>>})
    /\ log' = Append(log, UsecaseCommand("usecase", m, u, hs))
    /\ UNCHANGED cfg

ApplyUsecase(m, u, hs) ==
    /\ log # <<>> /\ More /\ m \in cfg.modules /\ hs \subseteq getAllModuleHandler(m)
    /\ UsecaseFile(m, u) \in DOMAIN files /\ hs # {}
    /\ files' = readFileAndApply(files, DeliveryUpdates(m, u, hs))
    /\ log' = Append(log, UsecaseCommand("apply", m, u, hs))
    /\ UNCHANGED cfg

GeneratorNext ==
    \/ \E ms \in SUBSET Module, hs \in Menu, s \in Stack : InitService(ms, hs, s)
    \/ \E m \in Module, hs \in Menu : AddModule(m, hs) \/ AddHandler(m, hs)
    \/ \E m \in Module, u \in UsecaseName, hs \in Menu : AddUsecase(m, u, hs)
    \/ \E m \in Module, hs \in Menu :
          \E u \in UsecaseName \cup Default(m) : ApplyUsecase(m, u, hs)

GeneratorSpec == GeneratorInit /\ [][GeneratorNext]_generatorVars

-----------------------------------------------------------------------------
(***************************************************************************)
(* What the Go compiler (and protoc) demands of the files.                 *)
(***************************************************************************)
Facts(p) == UNION {l.facts : l \in {k \in DOMAIN files[p] : k.on}}

FilesOf(q) == {p \in DOMAIN files : p[1] = q}

Defines(q, s) == \E p \in FilesOf(q) : <<"def", s>> \in Facts(p)

\* Every import is used and exists, every symbol used is imported and defined.
FileBuilds(p) ==
    \A f \in Facts(p) :
        /\ f[1] = "import" =>
              /\ \E g \in Facts(p) : g[1] = "use" /\ g[2] = f[2]
              /\ f[2][1] # "lib" => FilesOf(f[2]) # {}
        /\ f[1] = "use" => f[2] = p[1] \/ Import(f[2]) \in Facts(p)
        /\ f[1] \in {"use", "call"} /\ f[2][1] # "lib" => Defines(f[2], f[3])

\* Nothing is imported twice by a file or defined twice in a package.
NoDuplicates(p) ==
    \A l \in DOMAIN files[p] : l.on =>
        \A f \in l.facts :
            /\ f[1] \in {"import", "def", "field"} =>
                  files[p][l] = 1 /\ \A k \in DOMAIN files[p] : k.on /\ f \in k.facts => k = l
            /\ f[1] = "def" => \A p2 \in FilesOf(p[1]) : f \in Facts(p2) => p2 = p

Builds == \A p \in DOMAIN files : FileBuilds(p) /\ NoDuplicates(p)


(***************************************************************************)
(* What was asked for, from the commands alone.                            *)
(***************************************************************************)
Extends(i) == log[i].done /\ log[i].command \in {"init", "module", "handler"}

Birth(m) == CHOOSE i \in DOMAIN log : m \in log[i].modules /\ log[i].command \in {"init", "module"}

\* A name with dashes only keeps what its module was created with.
Mounted(m) ==
    {h \in Server \cup Worker \cup Plugin : \E i \in DOMAIN log :
        /\ Extends(i) /\ m \in log[i].modules /\ h \in log[i].handlers
        /\ Clean[m] = m \/ (i = Birth(m) /\ h \notin Plugin)}

PluginsAt(i) == Plugin \cap UNION {log[j].handlers : j \in {k \in 1 .. i : Extends(k)}}

\* The stacks for which the templates themselves do not compile: no database,
\* Arango, SQL with Mongo, and the migration of SQLite.
StackBroken ==
    \/ ~HasDB(cfg)
    \/ "arango" \in cfg.deps
    \/ {"sql", "mongo"} \subseteq cfg.deps
    \/ "sql" \in cfg.deps /\ cfg.driver = "sqlite3"

\* A Redis subscriber was added to a service without Redis.
RedisMissing == "redissubs" \in cfg.handlers /\ "redis" \notin cfg.deps

\* A module with dashes was added to service.go by its cleaned name.
DashedImport ==
    \E i \in DOMAIN log : log[i].command = "module" /\ \E m \in log[i].modules : Clean[m] # m

\* The service had a plugin when m was created and m has no worker.
IdleWorkers ==
    \E m \in cfg.modules : PluginsAt(Birth(m)) # {} /\ Mounted(m) \subseteq Server

\* A usecase was applied to a handler that has, or has a longer name than, its
\* function.
UsecaseShadowed ==
    \E i \in DOMAIN log : log[i].command \in {"usecase", "apply"} /\
        \E m \in log[i].modules : \E h \in log[i].handlers \ {"mqtt"} :
            LET u == log[i].usecase
                before == {log[j].usecase : j \in
                              {k \in 1 .. i - 1 : log[k].command \in {"usecase", "apply"}
                                                  /\ m \in log[k].modules /\ h \in log[k].handlers}}
                template == CASE h = "graphql" -> {}
                              [] h \in {"rest", "grpc"} -> Func(h, m)
                              [] OTHER -> {<<"handle", m>>}
            IN  \/ u \in Default(m) /\ h # "rest"
                \/ u \notin before /\ \E f \in template \cup before : u # f /\ Prefix(u, f)

\* The cleaned name of a module is not the name of another one, and no module is
\* called like the file of the root schema.  The commands do not check it.
DistinctNames ==
    /\ \A m \in Module : Clean[m] \in Module => Clean[m] = m
    /\ "_schema.graphql" \notin Module

-----------------------------------------------------------------------------
\* After any sequence of commands the project compiles, except in exactly these
\* cases: no other combination of templates and text edits leaves an import
\* without a use, a symbol without a definition or a definition twice.
BuildsExactly ==
    log # <<>> =>
        (Builds <=> ~(\/ StackBroken \/ RedisMissing \/ DashedImport
                      \/ IdleWorkers \/ UsecaseShadowed))

\* A handler asked for by a command that was carried out is in the module's
\* directory, mounted by module.go and enabled in .env with its settings, and a
\* GraphQL module has its field in the root schema once; nothing else is mounted.
\* The exceptions: module.go of a name with dashes is not found after its
\* creation, and the settings of RabbitMQ stay commented out when it comes later.
AskedIsServed ==
    \A m \in cfg.modules : \A h \in Server \cup Worker \cup Plugin :
        LET mounts == \E l \in DOMAIN files[ModuleGo(m)] : l.on /\ MountFacts(h, m) \subseteq l.facts
        IN  /\ mounts <=> h \in Mounted(m)
            /\ mounts => HandlerFile(h, m) \in DOMAIN files
            /\ mounts /\ h \notin Plugin => Present(Env, EnvUse(h))
            /\ mounts /\ h \in Worker /\ (h = "rabbitmq" => h \in log[1].handlers)
                  => Present(Env, EnvSettings(h))
            /\ h = "graphql" /\ h \in getAllModuleHandler(m)
                  => Present(RootSchema, GraphQLField(m)) /\ files[RootSchema][On(GraphQLField(m))] = 1

=============================================================================
