----------------------------- MODULE Templates -----------------------------
(***************************************************************************)
(* The files the code generator (cmd/candi) writes, reduced to what decides *)
(* whether the generated project compiles.                                 *)
(*                                                                         *)
(* A package is a tuple: <<"configs">>, <<"usecase", m>> of the module m,  *)
(* Lib(n) for a library.  A symbol is a kind and a name, a name being a    *)
(* sequence of words.  A line of a file is a set of facts (what it imports, *)
(* uses or defines), switched off when it is commented out.  An            *)
(* unconditional import of a library that the same template always uses is *)
(* left out: nothing can separate the two.                                 *)
(*                                                                         *)
(* c is the configuration a template is executed with: the fields handlers, *)
(* plugins, deps, driver and gorm.                                         *)
(***************************************************************************)
EXTENDS Naturals, Sequences, FiniteSets

Server == {"rest", "grpc", "graphql"}

Worker == {"kafka", "cron", "redissubs", "taskqueue", "postgres", "rabbitmq"}

Plugin == {"gcp", "stomp", "mqtt"}

\* Packages of the generated project.
Lib(n) == <<"lib", n>>

Api == <<"api">>

Configs == <<"configs">>

Shared == <<"shared">>

SharedDomain == <<"shareddomain">>

SharedRepository == <<"sharedrepository">>

SharedUsecase == <<"sharedusecase">>

Package(h, m) == IF h \in Server THEN <<h, m>> ELSE <<"worker", m>>

\* Facts and lines.
Import(p) == <<"import", p>>

Use(p, kind, name) == <<"use", p, <<kind, name>>>>

\* A method called through a value: the file needs no import.
Calls(p, kind, name) == <<"call", p, <<kind, name>>>>

Def(kind, name) == <<"def", <<kind, name>>>>

If(b, facts) == [on |-> b, facts |-> facts]

On(facts) == If(TRUE, facts)

When(b, lines) == IF b THEN lines ELSE {}

-----------------------------------------------------------------------------
\* The conditions the templates share.
ObjectID(c) == "mongo" \in c.deps /\ "sql" \notin c.deps

HasDB(c) == c.deps \cap {"sql", "mongo", "arango"} # {}

Repo(c) ==
    IF "sql" \in c.deps THEN "sql" ELSE IF "mongo" \in c.deps THEN "mongo" ELSE "arango"

\* config.checkWorkerActive: the plugins are those of the whole service.
IsWorkerActive(c) == c.handlers \cap Worker # {} \/ c.plugins # {}

Verb == {"getAll", "getDetail", "create", "update", "delete"}

Default(m) == {<<v, m>> : v \in Verb}

-----------------------------------------------------------------------------
\* configs/, internal/service.go, api/api.go, .env

Broker(h) ==
    {Use(Lib("broker"), "New", <<h>>)}
        \cup (IF h = "redissubs" THEN {Use(Configs, "deps", <<"redis">>)} ELSE {})

configsTemplate(c) ==
    {On({Def("LoadServiceConfigs", <<>>), Import(Api), Use(Api, "JSONSchema", <<>>),
         Import(Shared), Use(Shared, "SetEnv", <<>>),
         Use(Shared, "DefaultMiddleware", <<>>), Import(SharedRepository),
         Use(SharedRepository, "SetSharedRepository", <<>>), Import(SharedUsecase),
         Use(SharedUsecase, "SetSharedUsecase", <<>>), Import(Lib("broker")),
         Use(Lib("broker"), "InitBrokers", <<>>)}),
     If(c.deps \cap {"redis", "sql", "mongo"} # {}, {Import(Lib("database"))})}
    \cup {If(d \in c.deps, {Def("deps", <<d>>), Use(Lib("database"), "Init", <<d>>)}) :
              d \in {"redis", "sql", "mongo"}}
    \cup {If(d \in c.deps, {Use(Configs, "deps", <<d>>)}) : d \in {"redis", "sql", "mongo"}}
    \cup {If(h \in c.handlers, Broker(h)) : h \in {"kafka", "rabbitmq", "redissubs"}}
    \cup When("arango" \in c.deps,
              {On({Import(Lib("arango")), Use(Lib("arango"), "Init", <<>>),
                   Use(Shared, "DbArangoReadHost", <<>>)})})

appFactoryTemplate(c) ==
    {On({Import(Api), Use(Api, "GraphQLSchema", <<>>)})}
    \cup When("mongo" \notin c.deps,
              {On({Import(Lib("taskqueueworker")), Use(Lib("taskqueueworker"), "New", <<>>)})})
    \cup When(c.deps \cap {"sql", "mongo"} = {},
              {On({Import(Lib("sql")), Use(Lib("sql"), "Open", <<>>)})})

additionalEnvTemplate(c) ==
    {On({Def("SetEnv", <<>>)})}
    \cup When("arango" \in c.deps, {On({Def("DbArangoReadHost", <<>>)})})

templateSharedMiddlewareImpl == {On({Def("DefaultMiddleware", <<>>)})}

templateGORMTracer == {On({Def("AddGormCallbacks", <<>>), Def("SetSpanToGorm", <<>>)})}

\* The lines a module has in service.go: its import and its constructor.
ModuleImport(path) == {Import(<<"module", path>>)}

ModuleInit(path) == {Use(<<"module", path>>, "NewModule", <<>>)}

serviceMainTemplate(modules) ==
    {On({Import(Configs), Use(Configs, "LoadServiceConfigs", <<>>), Def("NewService", <<>>)})}
    \cup UNION {{On(ModuleImport(m)), On(ModuleInit(m))} : m \in modules}

\* api.go is executed without data: the embed of the schemas is always off.
EmbedGraphQL == {<<"embed", "graphql">>}

apiEmbedTemplate ==
    {On({Def("JSONSchema", <<>>), Def("GraphQLSchema", <<>>)}), If(FALSE, EmbedGraphQL)}

\* .env: USE_<handler>, and the settings only RabbitMQ has commented out.
EnvUse(h) == {<<"USE", h>>}

EnvSettings(h) == {<<"settings", h>>}

envTemplate(c) ==
    {If(h \in c.handlers, EnvUse(h)) : h \in Server \cup Worker}
    \cup {If(h = "rabbitmq" => h \in c.handlers, EnvSettings(h)) : h \in Worker}

templateCmdMigration(c) ==
    {On({Import(<<"migrations">>), Use(<<"migrations">>, "GetMigrateTables", <<>>)})}
    \cup When(c.driver = "sqlite3", {On({Use(<<"migration">>, "sqlDeps", <<>>)})})

templateCmdMigrationInitTable == {On({Def("GetMigrateTables", <<>>)})}

cmdMainTemplate == {On({Import(<<"service">>), Use(<<"service">>, "NewService", <<>>)})}

-----------------------------------------------------------------------------
\* A module: module.go, domain, repository, usecase.

\* The line of module.go that mounts the handler h.
MountFacts(h, m) ==
    {Use(Package(h, m), "New", <<h>>), Use(SharedUsecase, "GetSharedUsecase", <<>>)}

moduleMainTemplate(m, c) ==
    {On({Import(SharedUsecase), Def("NewModule", <<>>)}),
     If(IsWorkerActive(c), {Import(<<"worker", m>>)})}
    \cup {If(h \in c.handlers, {Import(<<h, m>>)}) : h \in Server}
    \cup {If(h \in c.handlers, MountFacts(h, m)) : h \in Server \cup Worker}

templateSharedDomain(m, c) ==
    {On({Def("model", <<m>>)})}
    \cup When(ObjectID(c), {On({Def("ID.Hex", <<m>>)})})
    \cup When(c.deps \cap {"mongo", "arango"} # {}, {On({Def("CollectionName", <<m>>)})})

templateModuleDomain(m) == {On({Def("Filter", <<m>>)})}

templateModuleRequestDomain(m) ==
    {On({Import(SharedDomain), Use(SharedDomain, "model", <<m>>), Def("Request", <<m>>)})}

templateModuleResponseDomain(m, c) ==
    {On({Import(SharedDomain), Use(SharedDomain, "model", <<m>>),
         Def("Response", <<m>>), Def("ResponseList", <<m>>)})}
    \cup When(ObjectID(c), {On({Use(SharedDomain, "ID.Hex", <<m>>)})})

templateRepositoryAbstraction(m) ==
    {On({Import(<<"domain", m>>), Use(<<"domain", m>>, "Filter", <<m>>), Import(SharedDomain),
         Use(SharedDomain, "model", <<m>>), Def("Repository", <<m>>)})}

\* The facts the implementations of the repository of m have in common.
RepositoryImpl(m, db) ==
    {Import(<<"domain", m>>), Use(<<"domain", m>>, "Filter", <<m>>), Import(SharedDomain),
     Use(SharedDomain, "model", <<m>>), Use(<<"repository", m>>, "Repository", <<m>>),
     Def("New", <<db>>)}

templateRepositorySQLImpl(m, c) ==
    {On(RepositoryImpl(m, "sql"))}
    \cup When(c.gorm, {On({Import(Shared), Use(Shared, "SetSpanToGorm", <<>>)})})

templateRepositoryMongoImpl(m, c) ==
    {On(RepositoryImpl(m, "mongo") \cup
            {Use(SharedDomain, "CollectionName", <<m>>), Use(SharedDomain, "ID.Hex", <<m>>)})}
    \cup When("sql" \notin c.deps,
              {On({Import(Lib("primitive")), Use(Lib("primitive"), "ObjectID", <<>>)})})

\* Uses candishared, which it does not import.
templateRepositoryArangoImpl(m) ==
    {On(RepositoryImpl(m, "arango") \cup
            {Use(SharedDomain, "CollectionName", <<m>>),
             Use(Lib("candishared"), "DBUpdateOptionFunc", <<>>)})}

templateUsecaseAbstraction(m, c) ==
    {On({Import(<<"domain", m>>), Use(<<"domain", m>>, "Filter", <<m>>),
         Use(<<"domain", m>>, "Request", <<m>>), Use(<<"domain", m>>, "Response", <<m>>),
         Def("Usecase", <<m>>), Def("New", <<m>>)}
         \cup UNION {{Def("interface", u), Use(<<"usecase", m>>, "method", u)} : u \in Default(m)}),
     If(HasDB(c), {Import(SharedRepository)})}
    \cup {If(d \in c.deps, {Use(SharedRepository, "Repo", <<d>>)}) : d \in {"sql", "mongo"}}
    \cup When("arango" \in c.deps, {On({Use(SharedRepository, "Repo", <<"arango">>)})})

\* The value a usecase works on comes from the repository: without a database
\* nothing defines it.
FromRepo(v, m, c) ==
    {On({Use(<<"usecase", m>>, "value", <<v, m>>)})}
    \cup When(HasDB(c),
              {On({Def("value", <<v, m>>), Calls(SharedRepository, "method", <<Repo(c), m>>)})})

UsecaseBody(v, m) ==
    {Import(<<"domain", m>>), Use(<<"domain", m>>, "Response", <<m>>), Def("method", <<v, m>>)}

templateUsecaseGetAll(m, c) ==
    {On(UsecaseBody("getAll", m) \cup {Import(Lib("candishared"))})}
    \cup FromRepo("getAll", m, c)
    \cup When(HasDB(c), {On({Use(Lib("candishared"), "NewMeta", <<>>)})})

templateUsecaseGetDetail(m, c) ==
    {On(UsecaseBody("getDetail", m))} \cup FromRepo("getDetail", m, c)

templateUsecaseCreate(m, c) ==
    {On(UsecaseBody("create", m))} \cup FromRepo("create", m, c)

templateUsecaseUpdate(m, c) ==
    {On({Import(<<"domain", m>>), Use(<<"domain", m>>, "Request", <<m>>),
         Def("method", <<"update", m>>), Import(Lib("candishared"))})}
    \cup When(HasDB(c),
              {On({Use(Lib("candishared"), "DBUpdateSetUpdatedFields", <<>>),
                   Calls(SharedRepository, "method", <<Repo(c), m>>)})})

templateUsecaseDelete(m, c) ==
    {On({Use(<<"domain", m>>, "Filter", <<m>>), Def("method", <<"delete", m>>)})}
    \cup When(HasDB(c),
              {On({Import(<<"domain", m>>), Calls(SharedRepository, "method", <<Repo(c), m>>)})})

templateNewUsecase(m, u) ==
    {On({Import(<<"domain", m>>), Use(<<"domain", m>>, "Request", u),
         Use(<<"domain", m>>, "Response", u), Def("method", u)})}

-----------------------------------------------------------------------------
\* The units of work in pkg/shared, and what a module adds to them at their
\* "@candi:" marks.

templateUsecaseUOW ==
    {On({Def("SetSharedUsecase", <<>>), Def("GetSharedUsecase", <<>>), Def("Usecase", <<>>),
         Import(<<"common">>),
         Use(<<"common">>, "SetCommonUsecase", <<>>)})}

templateUsecaseCommon == {On({Def("SetCommonUsecase", <<>>)})}

SharedUsecaseOf(m) ==
    {Import(<<"usecase", m>>), Use(<<"usecase", m>>, "Usecase", <<m>>),
     Use(<<"usecase", m>>, "New", <<m>>), Def("get", <<m>>)}

templateRepository(c) ==
    {On({Def("SetSharedRepository", <<>>)})}
    \cup {If(d \in c.deps, {Use(SharedRepository, "setShared", <<d>>)}) :
              d \in {"sql", "mongo", "arango"}}

templateRepositoryUOWSQL(c) ==
    {On({Def("setShared", <<"sql">>), Def("Repo", <<"sql">>)})}
    \cup When(c.gorm, {On({Import(Shared), Use(Shared, "AddGormCallbacks", <<>>)})})

templateRepositoryUOWMongo == {On({Def("setShared", <<"mongo">>), Def("Repo", <<"mongo">>)})}

\* Uses context, fmt and tracer, and imports none of them.
templateRepositoryUOWArango ==
    {On({Def("setShared", <<"arango">>), Def("Repo", <<"arango">>),
         Use(Lib("context"), "Context", <<>>)})}

SharedRepositoryOf(m, db) ==
    {Import(<<"repository", m>>), Use(<<"repository", m>>, "Repository", <<m>>),
     Use(<<"repository", m>>, "New", <<db>>), Def("method", <<db, m>>)}

-----------------------------------------------------------------------------
\* Deliveries.

\* h.uc.M().<usecase>(...)
CallUsecase(m, u) ==
    {Calls(SharedUsecase, "get", <<m>>), Calls(<<"usecase", m>>, "interface", u)}

\* The functions of the handlers: REST spells getDetail...ByID.
Func(h, m) ==
    IF h = "rest" THEN (Default(m) \ {<<"getDetail", m>>}) \cup {<<"getDetail", m, "ByID">>}
                  ELSE Default(m)

ServerHandler(h) ==
    {Import(SharedUsecase), Use(SharedUsecase, "Usecase", <<>>), Def("New", <<h>>)}

deliveryRestTemplate(m, c) ==
    {On(ServerHandler("rest") \cup {Import(<<"domain", m>>), Use(<<"domain", m>>, "Filter", <<m>>)}
         \cup {Def("func", f) : f \in Func("rest", m)}
         \cup UNION {CallUsecase(m, u) : u \in Default(m)})}
    \cup When(~ObjectID(c), {On({Import(Lib("strconv")), Use(Lib("strconv"), "Atoi", <<>>)})})

deliveryGRPCTemplate(m) ==
    {On(ServerHandler("grpc") \cup {Import(<<"domain", m>>), Use(<<"domain", m>>, "Filter", <<m>>),
                                       Import(<<"proto", m>>)}
         \cup {Def("func", f) : f \in Func("grpc", m)}
         \cup {Use(<<"proto", m>>, "model", <<m>>)}
         \cup UNION {CallUsecase(m, u) : u \in Default(m)})}

\* The code protoc makes of the file: one method per rpc, one type per message.
defaultGRPCProto(m) ==
    {On({Def("rpc", u) : u \in Default(m)} \cup {Def("model", <<m>>)})}

deliveryGraphqlRootTemplate == {On(ServerHandler("graphql"))}

deliveryGraphqlQueryTemplate(m) ==
    {On({Import(<<"domain", m>>), Use(<<"domain", m>>, "Filter", <<m>>)}
         \cup UNION {{Def("func", <<v, m>>)} \cup CallUsecase(m, <<v, m>>) :
                         v \in {"getAll", "getDetail"}})}

deliveryGraphqlMutationTemplate(m) ==
    {On({Import(<<"domain", m>>), Use(<<"domain", m>>, "Request", <<m>>)}
         \cup UNION {{Def("func", <<v, m>>)} \cup CallUsecase(m, <<v, m>>) :
                         v \in {"create", "update", "delete"}})}

deliveryGraphqlSubscriptionTemplate(m, c) ==
    {On({Import(<<"domain", m>>), Use(<<"domain", m>>, "Response", <<m>>)})}
    \cup When(ObjectID(c), {On({Import(Lib("uuid")), Use(Lib("uuid"), "New", <<>>)})})

\* The worker handlers: no usecase is called yet.
WorkerHandler(h, m) ==
    {On({Import(SharedUsecase), Use(SharedUsecase, "Usecase", <<>>), Def("New", <<h>>),
         Def(h, <<"handle", m>>)})}

deliveryKafkaTemplate(m) == WorkerHandler("kafka", m)

deliveryCronTemplate(m) == WorkerHandler("cron", m)

deliveryRedisTemplate(m) == WorkerHandler("redissubs", m)

deliveryTaskQueueTemplate(m) == WorkerHandler("taskqueue", m)

deliveryPostgresListenerTemplate(m) == WorkerHandler("postgres", m)

deliveryRabbitMQTemplate(m) == WorkerHandler("rabbitmq", m)

deliveryWorkerPluginTemplate(pl, m) == WorkerHandler(pl, m)

\* The functions AddUsecase and ApplyUsecase append to a handler.
FuncTemplate(kind, m, u) ==
    {Def(kind, u), Use(<<"domain", m>>, "Request", u)} \cup CallUsecase(m, u)

getRestFuncTemplate(m, u) == FuncTemplate("func", m, u)

getGRPCFuncTemplate(m, u) ==
    FuncTemplate("func", m, u) \cup {Use(<<"proto", m>>, "message", u)}

getGraphQLFuncTemplate(m, u) == FuncTemplate("func", m, u)

getWorkerFuncTemplate(h, m, u) == FuncTemplate(h, m, u)

\* api/graphql: the resolvers of a module, and the root with a field per module.
defaultGraphqlSchema(m) == {On({<<"type", m>>})}

GraphQLField(m) == {<<"field", m>>}

=============================================================================
