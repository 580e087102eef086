----------------------------- MODULE Migrations -----------------------------
(***************************************************************************)
(* The chain of alembic revisions under src/migrations/versions: what the  *)
(* upgrade() and, independently, the downgrade() of each one executes, in  *)
(* the order of the code.  0001 is empty both ways.                        *)
(*                                                                         *)
(* Abstracted away: the types of columns (but for enums), the texts of     *)
(* check constraints and of partial indexes, and ON DELETE actions.        *)
(***************************************************************************)
EXTENDS Schema, Sequences, Integers
LOCAL Seqs == INSTANCE SequencesExt

Revisions == 1..14

-----------------------------------------------------------------------------
\* 0002: the catalog.  Foreign keys are anonymous here: PostgreSQL names them.
CreateUsers == <<
  Create(Enum("userrole", {"USER", "MOD", "ADMIN"})),
  Create(Table("users") \union Required("users", {"tg_id", "first_name"})
         \union Defaulted("users", {"is_private", "last_name", "is_premium", "photo_url", "username"})
         \union Typed("users", "role", "userrole")),
  Create(Unique("users", "ux_users_tg_id", {"tg_id"})
         \union Unique("users", "ux_users_username_not_null", {"username"})
         \union Index("users", "ix_users_role", {"role"})),
  Create(Table("refresh_sessions")
         \union Required("refresh_sessions", {"user_id", "jti", "token_hash", "expires_at"})
         \union Defaulted("refresh_sessions", {"ip_address", "user_agent", "revoked_at",
                                               "last_used_at", "replaced_by_session_id"})
         \union ForeignKey("refresh_sessions", "refresh_sessions_user_id_fkey", "users")
         \union ForeignKey("refresh_sessions", "refresh_sessions_replaced_by_session_id_fkey",
                           "refresh_sessions")),
  Create(Index("refresh_sessions", "ix_refresh_sessions_user_id", {"user_id"})
         \union Unique("refresh_sessions", "ux_refresh_sessions_jti", {"jti"})
         \union Unique("refresh_sessions", "ux_refresh_sessions_token_hash", {"token_hash"})
         \union Index("refresh_sessions", "ix_refresh_sessions_expires_at", {"expires_at"})
         \union Index("refresh_sessions", "ix_refresh_sessions_active", {"id"})) >>

CreateCatalog == <<
  Create(Table("categories") \union Required("categories", {"title", "color"})
         \union Defaulted("categories", {"description"})
         \union Check("categories", {"ck_categories_color"})),
  Create(Unique("categories", "ux_categories_title", {"title"})),
  Create(Table("types") \union Required("types", {"title"})
         \union Defaulted("types", {"description", "photo_url"})),
  Create(Unique("types", "ux_types_title", {"title"})),
  Create(Table("prototypes") \union Required("prototypes", {"title", "type_id"})
         \union Defaulted("prototypes", {"description", "photo_url"})
         \union ForeignKey("prototypes", "prototypes_type_id_fkey", "types")),
  Create(Index("prototypes", "ix_prototypes_type_id", {"type_id"})),
  Create(Table("items")
         \union Required("items", {"title", "number", "prototype_id", "category_id", "type_id"})
         \union Defaulted("items", {"validation_count", "is_active"})
         \union Check("items", {"ck_items_number_positive",
                                "ck_items_validation_count_non_negative"})
         \union ForeignKey("items", "items_category_id_fkey", "categories")
         \union ForeignKey("items", "items_prototype_id_fkey", "prototypes")
         \union ForeignKey("items", "items_type_id_fkey", "types")),
  Create(Unique("items", "ux_items_number", {"number"})
         \union Index("items", "ix_items_category_id", {"category_id"})
         \union Index("items", "ix_items_category_type", {"category_id", "type_id"})
         \union Index("items", "ix_items_is_active", {"is_active"})
         \union Index("items", "ix_items_prototype_id", {"prototype_id"})
         \union Index("items", "ix_items_type_id", {"type_id"})),
  Create(Table("item_images") \union Required("item_images", {"item_id", "url"})
         \union Defaulted("item_images", {"is_main", "position"})
         \union ForeignKey("item_images", "item_images_item_id_fkey", "items")),
  Create(Index("item_images", "ix_item_images_item_id", {"item_id"})
         \union Unique("item_images", "ux_item_images_one_main_per_item", {"item_id"})) >>

CreateScans == <<
  Create(Table("item_secrets") \union Required("item_secrets", {"item_id", "secret_hash", "title"})
         \union Defaulted("item_secrets", {"coords", "is_active", "expires_at"})
         \union ForeignKey("item_secrets", "item_secrets_item_id_fkey", "items")),
  Create(Unique("item_secrets", "ux_item_secrets_secret_hash", {"secret_hash"})
         \union Index("item_secrets", "ix_item_secrets_item_id", {"item_id"})
         \union Index("item_secrets", "ix_item_secrets_active", {"is_active"})),
  Create(Table("validations")
         \union Required("validations", {"user_id", "item_id", "item_secret_id", "rank"})
         \union Check("validations", {"ck_validations_rank_positive"})
         \union ForeignKey("validations", "validations_user_id_fkey", "users")
         \union ForeignKey("validations", "validations_item_id_fkey", "items")
         \union ForeignKey("validations", "validations_item_secret_id_fkey", "item_secrets")),
  Create(Unique("validations", "ux_validations_user_item", {"user_id", "item_id"})
         \union Unique("validations", "ux_validations_item_rank", {"item_id", "rank"})
         \union Index("validations", "ix_validations_user_id", {"user_id"})
         \union Index("validations", "ix_validations_item_id", {"item_id"})
         \union Index("validations", "ix_validations_item_secret_id", {"item_secret_id"})
         \union Index("validations", "ix_validations_item_created_at",
                      {"item_id", "created_at", "id"})) >>

DropCatalog == <<
  DropNamed("validations", "index",
            {"ix_validations_item_created_at", "ix_validations_item_secret_id",
             "ix_validations_item_id", "ix_validations_user_id"}),
  DropNamed("validations", "unique", {"ux_validations_item_rank", "ux_validations_user_item"}),
  DropTable("validations"),
  DropNamed("item_secrets", "index", {"ix_item_secrets_active", "ix_item_secrets_item_id"}),
  DropNamed("item_secrets", "unique", {"ux_item_secrets_secret_hash"}),
  DropTable("item_secrets"),
  DropNamed("item_images", "unique", {"ux_item_images_one_main_per_item"}),
  DropNamed("item_images", "index", {"ix_item_images_item_id"}),
  DropTable("item_images"),
  DropNamed("items", "index", {"ix_items_type_id", "ix_items_prototype_id", "ix_items_is_active",
                               "ix_items_category_type", "ix_items_category_id"}),
  DropNamed("items", "unique", {"ux_items_number"}),
  DropTable("items"),
  DropNamed("prototypes", "index", {"ix_prototypes_type_id"}),
  DropTable("prototypes"),
  DropNamed("types", "unique", {"ux_types_title"}),
  DropTable("types"),
  DropNamed("categories", "unique", {"ux_categories_title"}),
  DropTable("categories"),
  DropNamed("refresh_sessions", "index",
            {"ix_refresh_sessions_active", "ix_refresh_sessions_expires_at",
             "ix_refresh_sessions_user_id"}),
  DropNamed("refresh_sessions", "unique",
            {"ux_refresh_sessions_token_hash", "ux_refresh_sessions_jti"}),
  DropTable("refresh_sessions"),
  DropNamed("users", "index", {"ix_users_role"}),
  DropNamed("users", "unique", {"ux_users_username_not_null", "ux_users_tg_id"}),
  DropTable("users"),
  DropType("userrole") >>

-----------------------------------------------------------------------------
\* 0003: the anonymous foreign keys get names.  One record per key: its table,
\* the default name, the given name, the table it refers to.
Key(table, default, given, referent) ==
  [table |-> table, default |-> default, given |-> given, referent |-> referent]

RenamedKeys == <<
  Key("refresh_sessions", "refresh_sessions_user_id_fkey", "fk_refresh_sessions_user_id_users", "users"),
  Key("refresh_sessions", "refresh_sessions_replaced_by_session_id_fkey",
      "fk_refresh_sessions_replaced_by_session_id_refresh_sessions", "refresh_sessions"),
  Key("prototypes", "prototypes_type_id_fkey", "fk_prototypes_type_id_types", "types"),
  Key("items", "items_category_id_fkey", "fk_items_category_id_categories", "categories"),
  Key("items", "items_prototype_id_fkey", "fk_items_prototype_id_prototypes", "prototypes"),
  Key("items", "items_type_id_fkey", "fk_items_type_id_types", "types"),
  Key("item_images", "item_images_item_id_fkey", "fk_item_images_item_id_items", "items"),
  Key("item_secrets", "item_secrets_item_id_fkey", "fk_item_secrets_item_id_items", "items"),
  Key("validations", "validations_user_id_fkey", "fk_validations_user_id_users", "users"),
  Key("validations", "validations_item_id_fkey", "fk_validations_item_id_items", "items"),
  Key("validations", "validations_item_secret_id_fkey",
      "fk_validations_item_secret_id_item_secrets", "item_secrets") >>

\* drop_constraint, then create_foreign_key
recreate_foreign_key(k, old, new) ==
  << DropForeignKey(k.table, old), Create(ForeignKey(k.table, new, k.referent)) >>

NameKeys ==
  Seqs!FlattenSeq([i \in DOMAIN RenamedKeys |->
    LET k == RenamedKeys[i] IN recreate_foreign_key(k, k.default, k.given)])

UnnameKeys ==
  Seqs!FlattenSeq([i \in DOMAIN RenamedKeys |->
    LET k == RenamedKeys[i] IN recreate_foreign_key(k, k.given, k.default)])

-----------------------------------------------------------------------------
\* 0004: the models of the UI.
AddProgress == <<
  Create(Enum("rarity", {"common", "rare", "epic", "legendary", "mythic"})
         \union Enum("ui_color_token", {"cyan", "violetHi", "gold", "pink"})),
  Create(Defaulted("users", {"display_name", "public_id", "rank", "level", "level_progress",
                             "xp", "next_level_xp", "streak_days", "season_label"})),
  Create(Check("users", {"ck_users_rank_positive_or_null", "ck_users_level_positive",
                         "ck_users_level_progress_range", "ck_users_xp_non_negative",
                         "ck_users_next_level_xp_non_negative",
                         "ck_users_streak_days_non_negative"})),
  Create(Index("users", "ix_users_rank", {"rank"})
         \union Unique("users", "ux_users_public_id_not_null", {"public_id"})) >>

CreateQuestsAndEvents == <<
  Create(SlugTable("quests") \union Required("quests", {"name", "step_label"})
         \union Defaulted("quests", {"progress_percent", "reward_xp", "season_id", "is_active"})
         \union Typed("quests", "rarity", "rarity") \union Mandatory("quests", "rarity")
         \union Check("quests", {"ck_quests_progress_percent_range",
                                 "ck_quests_reward_xp_non_negative"})),
  Create(Index("quests", "ix_quests_active", {"is_active"})
         \union Index("quests", "ix_quests_rarity", {"rarity"})
         \union Index("quests", "ix_quests_season_id", {"season_id"})),
  Create(SlugTable("events") \union Required("events", {"title", "starts_at", "ends_at"})
         \union Defaulted("events", {"xp_multiplier", "is_active"})
         \union Typed("events", "rarity", "rarity") \union Mandatory("events", "rarity")
         \union Check("events", {"ck_events_xp_multiplier_positive", "ck_events_period_valid"})),
  Create(Index("events", "ix_events_active", {"is_active"})
         \union Index("events", "ix_events_active_ends_at", {"is_active", "ends_at"})
         \union Index("events", "ix_events_rarity", {"rarity"})),
  Create(SlugTable("achievements") \union Required("achievements", {"icon", "name"})
         \union Defaulted("achievements", {"description", "reward_xp"})
         \union Typed("achievements", "rarity", "rarity") \union Mandatory("achievements", "rarity")
         \union Check("achievements", {"ck_achievements_reward_xp_non_negative"})),
  Create(Index("achievements", "ix_achievements_rarity", {"rarity"})) >>

\* 0004 upgrade and, repeated there, 0005 downgrade.
CreateMapPoints == <<
  Create(SlugTable("map_points")
         \union Required("map_points", {"name", "category", "latitude", "longitude"})
         \union Defaulted("map_points", {"reward_xp", "description", "quest_id", "is_big",
                                         "has_hint", "is_active"})
         \union Typed("map_points", "rarity", "rarity") \union Mandatory("map_points", "rarity")
         \union Check("map_points", {"ck_map_points_latitude_range", "ck_map_points_longitude_range",
                                     "ck_map_points_reward_xp_non_negative"})
         \union ForeignKey("map_points", "fk_map_points_quest_id_quests", "quests")),
  Create(Index("map_points", "ix_map_points_active", {"is_active"})
         \union Index("map_points", "ix_map_points_rarity", {"rarity"})
         \union Index("map_points", "ix_map_points_lat_lon", {"latitude", "longitude"})
         \union Index("map_points", "ix_map_points_quest_id", {"quest_id"})) >>

CreateXpAndAchievements == <<
  Create(Table("xp_events") \union Required("xp_events", {"user_id", "source", "xp", "occurred_at"})
         \union Defaulted("xp_events", {"tag", "multiplier"})
         \union Typed("xp_events", "color", "ui_color_token")
         \union Check("xp_events", {"ck_xp_events_multiplier_positive_or_null"})
         \union ForeignKey("xp_events", "fk_xp_events_user_id_users", "users")),
  Create(Index("xp_events", "ix_xp_events_user_occurred", {"user_id", "occurred_at"})),
  Create(Table("user_achievements") \union Required("user_achievements", {"user_id", "achievement_id"})
         \union Defaulted("user_achievements", {"unlocked", "progress_percent", "unlocked_at"})
         \union Check("user_achievements", {"ck_user_achievements_progress_percent_range"})
         \union ForeignKey("user_achievements", "fk_user_achievements_user_id_users", "users")
         \union ForeignKey("user_achievements", "fk_user_achievements_achievement_id_achievements",
                           "achievements")),
  Create(Unique("user_achievements", "ux_user_achievements_user_achievement",
                {"user_id", "achievement_id"})
         \union Index("user_achievements", "ix_user_achievements_user_id", {"user_id"})
         \union Index("user_achievements", "ix_user_achievements_achievement_id", {"achievement_id"})
         \union Index("user_achievements", "ix_user_achievements_unlocked", {"unlocked"})) >>

\* 0005 upgrade and 0004 downgrade
DropMapPoints == <<
  DropNamed("map_points", "index", {"ix_map_points_quest_id", "ix_map_points_lat_lon",
                                    "ix_map_points_rarity", "ix_map_points_active"}),
  DropTable("map_points") >>

DropUiModels == <<
  DropNamed("user_achievements", "index",
            {"ix_user_achievements_unlocked", "ix_user_achievements_achievement_id",
             "ix_user_achievements_user_id"}),
  DropNamed("user_achievements", "unique", {"ux_user_achievements_user_achievement"}),
  DropTable("user_achievements"),
  DropNamed("xp_events", "index", {"ix_xp_events_user_occurred"}),
  DropTable("xp_events") >>
  \o DropMapPoints \o <<
  DropNamed("achievements", "index", {"ix_achievements_rarity"}),
  DropTable("achievements"),
  DropNamed("events", "index", {"ix_events_rarity", "ix_events_active_ends_at", "ix_events_active"}),
  DropTable("events"),
  DropNamed("quests", "index", {"ix_quests_season_id", "ix_quests_rarity", "ix_quests_active"}),
  DropTable("quests"),
  DropType("ui_color_token"), DropType("rarity"),
  DropNamed("users", "unique", {"ux_users_public_id_not_null"}),
  DropNamed("users", "index", {"ix_users_rank"}),
  DropNamed("users", "check",
            {"ck_users_streak_days_non_negative", "ck_users_next_level_xp_non_negative",
             "ck_users_xp_non_negative", "ck_users_level_progress_range",
             "ck_users_level_positive", "ck_users_rank_positive_or_null"}),
  DropColumns("users", {"season_label", "streak_days", "next_level_xp", "xp", "level_progress",
                        "level", "rank", "public_id", "display_name"}) >>

-----------------------------------------------------------------------------
\* 0005: the points of the map become attributes of secrets.  The UPDATE between
\* the columns and the constraints is Placed, below.
AddSecretPosition == <<
  Create(Defaulted("item_secrets", {"category", "latitude", "longitude", "reward_xp", "description",
                                    "quest_id", "is_big", "has_hint", "hidden"})
         \union Typed("item_secrets", "rarity", "rarity")) >>

ConstrainSecretPosition == <<
  Create(ForeignKey("item_secrets", "fk_item_secrets_quest_id_quests", "quests")
         \union Check("item_secrets", {"ck_item_secrets_latitude_range",
                                       "ck_item_secrets_longitude_range",
                                       "ck_item_secrets_reward_xp_non_negative"})),
  Create(Index("item_secrets", "ix_item_secrets_hidden", {"hidden"})
         \union Index("item_secrets", "ix_item_secrets_rarity", {"rarity"})
         \union Index("item_secrets", "ix_item_secrets_lat_lon", {"latitude", "longitude"})
         \union Index("item_secrets", "ix_item_secrets_quest_id", {"quest_id"})) >>

DropSecretPosition == <<
  DropNamed("item_secrets", "index", {"ix_item_secrets_quest_id", "ix_item_secrets_lat_lon",
                                      "ix_item_secrets_rarity", "ix_item_secrets_hidden"}),
  DropNamed("item_secrets", "check", {"ck_item_secrets_reward_xp_non_negative",
                                      "ck_item_secrets_longitude_range",
                                      "ck_item_secrets_latitude_range"}),
  DropForeignKey("item_secrets", "fk_item_secrets_quest_id_quests"),
  DropColumns("item_secrets", {"hidden", "has_hint", "is_big", "quest_id", "description",
                               "reward_xp", "longitude", "latitude", "rarity", "category"}) >>

\* What the UPDATE makes of the pair of numbers in item_secrets.coords.
Latitudes == -90..90
Longitudes == -180..180
Unplaced == <<>>

\* Mutant: whatever could be a longitude comes first.
BugPlaced(coords) ==
  IF coords # Unplaced /\ coords[1] \in Longitudes THEN <<coords[2], coords[1]>> ELSE Unplaced

Placed(coords) ==
  CASE coords = Unplaced          -> Unplaced
    [] coords # Unplaced /\ coords[1] \in Latitudes -> coords
    [] coords # Unplaced /\ coords[1] \notin Latitudes /\ coords[2] \in Latitudes
                                  -> <<coords[2], coords[1]>>
    [] OTHER                      -> Unplaced
\* ck_item_secrets_longitude_range: the latitude cannot break its own.
Constrained(place) == place = Unplaced \/ place[2] \in Longitudes

-----------------------------------------------------------------------------
\* 0006: quest progress, streaks, achievement conditions.  The downgrade leaves
\* the indexes of the tables it drops to DROP TABLE.
AddQuestProgress == <<
  Create(Defaulted("users", {"last_login_at", "last_daily_claimed_at", "streak_last_date"})),
  Create(Index("users", "ix_users_last_login_at", {"last_login_at"})),
  Create(Table("user_quests") \union Required("user_quests", {"user_id", "quest_id"})
         \union Defaulted("user_quests", {"progress", "completed_at", "reward_claimed"})
         \union ForeignKey("user_quests", "fk_user_quests_user_id_users", "users")
         \union ForeignKey("user_quests", "fk_user_quests_quest_id_quests", "quests")
         \union Unique("user_quests", "ux_user_quests_user_quest", {"user_id", "quest_id"})
         \union Check("user_quests", {"ck_user_quests_progress_non_negative"})),
  Create(Index("user_quests", "ix_user_quests_user_id", {"user_id"})
         \union Index("user_quests", "ix_user_quests_quest_id", {"quest_id"})
         \union Index("user_quests", "ix_user_quests_completed", {"user_id", "completed_at"})),
  DropTypeCascade("achievementconditiontype"),
  Create(Enum("achievementconditiontype", {"scan_count", "xp_total", "level_reached",
                                           "collection_complete", "streak_days", "quest_count"})),
  Create(Table("achievement_conditions")
         \union Required("achievement_conditions", {"achievement_id", "threshold"})
         \union Typed("achievement_conditions", "condition_type", "achievementconditiontype")
         \union Mandatory("achievement_conditions", "condition_type")
         \union ForeignKey("achievement_conditions", "fk_achievement_conditions_achievement_id",
                           "achievements")
         \union Check("achievement_conditions", {"ck_achievement_conditions_threshold_positive"})),
  Create(Index("achievement_conditions", "ix_achievement_conditions_achievement_id",
               {"achievement_id"})) >>

DropQuestProgress == <<
  DropTable("achievement_conditions"), DropType("achievementconditiontype"),
  DropTable("user_quests"),
  DropNamed("users", "index", {"ix_users_last_login_at"}),
  DropColumns("users", {"streak_last_date", "last_daily_claimed_at", "last_login_at"}) >>

-----------------------------------------------------------------------------
\* 0007: collections and extended events.  Some of these tables have no
\* created_at or updated_at.
CreateCollections == <<
  Create(SlugTable("collections") \union Required("collections", {"name"})
         \union Defaulted("collections", {"description", "reward_xp", "reward_item_id", "is_active"})
         \union ForeignKey("collections", "fk_collections_reward_item_id_items", "items")
         \union Check("collections", {"ck_collections_reward_xp_non_negative"})),
  Create(Index("collections", "ix_collections_active", {"is_active"})),
  Create(BareTable("collection_items") \union Required("collection_items", {"collection_id", "item_id"})
         \union ForeignKey("collection_items", "fk_collection_items_collection_id", "collections")
         \union ForeignKey("collection_items", "fk_collection_items_item_id", "items")
         \union Unique("collection_items", "ux_collection_items", {"collection_id", "item_id"})),
  Create(Index("collection_items", "ix_collection_items_collection_id", {"collection_id"})
         \union Index("collection_items", "ix_collection_items_item_id", {"item_id"})),
  Create(BareTable("user_collections") \union Required("user_collections", {"user_id", "collection_id"})
         \union Defaulted("user_collections", {"completed_at", "reward_claimed", "created_at"})
         \union ForeignKey("user_collections", "fk_user_collections_user_id", "users")
         \union ForeignKey("user_collections", "fk_user_collections_collection_id", "collections")
         \union Unique("user_collections", "ux_user_collections", {"user_id", "collection_id"})),
  Create(Index("user_collections", "ix_user_collections_user_id", {"user_id"})) >>

ExtendEvents == <<
  DropTypeCascade("eventtype"),
  Create(Enum("eventtype", {"xp_boost", "thematic", "location", "community_goal",
                            "personal_challenge"})),
  Create(Typed("events", "event_type", "eventtype")
         \union Defaulted("events", {"description", "max_participants"})),
  Create(BareTable("event_modifiers") \union Required("event_modifiers", {"event_id", "modifier_type", "value"})
         \union Defaulted("event_modifiers", {"created_at"})
         \union ForeignKey("event_modifiers", "fk_event_modifiers_event_id", "events")),
  Create(Index("event_modifiers", "ix_event_modifiers_event_id", {"event_id"})),
  Create(BareTable("event_items") \union Required("event_items", {"event_id", "item_id"})
         \union ForeignKey("event_items", "fk_event_items_event_id", "events")
         \union ForeignKey("event_items", "fk_event_items_item_id", "items")
         \union Unique("event_items", "ux_event_items", {"event_id", "item_id"})),
  Create(BareTable("event_goals") \union Required("event_goals", {"event_id", "target_value"})
         \union Defaulted("event_goals", {"current_value", "reward_xp"})
         \union ForeignKey("event_goals", "fk_event_goals_event_id", "events")
         \union Unique("event_goals", "event_goals_event_id_key", {"event_id"})
         \union Check("event_goals", {"ck_event_goals_target_positive",
                                      "ck_event_goals_current_non_negative",
                                      "ck_event_goals_reward_xp_non_negative"})),
  Create(BareTable("user_events") \union Required("user_events", {"user_id", "event_id"})
         \union Defaulted("user_events", {"joined_at", "completed_at", "reward_claimed"})
         \union ForeignKey("user_events", "fk_user_events_user_id", "users")
         \union ForeignKey("user_events", "fk_user_events_event_id", "events")
         \union Unique("user_events", "ux_user_events", {"user_id", "event_id"})),
  Create(Index("user_events", "ix_user_events_user_id", {"user_id"})
         \union Index("user_events", "ix_user_events_event_id", {"event_id"})),
  Create(Defaulted("item_secrets", {"event_id"})),
  Create(ForeignKey("item_secrets", "fk_item_secrets_event_id_events", "events")),
  Create(Index("item_secrets", "ix_item_secrets_event_id", {"event_id"})) >>

DropCollectionsAndEvents == <<
  DropNamed("item_secrets", "index", {"ix_item_secrets_event_id"}),
  DropForeignKey("item_secrets", "fk_item_secrets_event_id_events"),
  DropColumns("item_secrets", {"event_id"}),
  DropTable("user_events"), DropTable("event_goals"), DropTable("event_items"),
  DropTable("event_modifiers"),
  DropColumns("events", {"max_participants", "description", "event_type"}),
  DropType("eventtype"),
  DropTable("user_collections"), DropTable("collection_items"), DropTable("collections") >>

-----------------------------------------------------------------------------
\* 0008 to 0010
AddTargetCount == <<
  Create(Defaulted("quests", {"target_count", "condition_tag"})),
  Create(Check("quests", {"ck_quests_target_count_positive"})) >>
DropTargetCount == <<
  DropNamed("quests", "check", {"ck_quests_target_count_positive"}),
  DropColumns("quests", {"condition_tag", "target_count"}) >>

CreateSeasons == <<
  Create(Table("seasons") \union Required("seasons", {"name", "starts_at", "ends_at", "is_active"})),
  Create(Index("seasons", "ix_seasons_is_active", {"is_active"})),
  Create(Table("user_season_history")
         \union Required("user_season_history", {"user_id", "season_id", "final_xp", "final_level"})
         \union Defaulted("user_season_history", {"final_rank"})
         \union ForeignKey("user_season_history", "fk_user_season_history_season_id_seasons", "seasons")
         \union ForeignKey("user_season_history", "fk_user_season_history_user_id_users", "users")),
  Create(Index("user_season_history", "ix_user_season_history_season_id", {"season_id"})
         \union Index("user_season_history", "ix_user_season_history_user_id", {"user_id"})
         \union Unique("user_season_history", "ux_user_season", {"user_id", "season_id"})) >>
\* Mutant: the downgrade leaves one table.
BugDropSeasons == << DropTable("user_season_history") >>

DropSeasons == <<
  DropNamed("user_season_history", "unique", {"ux_user_season"}),
  DropNamed("user_season_history", "index", {"ix_user_season_history_user_id",
                                             "ix_user_season_history_season_id"}),
  DropTable("user_season_history"),
  DropNamed("seasons", "index", {"ix_seasons_is_active"}),
  DropTable("seasons") >>

AddReferral == <<
  Create(Defaulted("users", {"referred_by_id"})),
  Create(ForeignKey("users", "fk_users_referred_by_id_users", "users")) >>
DropReferral == <<
  DropForeignKey("users", "fk_users_referred_by_id_users"),
  DropColumns("users", {"referred_by_id"}) >>

-----------------------------------------------------------------------------
\* 0011 to 0014: shop, cooldowns, crafting, stickers
\* Mutant: a NOT NULL column without a default.
BugCreateShop == <<
  Create(Table("shop_items")), Create(Required("users", {"coins"})), Create(Table("user_cosmetics")) >>

CreateShop == <<
  Create(Table("shop_items") \union Required("shop_items", {"name", "item_type", "price"})
         \union Defaulted("shop_items", {"is_active", "asset_url"})),
  Create(Defaulted("users", {"coins", "active_border_id", "active_bg_id"})),
  Create(ForeignKey("users", "fk_users_active_border_id_shop_items", "shop_items")
         \union ForeignKey("users", "fk_users_active_bg_id_shop_items", "shop_items")),
  Create(Table("user_cosmetics") \union Required("user_cosmetics", {"user_id", "shop_item_id"})
         \union ForeignKey("user_cosmetics", "fk_user_cosmetics_shop_item_id_shop_items", "shop_items")
         \union ForeignKey("user_cosmetics", "fk_user_cosmetics_user_id_users", "users")
         \union Unique("user_cosmetics", "uq_user_shop_item", {"user_id", "shop_item_id"})) >>
DropShop == <<
  DropTable("user_cosmetics"),
  DropForeignKey("users", "fk_users_active_bg_id_shop_items"),
  DropForeignKey("users", "fk_users_active_border_id_shop_items"),
  DropColumns("users", {"active_bg_id", "active_border_id", "coins"}),
  DropTable("shop_items") >>

\* Mutant: a column goes in the revision whose code stops using it.
BugAddCooldown == << DropColumns("item_secrets", {"coords"}) >>

AddCooldown == << Create(Defaulted("item_secrets", {"validation_count", "cooldown_until"})) >>
DropCooldown == << DropColumns("item_secrets", {"cooldown_until", "validation_count"}) >>

Fragments == {"fragments_common", "fragments_rare", "fragments_epic", "fragments_legendary",
              "fragments_mythic"}
\* Mutant: the shop is forgotten.
BugAddFragments == << Create(Defaulted("users", Fragments)) >>

AddFragments == <<
  Create(Defaulted("users", Fragments)),
  Create(Defaulted("shop_items", {"fragment_cost", "fragment_rarity"})) >>
DropFragments == <<
  DropColumns("shop_items", {"fragment_rarity", "fragment_cost"}),
  DropColumns("users", Fragments) >>

CreateStickers == <<
  Create(Table("user_stickers") \union Required("user_stickers", {"user_id", "token"})
         \union Defaulted("user_stickers", {"scan_count", "total_passive_xp", "total_passive_coins",
                                            "is_active"})
         \union ForeignKey("user_stickers", "fk_user_stickers_user_id_users", "users")
         \union Unique("user_stickers", "uq_user_stickers_user_id", {"user_id"})),
  Create(Unique("user_stickers", "ux_user_stickers_token", {"token"})),
  Create(Table("user_sticker_scans") \union Required("user_sticker_scans", {"user_id", "sticker_id"})
         \union ForeignKey("user_sticker_scans", "fk_user_sticker_scans_sticker_id_user_stickers",
                           "user_stickers")
         \union ForeignKey("user_sticker_scans", "fk_user_sticker_scans_user_id_users", "users")
         \union Unique("user_sticker_scans", "ux_user_sticker_scans_user_sticker",
                       {"user_id", "sticker_id"})),
  Create(Index("user_sticker_scans", "ix_user_sticker_scans_sticker_id", {"sticker_id"})) >>
DropStickers == << DropTable("user_sticker_scans"), DropTable("user_stickers") >>

-----------------------------------------------------------------------------
upgrade == <<
  <<>>,
  CreateUsers \o CreateCatalog \o CreateScans,
  NameKeys,
  AddProgress \o CreateQuestsAndEvents \o CreateMapPoints \o CreateXpAndAchievements,
  AddSecretPosition \o ConstrainSecretPosition \o DropMapPoints,
  AddQuestProgress, CreateCollections \o ExtendEvents, AddTargetCount, CreateSeasons,
  AddReferral, CreateShop, AddCooldown, AddFragments, CreateStickers >>

downgrade == <<
  <<>>, DropCatalog, UnnameKeys, DropUiModels, CreateMapPoints \o DropSecretPosition,
  DropQuestProgress, DropCollectionsAndEvents, DropTargetCount, DropSeasons,
  DropReferral, DropShop, DropCooldown, DropFragments, DropStickers >>

\* The revision that gives secrets their position, and moves the data.
MovePoints == 5

\* "alembic upgrade" from one revision to a later one, and "alembic downgrade" by
\* one: a single transaction, which env.py opens around all the pending revisions.
\* The bound variable makes TLC finish one revision before it starts the next.
Upgraded(schema, from, to, filled) ==
  LET after[r \in from..to] ==
        IF r = from THEN [ok |-> TRUE, schema |-> schema]
        ELSE CHOOSE done \in {Execute(upgrade[r], before, filled) : before \in {after[r - 1]}} : TRUE
  IN after[to]

Downgraded(schema, from) == Execute(downgrade[from], [ok |-> TRUE, schema |-> schema], {})

\* What an empty database becomes.
Schemas ==
  Seqs!FoldLeft(LAMBDA done, r :
                  Append(done, Upgraded(IF r = 1 THEN {} ELSE done[r - 1], r - 1, r, {}).schema),
                <<>>, [r \in Revisions |-> r])
SchemaAt(r) == IF r = 0 THEN {} ELSE Schemas[r]
=============================================================================
