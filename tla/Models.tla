------------------------------- MODULE Models -------------------------------
(***************************************************************************)
(* What the ORM models of src/app/db/models rely on in the database: their *)
(* tables, columns, enum labels, foreign keys, checks, and indexes.  Every *)
(* query of a model names all of its columns.  Indexes, unique constraints *)
(* and foreign keys count by what they are over, not by their names.       *)
(***************************************************************************)
EXTENDS Schema

Fields(t, cs) == Defaulted(t, cs)
Indexed(t, sets) == UNION {Index(t, "", cs) : cs \in sets}
Distinct(t, sets) == UNION {Unique(t, "", cs) : cs \in sets}
References(t, ts) == UNION {ForeignKey(t, "", r) : r \in ts}

Rarity == Enum("rarity", {"common", "rare", "epic", "legendary", "mythic"})
UIColorToken == Enum("ui_color_token", {"red", "cyan", "violetHi", "gold", "pink"})

\* BaseSQLModel and SlugSQLModel: a key and the two timestamps
Model(t) == Table(t)

-----------------------------------------------------------------------------
User ==
  Model("users") \union Enum("userrole", {"USER", "MOD", "ADMIN"})
  \union Fields("users", {"tg_id", "is_private", "first_name", "last_name", "is_premium", "photo_url",
                          "username", "display_name", "public_id", "rank", "level",
                          "level_progress", "xp", "next_level_xp", "streak_days", "season_label",
                          "referred_by_id", "coins", "fragments_common", "fragments_rare",
                          "fragments_epic", "fragments_legendary", "fragments_mythic",
                          "active_border_id", "active_bg_id", "last_login_at",
                          "last_daily_claimed_at", "streak_last_date"})
  \union Typed("users", "role", "userrole")
  \union References("users", {"users", "shop_items"})
  \union Distinct("users", {{"tg_id"}, {"username"}, {"public_id"}})
  \union Indexed("users", {{"role"}, {"rank"}})
  \union Check("users", {"ck_users_rank_positive_or_null", "ck_users_level_positive",
                         "ck_users_level_progress_range", "ck_users_xp_non_negative",
                         "ck_users_next_level_xp_non_negative", "ck_users_streak_days_non_negative"})

RefreshSession ==
  Model("refresh_sessions")
  \union Fields("refresh_sessions", {"user_id", "jti", "token_hash", "ip_address", "user_agent",
                                     "expires_at", "revoked_at", "last_used_at",
                                     "replaced_by_session_id"})
  \union References("refresh_sessions", {"users", "refresh_sessions"})
  \union Distinct("refresh_sessions", {{"jti"}, {"token_hash"}})
  \union Indexed("refresh_sessions", {{"user_id"}, {"expires_at"}, {"id"}})

Category ==
  Model("categories") \union Fields("categories", {"title", "color", "description"})
  \union Distinct("categories", {{"title"}}) \union Check("categories", {"ck_categories_color"})

ItemType ==
  Model("types") \union Fields("types", {"title", "description", "photo_url"})
  \union Distinct("types", {{"title"}})

Prototype ==
  Model("prototypes") \union Fields("prototypes", {"title", "description", "photo_url", "type_id"})
  \union References("prototypes", {"types"}) \union Indexed("prototypes", {{"type_id"}})

Item ==
  Model("items")
  \union Fields("items", {"title", "number", "prototype_id", "category_id", "type_id",
                          "validation_count", "is_active"})
  \union References("items", {"prototypes", "categories", "types"})
  \union Distinct("items", {{"number"}})
  \union Indexed("items", {{"category_id"}, {"prototype_id"}, {"type_id"}, {"is_active"},
                           {"category_id", "type_id"}})
  \union Check("items", {"ck_items_number_positive", "ck_items_validation_count_non_negative"})

ItemImage ==
  Model("item_images") \union Fields("item_images", {"item_id", "url", "is_main", "position"})
  \union References("item_images", {"items"})
  \union Distinct("item_images", {{"item_id"}}) \union Indexed("item_images", {{"item_id"}})

ItemSecret ==
  Model("item_secrets")
  \union Fields("item_secrets", {"item_id", "secret_hash", "title", "coords", "category", "latitude",
                                 "longitude", "reward_xp", "description", "quest_id", "is_big",
                                 "has_hint", "hidden", "is_active", "validation_count",
                                 "cooldown_until", "expires_at"})
  \union Typed("item_secrets", "rarity", "rarity")
  \union References("item_secrets", {"items", "quests"})
  \union Distinct("item_secrets", {{"secret_hash"}})
  \union Indexed("item_secrets", {{"item_id"}, {"is_active"}, {"hidden"}, {"rarity"},
                                  {"latitude", "longitude"}, {"quest_id"}})
  \union Check("item_secrets", {"ck_item_secrets_latitude_range", "ck_item_secrets_longitude_range",
                                "ck_item_secrets_reward_xp_non_negative"})

Validation ==
  Model("validations") \union Fields("validations", {"user_id", "item_id", "item_secret_id", "rank"})
  \union References("validations", {"users", "items", "item_secrets"})
  \union Distinct("validations", {{"user_id", "item_id"}, {"item_id", "rank"}})
  \union Indexed("validations", {{"user_id"}, {"item_id"}, {"item_secret_id"},
                                 {"item_id", "created_at", "id"}})
  \union Check("validations", {"ck_validations_rank_positive"})

-----------------------------------------------------------------------------
Quest ==
  Model("quests")
  \union Fields("quests", {"name", "step_label", "progress_percent", "reward_xp", "season_id",
                           "is_active", "target_count", "condition_tag"})
  \union Typed("quests", "rarity", "rarity")
  \union Indexed("quests", {{"is_active"}, {"rarity"}, {"season_id"}})
  \union Check("quests", {"ck_quests_progress_percent_range", "ck_quests_reward_xp_non_negative"})

UserQuest ==
  Model("user_quests")
  \union Fields("user_quests", {"user_id", "quest_id", "progress", "completed_at", "reward_claimed"})
  \union References("user_quests", {"users", "quests"})
  \union Distinct("user_quests", {{"user_id", "quest_id"}})
  \union Indexed("user_quests", {{"user_id"}, {"quest_id"}, {"user_id", "completed_at"}})
  \union Check("user_quests", {"ck_user_quests_progress_non_negative"})

\* ux_xp_events_user_source is declared outside of any table, by the names of its
\* columns: SQLAlchemy attaches it to none.
XpEvent ==
  Model("xp_events")
  \union Fields("xp_events", {"user_id", "source", "tag", "xp", "multiplier", "occurred_at"})
  \union Typed("xp_events", "color", "ui_color_token") \union UIColorToken
  \union References("xp_events", {"users"})
  \union Indexed("xp_events", {{"user_id", "occurred_at"}})
  \union Distinct("xp_events", {{"user_id", "source"}})
  \union Check("xp_events", {"ck_xp_events_multiplier_positive_or_null"})

Achievement ==
  Model("achievements") \union Fields("achievements", {"icon", "name", "description", "reward_xp"})
  \union Typed("achievements", "rarity", "rarity") \union Indexed("achievements", {{"rarity"}})
  \union Check("achievements", {"ck_achievements_reward_xp_non_negative"})

UserAchievement ==
  Model("user_achievements")
  \union Fields("user_achievements", {"user_id", "achievement_id", "unlocked", "progress_percent",
                                      "unlocked_at"})
  \union References("user_achievements", {"users", "achievements"})
  \union Distinct("user_achievements", {{"user_id", "achievement_id"}})
  \union Indexed("user_achievements", {{"user_id"}, {"achievement_id"}, {"unlocked"}})
  \union Check("user_achievements", {"ck_user_achievements_progress_percent_range"})

AchievementCondition ==
  Model("achievement_conditions")
  \union Enum("achievementconditiontype", {"scan_count", "xp_total", "level_reached",
                                           "collection_complete", "streak_days", "quest_count"})
  \union Fields("achievement_conditions", {"achievement_id", "threshold"})
  \union Typed("achievement_conditions", "condition_type", "achievementconditiontype")
  \union References("achievement_conditions", {"achievements"})
  \union Indexed("achievement_conditions", {{"achievement_id"}})
  \union Check("achievement_conditions", {"ck_achievement_conditions_threshold_positive"})

Collection ==
  Model("collections")
  \union Fields("collections", {"name", "description", "reward_xp", "reward_item_id", "is_active"})
  \union References("collections", {"items"}) \union Indexed("collections", {{"is_active"}})
  \union Check("collections", {"ck_collections_reward_xp_non_negative"})

CollectionItem ==
  Model("collection_items") \union Fields("collection_items", {"collection_id", "item_id"})
  \union References("collection_items", {"collections", "items"})
  \union Distinct("collection_items", {{"collection_id", "item_id"}})
  \union Indexed("collection_items", {{"collection_id"}, {"item_id"}})

UserCollection ==
  Model("user_collections")
  \union Fields("user_collections", {"user_id", "collection_id", "completed_at", "reward_claimed"})
  \union References("user_collections", {"users", "collections"})
  \union Distinct("user_collections", {{"user_id", "collection_id"}})
  \union Indexed("user_collections", {{"user_id"}})

-----------------------------------------------------------------------------
Event ==
  Model("events")
  \union Fields("events", {"title", "xp_multiplier", "starts_at", "ends_at", "is_active"})
  \union Typed("events", "rarity", "rarity")
  \union Indexed("events", {{"is_active"}, {"is_active", "ends_at"}, {"rarity"}})
  \union Check("events", {"ck_events_xp_multiplier_positive", "ck_events_period_valid"})

EventModifier ==
  Model("event_modifiers") \union Fields("event_modifiers", {"event_id", "modifier_type", "value"})
  \union References("event_modifiers", {"events"}) \union Indexed("event_modifiers", {{"event_id"}})

EventItem ==
  Model("event_items") \union Fields("event_items", {"event_id", "item_id"})
  \union References("event_items", {"events", "items"})
  \union Distinct("event_items", {{"event_id", "item_id"}})

EventGoal ==
  Model("event_goals")
  \union Fields("event_goals", {"event_id", "target_value", "current_value", "reward_xp"})
  \union References("event_goals", {"events"}) \union Distinct("event_goals", {{"event_id"}})
  \union Check("event_goals", {"ck_event_goals_target_positive",
                               "ck_event_goals_current_non_negative",
                               "ck_event_goals_reward_xp_non_negative"})

UserEvent ==
  Model("user_events")
  \union Fields("user_events", {"user_id", "event_id", "joined_at", "completed_at", "reward_claimed"})
  \union References("user_events", {"users", "events"})
  \union Distinct("user_events", {{"user_id", "event_id"}})
  \union Indexed("user_events", {{"user_id"}, {"event_id"}})

Season ==
  Model("seasons") \union Fields("seasons", {"name", "starts_at", "ends_at", "is_active"})
  \union Indexed("seasons", {{"is_active"}})

UserSeasonHistory ==
  Model("user_season_history")
  \union Fields("user_season_history", {"user_id", "season_id", "final_xp", "final_level", "final_rank"})
  \union References("user_season_history", {"users", "seasons"})
  \union Distinct("user_season_history", {{"user_id", "season_id"}})
  \union Indexed("user_season_history", {{"user_id"}, {"season_id"}})

-----------------------------------------------------------------------------
ShopItem ==
  Model("shop_items")
  \union Fields("shop_items", {"name", "item_type", "price", "is_active", "asset_url",
                               "fragment_cost", "fragment_rarity"})

UserCosmetic ==
  Model("user_cosmetics") \union Fields("user_cosmetics", {"user_id", "shop_item_id"})
  \union References("user_cosmetics", {"users", "shop_items"})
  \union Distinct("user_cosmetics", {{"user_id", "shop_item_id"}})

UserSticker ==
  Model("user_stickers")
  \union Fields("user_stickers", {"user_id", "token", "scan_count", "total_passive_xp",
                                  "total_passive_coins", "is_active"})
  \union References("user_stickers", {"users"})
  \union Distinct("user_stickers", {{"user_id"}, {"token"}})

UserStickerScan ==
  Model("user_sticker_scans") \union Fields("user_sticker_scans", {"user_id", "sticker_id"})
  \union References("user_sticker_scans", {"users", "user_stickers"})
  \union Distinct("user_sticker_scans", {{"user_id", "sticker_id"}})
  \union Indexed("user_sticker_scans", {{"sticker_id"}})

OutboxEvent ==
  Model("outbox_events") \union Enum("outboxeventstatus", {"PENDING", "PUBLISHED"})
  \union Fields("outbox_events", {"event_type", "payload"})
  \union Typed("outbox_events", "status", "outboxeventstatus")
  \union Indexed("outbox_events", {{"status"}})

ProcessedEvent ==
  Model("processed_events") \union Fields("processed_events", {"event_id", "status"})
  \union Distinct("processed_events", {{"event_id"}})

-----------------------------------------------------------------------------
metadata ==
  UNION {Rarity, User, RefreshSession, Category, ItemType, Prototype, Item, ItemImage, ItemSecret,
         Validation, Quest, UserQuest, XpEvent, Achievement, UserAchievement, AchievementCondition,
         Collection, CollectionItem, UserCollection, Event, EventModifier, EventItem, EventGoal,
         UserEvent, Season, UserSeasonHistory, ShopItem, UserCosmetic, UserSticker, UserStickerScan,
         OutboxEvent, ProcessedEvent}

\* What the models rely on and a schema does not have.
Missing(schema) ==
  metadata \ {IF o.kind \in {"index", "unique", "fk"} THEN [o EXCEPT !.name = ""] ELSE o
                : o \in schema}
=============================================================================
