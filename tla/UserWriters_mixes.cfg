\* Two sessions of one player, in mixes of tasks.
SPECIFICATION Spec
CONSTANTS
    r1 = r1  r2 = r2
    series = series  album = album  badge = badge  daily = daily  border = border  frame = frame
    Requests = {r1, r2}
    Sources = {series, album, badge, daily}
    Rewards = {series, album}
    WorthXp = {series, album}
    Achievements = {badge}
    Daily = daily
    Cosmetics = {border, frame}
    FirstCoins = 2
    FirstFragments = 2
    Price <- OneEach
    FragmentCost <- OneEach
    Seasons = {1, 2, 3}
    SeasonStart <- Starts
    SeasonEnd <- Ends
    Workloads <- Mixes
    Idle = Idle
    MaxClock = 6
SYMMETRY RequestSymmetry
INVARIANTS RewardOnce PaidOnce NoOverdraft ClaimedDayKept StreakEarned AnnouncedOnce SeasonsInTurn
CHECK_DEADLOCK FALSE
