SPECIFICATION Spec
CONSTANTS
    b1 = b1  b2 = b2  header = header  contact = contact  ui = ui
    ann = ann  bob = bob  guest = guest  testers = testers  others = others
    ContactPage = ContactPage  AccountPage = AccountPage
    Browsers = {b1, b2}
    Users = {ann, bob}
    Anons = {guest}
    Nobody = Nobody
    Flags = {header, contact, ui}
    Rules = {1, 2}
    Groups = {1, 2, 3}
    Slugs = {testers, others}
    NoSlug = NoSlug
    Pages = {ContactPage, AccountPage}
    AnyPage = AnyPage
    Values = {"legacy", "v2", "on", "off", "gone"}
    NoValue = NoValue
    Policy <- MCPolicy
    KeysOf <- MCKeysOf
    ViewerKeys <- MCViewerKeys
    BucketOf <- MCBucketOf
    AnonOf <- MCAnonOf
    Excepted = {ann}
    Catalogue <- MCCatalogue
    Previews <- MCPreviews
    Settings <- MCSettings
CHECK_DEADLOCK FALSE
INVARIANTS GuardedEarned QuietAnswers
PROPERTIES StickyKept
SYMMETRY Swapped
